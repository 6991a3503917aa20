------------------------------- MODULE Umalloc ------------------------------
(***************************************************************************)
(* The user library's allocator (src/user/umalloc.c): a circular list of   *)
(* free blocks in the order of their addresses, kept in the blocks         *)
(* themselves.  Addresses and sizes are counted in headers; address 0 is   *)
(* the static header base, the heap begins at 1.  Headers joined to an-   *)
(* other block are cleared: nothing reads them again.                      *)
(***************************************************************************)
EXTENDS Integers, FiniteSets, FiniteSetsExt

CONSTANTS
  MinCore,   \* 4096: the least number of units asked of sbrk()
  HeapEnd,   \* bound: last address sbrk() can give
  Units      \* block sizes asked for, header included

ASSUME UmallocAssumption ==
  MinCore \in Nat \ {0} /\ HeapEnd \in Nat /\ Units \subseteq Nat \ {0}

VARIABLES
  heap,   \* [0..HeapEnd -> [ptr, size]]: the headers
  freep,  \* freep, -1 before the first call
  brk,    \* first address past the heap
  live    \* addresses of the blocks handed out

umallocVars == <<heap, freep, brk, live>>

NoHeader == [ptr |-> 0, size |-> 0]

\* The blocks of the free list, in list order from a given one.
Nth(h, from) ==
  LET nth[i \in 0 .. HeapEnd + 1] == IF i = 0 THEN from ELSE h[nth[i - 1]].ptr
  IN  nth

\* Where free() puts block bp: the first block, from freep, between which
\* and the next one it lies; or the last block of the heap.
Before(h, start, bp) ==
  LET nth == Nth(h, start)
      at == {i \in DOMAIN nth :
               LET p == nth[i]
                   q == h[p].ptr
               IN  (bp > p /\ bp < q) \/ (p >= q /\ (bp > p \/ bp < q))}
  IN  nth[Min(at)]

\* Mutant: the block is not joined to the one before it.
FreedNoJoin(h, start, bp) ==
  LET p == Before(h, start, bp)
      q == h[p].ptr
      up == IF bp + h[bp].size = q
            THEN [h EXCEPT ![bp] = [ptr |-> h[q].ptr, size |-> @.size + h[q].size],
                      ![q] = NoHeader]
            ELSE [h EXCEPT ![bp].ptr = q]
  IN  [heap |-> [up EXCEPT ![p].ptr = bp], freep |-> p]

\* free(): join with the block above, then with the one below.
Freed(h, start, bp) ==
  LET p == Before(h, start, bp)
      q == h[p].ptr
      up == IF bp + h[bp].size = q
            THEN [h EXCEPT ![bp] = [ptr |-> h[q].ptr, size |-> @.size + h[q].size],
                      ![q] = NoHeader]
            ELSE [h EXCEPT ![bp].ptr = q]
  IN  [heap |-> IF p + h[p].size = bp
                THEN [up EXCEPT ![p] = [ptr |-> up[bp].ptr, size |-> @.size + up[bp].size],
                                ![bp] = NoHeader]
                ELSE [up EXCEPT ![p].ptr = bp],
       freep |-> p]

free(bp) ==
  LET f == Freed(heap, freep, bp) IN
  /\ bp \in live
  /\ heap' = f.heap
  /\ freep' = f.freep
  /\ live' = live \ {bp}
  /\ UNCHANGED brk

\* The search of malloc(): the first block, after freep, that is large
\* enough, and the one before it; none if the search comes back to freep.
Fits(h, start, n) ==
  LET nth == Nth(h, start)
      round == Min({i \in 1 .. HeapEnd + 1 : nth[i] = start})
  IN  {i \in 1 .. round : h[nth[i]].size >= n}

\* Take n units from the end of the block found, or all of it.
Take(h, start, n) ==
  LET nth == Nth(h, start)
      i == Min(Fits(h, start, n))
      p == nth[i]
      prev == nth[i - 1]
      at == p + h[p].size - n
  IN  /\ heap' = IF h[p].size = n THEN [h EXCEPT ![prev].ptr = h[p].ptr, ![p].ptr = 0]
                 ELSE [h EXCEPT ![p].size = @ - n, ![at] = [ptr |-> 0, size |-> n]]
      /\ freep' = prev
      /\ live' = live \cup {at}

\* malloc() of n units; morecore() is asked when the list has no block.
malloc(n) ==
  LET start == IF freep = -1 THEN 0 ELSE freep
      nu == IF n < MinCore THEN MinCore ELSE n
      grown == Freed([heap EXCEPT ![brk] = [ptr |-> 0, size |-> nu]], start, brk)
  IN  \/ /\ Fits(heap, start, n) # {}
         /\ Take(heap, start, n)
         /\ UNCHANGED brk
      \/ /\ Fits(heap, start, n) = {}
         /\ brk + nu - 1 <= HeapEnd
         /\ brk' = brk + nu
         /\ Take(grown.heap, grown.freep, n)
      \/ /\ Fits(heap, start, n) = {}
         /\ freep' = start
         /\ UNCHANGED <<heap, brk, live>>

UmallocInit ==
  /\ heap = [a \in 0 .. HeapEnd |-> NoHeader]
  /\ freep = -1
  /\ brk = 1
  /\ live = {}

UmallocNext == (\E n \in Units : malloc(n)) \/ (\E bp \in live : free(bp))

-----------------------------------------------------------------------------
(* Properties *)

FreeBlocks == IF freep = -1 THEN {} ELSE {Nth(heap, freep)[i] : i \in 0 .. HeapEnd + 1} \ {0}
Extent(a) == a .. a + heap[a].size - 1

\* The blocks handed out and the free ones are disjoint and make up the
\* heap; the list goes up through the addresses and comes round once, and
\* no two neighbours are left unjoined, whatever the order of the calls.
HeapSound ==
  LET blocks == live \cup FreeBlocks IN
  /\ UNION {Extent(a) : a \in blocks} = 1 .. brk - 1
  /\ \A a, b \in blocks : a # b => Extent(a) \cap Extent(b) = {}
  /\ \A a \in FreeBlocks : a + heap[a].size \notin FreeBlocks
  /\ Cardinality({a \in FreeBlocks \cup {0} : heap[a].ptr <= a}) = 1

(* The inductive invariant *)

\* In the set F of addresses the next one up from a is x, the first one if
\* there is none.
Follows(F, a, x) ==
  IF x > a THEN \A b \in F : b <= a \/ b >= x
  ELSE x = 0 /\ \A b \in F : b <= a

\* The addresses F are linked in their order and round; base is one of them.
Linked(h, F) ==
  /\ F \subseteq 0 .. HeapEnd /\ 0 \in F /\ h[0].size = 0
  /\ \A a \in F : h[a].ptr \in F /\ Follows(F, a, h[a].ptr)

\* The blocks B make up the heap up to end.
Tiled(h, B, end) ==
  /\ \A a \in B : a \in 1 .. end - 1 /\ h[a].size >= 1 /\ a + h[a].size <= end
  /\ \A a, b \in B : a < b => a + h[a].size <= b
  /\ \A x \in 1 .. end - 1 : \E a \in B : a <= x /\ x < a + h[a].size

HeapHolds(F) ==
  /\ brk \in 1 .. HeapEnd + 1
  /\ heap \in [0 .. HeapEnd -> [ptr : 0 .. HeapEnd, size : Nat]]
  /\ freep \in F \/ (freep = -1 /\ brk = 1)
  /\ F \cap live = {}
  /\ Linked(heap, F)
  /\ Tiled(heap, (F \ {0}) \cup live, brk)
  /\ \A a \in F \ {0} : a + heap[a].size \notin F

HeapInv == HeapHolds(FreeBlocks \cup {0})
=============================================================================
