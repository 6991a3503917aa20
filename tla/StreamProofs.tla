---------------------------- MODULE StreamProofs ----------------------------
(***************************************************************************)
(* Proofs about what carries bytes from writers to readers: the pipe, for  *)
(* any number of processes, any size of the ring and any modulus of the    *)
(* counters that is a multiple of it; the console, for any readers, any    *)
(* characters, any input ring and any modulus of its indices that is a     *)
(* multiple of it, and any text screen of at least two rows; and kbd.c and *)
(* mouse.c, for any keys, packets and times of a double click below the    *)
(* 1000 ticks of "never".                                                  *)
(***************************************************************************)
EXTENDS Pipe, Console, Ps2, TLAPS, SequenceTheorems

-----------------------------------------------------------------------------
(* Facts about %, and about the ring buffers of the kernel: the code counts *)
(* modulo 2^32 and reduces each count again modulo the size of the buffer. *)

\* Division with remainder.
LEMMA DivMod ==
  ASSUME NEW a \in Int, NEW n \in Nat \ {0}
  PROVE  /\ (a % n) \in 0 .. n - 1
         /\ (a \div n) \in Int
         /\ a = n * (a \div n) + (a % n)
  OBVIOUS

\* A multiple of n that is not 0 is at least n.
LEMMA Multiple ==
  ASSUME NEW d \in Int, NEW n \in Nat \ {0}
  PROVE  /\ d >= 1 => n * d >= n
         /\ d <= -1 => n * d <= -n
         /\ n * d \in Int
  OBVIOUS

\* The remainder is determined by its range.
LEMMA ModUnique ==
  ASSUME NEW a \in Int, NEW n \in Nat \ {0}, NEW q \in Int, NEW r \in 0 .. n - 1,
         a = n * q + r
  PROVE  a % n = r
<1> DEFINE d == q - (a \div n)
<1>1. d \in Int 
  BY DivMod
<1>2. n * d = (a % n) - r
  BY DivMod
<1>3. (a % n) - r < n /\ (a % n) - r > -n
  BY DivMod
<1> HIDE DEF d
<1>5. ~ d >= 1 /\ ~ d <= -1
  BY <1>1, <1>2, <1>3, Multiple
<1>4. d = 0
  BY <1>1, <1>5
<1> QED BY <1>2, <1>4, DivMod

\* A number in range is its own remainder.
LEMMA ModSmall ==
  ASSUME NEW n \in Nat \ {0}, NEW r \in 0 .. n - 1
  PROVE  r % n = r
  BY ModUnique, r = n * 0 + r

\* Multiples of the modulus do not matter.
LEMMA ModAddMultiple ==
  ASSUME NEW a \in Int, NEW n \in Nat \ {0}, NEW q \in Int
  PROVE  (a + n * q) % n = a % n
<1> DEFINE r == a % n
           p == a \div n
<1>1. r \in 0 .. n - 1 /\ p \in Int /\ a = n * p + r
  BY DivMod
<1> HIDE DEF r, p
<1>2. a + n * q = n * (p + q) + r
  BY <1>1
<1>3. p + q \in Int /\ a + n * q \in Int
  BY <1>1
<1>4. (a + n * q) % n = r
  BY <1>1, <1>2, <1>3, ModUnique
<1> QED BY <1>4 DEF r

\* A term of a sum or difference may be reduced first.
LEMMA ModPlus ==
  ASSUME NEW a \in Int, NEW b \in Int, NEW n \in Nat \ {0}
  PROVE  /\ ((a % n) + b) % n = (a + b) % n
         /\ (b - (a % n)) % n = (b - a) % n
         /\ ((a % n) - b) % n = (a - b) % n
<1> DEFINE r == a % n
           p == a \div n
<1>1. r \in 0 .. n - 1 /\ p \in Int /\ a = n * p + r
  BY DivMod
<1> HIDE DEF r, p
<1>2. -p \in Int /\ n * p \in Int /\ n * (-p) = -(n * p)
  BY <1>1
<1>3. (a + b) % n = (r + b) % n
  <2>1. a + b = (r + b) + n * p
    BY <1>1, <1>2
  <2>2. r + b \in Int
    BY <1>1
  <2>3. ((r + b) + n * p) % n = (r + b) % n
    BY <1>1, <1>2, <2>2, ModAddMultiple
  <2> QED BY <2>1, <2>3
<1>4. (b - a) % n = (b - r) % n
  <2>1. b - a = (b - r) + n * (-p)
    BY <1>1, <1>2
  <2>2. b - r \in Int
    BY <1>1
  <2>3. ((b - r) + n * (-p)) % n = (b - r) % n
    BY <1>1, <1>2, <2>2, ModAddMultiple
  <2> QED BY <2>1, <2>3
<1>5. (a - b) % n = (r - b) % n
  <2>1. a - b = (r - b) + n * p
    BY <1>1, <1>2
  <2>2. r - b \in Int
    BY <1>1
  <2>3. ((r - b) + n * p) % n = (r - b) % n
    BY <1>1, <1>2, <2>2, ModAddMultiple
  <2> QED BY <2>1, <2>3
<1> QED BY <1>3, <1>4, <1>5 DEF r

\* Reducing modulo a multiple of n first does not change the remainder.
LEMMA ModMod ==
  ASSUME NEW a \in Int, NEW n \in Nat \ {0}, NEW k \in Nat \ {0}
  PROVE  (a % (k * n)) % n = a % n
<1> DEFINE m == k * n
           r == a % m
           p == a \div m
<1>1. m \in Nat \ {0}
  OBVIOUS
<1>2. r \in 0 .. m - 1 /\ p \in Int /\ a = m * p + r
  BY <1>1, DivMod
<1> HIDE DEF r, p
<1>3. m * p = n * (k * p) /\ k * p \in Int
  BY <1>2
<1>4. a = r + n * (k * p)
  BY <1>2, <1>3
<1>5. r \in Int
  BY <1>1, <1>2
<1> HIDE DEF m
<1>6. (r + n * (k * p)) % n = r % n
  BY <1>3, <1>5, ModAddMultiple
<1> QED BY <1>4, <1>6 DEF r, m

\* Different numbers less than n apart have different remainders.
LEMMA ModInjective ==
  ASSUME NEW a \in Int, NEW b \in Int, NEW n \in Nat \ {0},
         a - b < n, b - a < n, a % n = b % n
  PROVE  a = b
<1> DEFINE d == (a \div n) - (b \div n)
<1>1. d \in Int 
  BY DivMod
<1>2. n * d = a - b
  BY DivMod
<1> HIDE DEF d
<1>3. ~ d >= 1 /\ ~ d <= -1
  BY <1>1, <1>2, Multiple
<1>4. d = 0
  BY <1>1, <1>3
<1> QED BY <1>2, <1>4

-----------------------------------------------------------------------------
(* Ring buffers: two counters that wrap, reduced once more to a slot *)

\* Counters that wrap at `wrap', a multiple of the size of the buffer.
RingOf(wrap, size) ==
  /\ wrap \in Nat \ {0} /\ size \in Nat \ {0} /\ size < wrap
  /\ \E k \in Nat \ {0} : wrap = k * size

\* The slot of the i-th element after the counter r, when counters
\* wrap at a multiple of the size of the buffer.
RingSlot(r, i, wrap, size) == ((r + i - 1) % wrap) % size

LEMMA RingSlotRange ==
  ASSUME NEW wrap, NEW size, RingOf(wrap, size),
         NEW r \in Nat, NEW i \in Nat
  PROVE  /\ RingSlot(r, i, wrap, size) = (r + i - 1) % size
         /\ RingSlot(r, i, wrap, size) \in 0..size-1
<1>1. PICK k \in Nat \ {0} : wrap = k * size
  BY DEF RingOf
<1>2. r + i - 1 \in Int
  OBVIOUS
<1>3. RingSlot(r, i, wrap, size) = (r + i - 1) % size
  BY <1>1, <1>2, ModMod DEF RingOf, RingSlot
<1> QED BY <1>2, <1>3, DivMod DEF RingOf

\* As many elements in a row as the buffer holds have different slots.
LEMMA RingSlotInjective ==
  ASSUME NEW wrap, NEW size, RingOf(wrap, size),
         NEW r \in Nat, NEW i \in 1..size, NEW j \in 1..size,
         RingSlot(r, i, wrap, size) = RingSlot(r, j, wrap, size)
  PROVE  i = j
<1>0. i \in Nat /\ j \in Nat
  BY DEF RingOf
<1>1. (r + i - 1) % size = (r + j - 1) % size
  BY <1>0, RingSlotRange
<1>2. /\ r + i - 1 \in Int /\ r + j - 1 \in Int
      /\ (r + i - 1) - (r + j - 1) < size
      /\ (r + j - 1) - (r + i - 1) < size
  BY DEF RingOf
<1>3. r + i - 1 = r + j - 1
  BY <1>1, <1>2, ModInjective DEF RingOf
<1> QED BY <1>0, <1>3

\* A counter that has advanced by k, and wrapped, names the slots behind.
LEMMA RingSlotShift ==
  ASSUME NEW wrap, NEW size, RingOf(wrap, size),
         NEW r \in Nat, NEW i \in Nat, NEW k \in Nat
  PROVE  RingSlot((r + k) % wrap, i, wrap, size) = RingSlot(r, k + i, wrap, size)
<1>1. r + k \in Int /\ i - 1 \in Int
  OBVIOUS
<1>2. ((r + k) % wrap) + i - 1 = ((r + k) % wrap) + (i - 1)
  BY <1>1, DivMod DEF RingOf
<1>3. (((r + k) % wrap) + (i - 1)) % wrap = ((r + k) + (i - 1)) % wrap
  BY <1>1, ModPlus DEF RingOf
<1>4. (r + k) + (i - 1) = r + (k + i) - 1
  OBVIOUS
<1> QED BY <1>2, <1>3, <1>4 DEF RingSlot

\* The distance of two counters.
LEMMA RingDistance ==
  ASSUME NEW wrap \in Nat \ {0},
         NEW r \in 0..wrap-1, NEW w \in 0..wrap-1
  PROVE  /\ (w - r) % wrap \in 0..wrap-1
         /\ w = (r + ((w - r) % wrap)) % wrap
<1>1. r \in Int /\ w - r \in Int
  OBVIOUS
<1>2. (((w - r) % wrap) + r) % wrap = ((w - r) + r) % wrap
  BY <1>1, ModPlus
<1>3. (w - r) % wrap \in 0..wrap-1
  BY <1>1, DivMod
<1>4. (w - r) + r = w /\ ((w - r) % wrap) + r = r + ((w - r) % wrap)
  BY <1>3
<1>5. w % wrap = w
  BY ModSmall
<1> QED BY <1>2, <1>3, <1>4, <1>5

\* Advancing the counter of the writer by k moves the counters k apart, up to the modulus.
LEMMA RingDistanceWrite ==
  ASSUME NEW wrap \in Nat \ {0},
         NEW r \in 0..wrap-1, NEW w \in 0..wrap-1, NEW k \in Nat,
         ((w - r) % wrap) + k < wrap
  PROVE  /\ (w + k) % wrap \in 0..wrap-1
         /\ (((w + k) % wrap) - r) % wrap = ((w - r) % wrap) + k
<1> DEFINE u == (w - r) % wrap
<1>1. r \in Int /\ w \in Int /\ k \in Int /\ w - r \in Int /\ w + k \in Int
  OBVIOUS
<1>2. u \in 0..wrap-1
  BY RingDistance
<1>3. (((w + k) % wrap) - r) % wrap = ((w + k) - r) % wrap
  BY <1>1, ModPlus
<1>4. (((w - r) % wrap) + k) % wrap = ((w - r) + k) % wrap
  <2> DEFINE a == w - r
  <2>1. a \in Int
    BY <1>1
  <2> HIDE DEF a
  <2>2. ((a % wrap) + k) % wrap = (a + k) % wrap
    BY <1>1, <2>1, ModPlus
  <2> QED BY <2>2 DEF a
<1>5. (w + k) - r = (w - r) + k
  BY <1>1
<1>6. u + k \in 0..wrap-1
  BY <1>2
<1>7. (u + k) % wrap = u + k
  BY <1>6, ModSmall
<1>8. (w + k) % wrap \in 0..wrap-1
  BY <1>1, DivMod
<1> QED BY <1>3, <1>4, <1>5, <1>7, <1>8

\* Advancing the counter of the reader by k moves them k together.
LEMMA RingDistanceRead ==
  ASSUME NEW wrap \in Nat \ {0},
         NEW r \in 0..wrap-1, NEW w \in 0..wrap-1, NEW k \in Nat,
         k <= (w - r) % wrap
  PROVE  /\ (r + k) % wrap \in 0..wrap-1
         /\ (w - ((r + k) % wrap)) % wrap = ((w - r) % wrap) - k
<1> DEFINE u == (w - r) % wrap
<1>1. r \in Int /\ w \in Int /\ k \in Int /\ w - r \in Int /\ r + k \in Int
  OBVIOUS
<1>2. u \in 0..wrap-1
  BY RingDistance
<1>3. (w - ((r + k) % wrap)) % wrap = (w - (r + k)) % wrap
  BY <1>1, ModPlus
<1>4. (((w - r) % wrap) - k) % wrap = ((w - r) - k) % wrap
  <2> DEFINE a == w - r
  <2>1. a \in Int
    BY <1>1
  <2> HIDE DEF a
  <2>2. ((a % wrap) - k) % wrap = (a - k) % wrap
    BY <1>1, <2>1, ModPlus
  <2> QED BY <2>2 DEF a
<1>5. w - (r + k) = (w - r) - k
  BY <1>1
<1>6. u - k \in 0..wrap-1
  BY <1>2
<1>7. (u - k) % wrap = u - k
  BY <1>6, ModSmall
<1>8. (r + k) % wrap \in 0..wrap-1
  BY <1>1, DivMod
<1> QED BY <1>3, <1>4, <1>5, <1>7, <1>8

\* Taking the counter of the writer back by k moves them k together.
LEMMA RingDistanceBack ==
  ASSUME NEW wrap \in Nat \ {0},
         NEW r \in 0..wrap-1, NEW w \in 0..wrap-1, NEW k \in Nat,
         k <= (w - r) % wrap
  PROVE  /\ (w - k) % wrap \in 0..wrap-1
         /\ (((w - k) % wrap) - r) % wrap = ((w - r) % wrap) - k
<1> DEFINE a == w - r
           u == a % wrap
<1>1. r \in Int /\ w \in Int /\ k \in Int /\ a \in Int /\ w - k \in Int
  OBVIOUS
<1>2. u \in 0..wrap-1
  BY RingDistance
<1>3. (((w - k) % wrap) - r) % wrap = ((w - k) - r) % wrap
  BY <1>1, ModPlus
<1>4. (w - k) - r = a - k
  BY <1>1
<1> HIDE DEF a
<1>5. ((a % wrap) - k) % wrap = (a - k) % wrap
  BY <1>1, ModPlus
<1>6. u - k \in 0..wrap-1
  BY <1>2 DEF a
<1>7. (u - k) % wrap = u - k
  BY <1>6, ModSmall
<1>8. (w - k) % wrap \in 0..wrap-1
  BY <1>1, DivMod
<1> QED BY <1>3, <1>4, <1>5, <1>7, <1>8 DEF a

\* The counters are the size apart when the buffer is full.
LEMMA RingFullIff ==
  ASSUME NEW wrap \in Nat \ {0}, NEW size \in 0..wrap-1,
         NEW r \in 0..wrap-1, NEW w \in 0..wrap-1
  PROVE  (w = (r + size) % wrap) <=> ((w - r) % wrap = size)
<1>1. ASSUME (w - r) % wrap = size PROVE w = (r + size) % wrap
  BY <1>1, RingDistance
<1>2. ASSUME w = (r + size) % wrap PROVE (w - r) % wrap = size
  <2>1. r \in Int /\ r + size \in Int
    OBVIOUS
  <2>2. (((r + size) % wrap) - r) % wrap = ((r + size) - r) % wrap
    BY <2>1, ModPlus
  <2>3. (r + size) - r = size
    BY <2>1
  <2>4. size % wrap = size
    BY <2>1, ModSmall
  <2> QED BY <1>2, <2>2, <2>3, <2>4
<1> QED BY <1>1, <1>2

\* The elements of a concatenation.
LEMMA ConcatElements ==
  ASSUME NEW S, NEW f \in Seq(S), NEW g \in Seq(S)
  PROVE  /\ f \o g \in Seq(S)
         /\ Len(f \o g) = Len(f) + Len(g)
         /\ \A i \in 1..Len(f) : (f \o g)[i] = f[i]
         /\ \A i \in 1..Len(g) : (f \o g)[Len(f) + i] = g[i]
  OBVIOUS

-----------------------------------------------------------------------------
(* Counters and slots of the ring *)

\* The ring is smaller than the range of its counters, which is a multiple.
LEMMA PipeSizes ==
  /\ PIPESIZE \in Nat \ {0} /\ Wrap \in Nat \ {0} /\ PIPESIZE < Wrap
  /\ RingOf(Wrap, PIPESIZE)
<1>1. PICK k \in 2..Wrap : Wrap = k * PIPESIZE
  BY PipeAssumption
<1>2. PIPESIZE \in Nat \ {0} /\ Wrap \in Nat
  BY PipeAssumption
<1>3. k \in Nat \ {0} /\ k >= 2
  BY <1>2
<1>4. k * PIPESIZE >= 2 * PIPESIZE
  BY <1>2, <1>3
<1> QED BY <1>1, <1>2, <1>3, <1>4 DEF RingOf

\* The slot of the i-th byte after the counter r.
PipeSlot(r, i) == RingSlot(r, i, Wrap, PIPESIZE)

LEMMA PipeSlotShift ==
  ASSUME NEW r \in Nat, NEW i \in Nat, NEW k \in Nat
  PROVE  PipeSlot((r + k) % Wrap, i) = PipeSlot(r, k + i)
  BY PipeSizes, RingSlotShift DEF PipeSlot

-----------------------------------------------------------------------------
(* The bytes in the ring *)

\* Ring and Used in terms of PipeSlot.
LEMMA RingFacts ==
  ASSUME PipeShape
  PROVE  /\ Used \in 0..Wrap-1
         /\ nwrite = (nread + Used) % Wrap
         /\ Full <=> Used = PIPESIZE
         /\ Ring = [i \in 1..Used |-> data[PipeSlot(nread, i)]]
<1>1. nread \in 0..Wrap-1 /\ nwrite \in 0..Wrap-1 /\ PIPESIZE \in 0..Wrap-1
  BY PipeSizes DEF PipeShape
<1>2. /\ Used \in 0..Wrap-1
      /\ nwrite = (nread + Used) % Wrap
  BY <1>1, PipeSizes, RingDistance DEF Used
<1>3. Full <=> Used = PIPESIZE
  BY <1>1, PipeSizes, RingFullIff DEF Full, Used
<1> QED BY <1>2, <1>3 DEF Ring, PipeSlot, RingSlot

\* Storing k bytes behind the ones in the ring appends them, and overwrites
\* none.
LEMMA StoreAppends ==
  ASSUME PipeShape, Ring = flight, Used <= PIPESIZE,
         NEW p \in Procs, NEW k \in Nat, k <= PIPESIZE - Used, k <= todo[p],
         Store(p, k), nread' = nread
  PROVE  /\ Used' = Used + k
         /\ nwrite' \in 0..Wrap-1
         /\ data' \in [0..PIPESIZE-1 -> Bytes \cup {Junk}]
         /\ flight' \in Seq(Bytes)
         /\ Ring' = flight'
<1> DEFINE u == Used
           byte(i) == <<p, todo[p] - i + 1>>
           at(s) == {i \in 1..k : PipeSlot(nwrite, i) = s}
           new == [i \in 1..k |-> byte(i)]
<1>1. /\ u \in 0..PIPESIZE /\ nread \in 0..Wrap-1 /\ nwrite \in 0..Wrap-1
      /\ nread \in Nat /\ nwrite \in Nat /\ u + k <= PIPESIZE
      /\ nwrite = (nread + u) % Wrap
      /\ Ring = [i \in 1..u |-> data[PipeSlot(nread, i)]]
  BY RingFacts, PipeSizes DEF PipeShape
<1>2. /\ data' = [s \in 0..PIPESIZE-1 |->
                    IF at(s) = {} THEN data[s]
                    ELSE byte(CHOOSE i \in at(s) : \A j \in at(s) : j <= i)]
      /\ nwrite' = (nwrite + k) % Wrap
      /\ flight' = flight \o new
  BY DEF Store, StoreAt, PipeSlot, RingSlot
<1>3. \A i \in 1..k : byte(i) \in Bytes
  <2>1. todo[p] \in 0..MaxCount /\ MaxCount \in Nat
    BY PipeAssumption DEF PipeShape
  <2>2. \A i \in 1..k : todo[p] - i + 1 \in 1..MaxCount
    BY <2>1
  <2> QED BY <2>2 DEF Bytes
<1>4. Used' = u + k /\ nwrite' \in 0..Wrap-1
  <2>1. ((nwrite - nread) % Wrap) = u
    BY DEF Used
  <2>2. u + k < Wrap
    BY <1>1, PipeSizes
  <2>3. ((nwrite - nread) % Wrap) + k < Wrap
    BY <2>1, <2>2
  <2>4. /\ (nwrite + k) % Wrap \in 0..Wrap-1
        /\ (((nwrite + k) % Wrap) - nread) % Wrap = ((nwrite - nread) % Wrap) + k
    BY <1>1, <2>3, PipeSizes, RingDistanceWrite
  <2> QED BY <1>2, <2>1, <2>4 DEF Used
<1> HIDE DEF u
<1>5. \A i \in 1..k : PipeSlot(nwrite, i) = PipeSlot(nread, u + i)
  BY <1>1, PipeSlotShift
\* A slot that holds a byte already is not written.
<1>6. \A i \in 1..u : at(PipeSlot(nread, i)) = {}
  <2> SUFFICES ASSUME NEW i \in 1..u, NEW j \in 1..k, PipeSlot(nwrite, j) = PipeSlot(nread, i)
               PROVE  FALSE
    OBVIOUS
  <2>1. i \in 1..PIPESIZE /\ u + j \in 1..PIPESIZE /\ i # u + j
    BY <1>1, PipeSizes
  <2> QED BY <1>1, <1>5, <2>1, PipeSizes, RingSlotInjective DEF PipeSlot
\* The j-th free slot gets the j-th byte.
<1>7. \A j \in 1..k : at(PipeSlot(nread, u + j)) = {j}
  <2> SUFFICES ASSUME NEW i \in 1..k, NEW j \in 1..k, PipeSlot(nwrite, i) = PipeSlot(nwrite, j)
               PROVE  i = j
    BY <1>5
  <2>1. u + i \in 1..PIPESIZE /\ u + j \in 1..PIPESIZE
    BY <1>1, PipeSizes
  <2>2. u + i = u + j
    BY <1>1, <1>5, <2>1, PipeSizes, RingSlotInjective DEF PipeSlot
  <2> QED BY <1>1, <2>2
<1>8. \A i \in 1..u + k : PipeSlot(nread, i) \in 0..PIPESIZE-1
  <2>1. \A i \in 1..u + k : i \in Nat
    BY <1>1
  <2> QED BY <1>1, <2>1, PipeSizes, RingSlotRange DEF PipeSlot
<1>9. \A i \in 1..u : data'[PipeSlot(nread, i)] = data[PipeSlot(nread, i)]
  BY <1>1, <1>2, <1>6, <1>8
<1>10. \A j \in 1..k : data'[PipeSlot(nread, u + j)] = byte(j)
  <2> SUFFICES ASSUME NEW j \in 1..k PROVE data'[PipeSlot(nread, u + j)] = byte(j)
    OBVIOUS
  <2>1. u + j \in 1..u + k
    BY <1>1
  <2>2. at(PipeSlot(nread, u + j)) = {j} /\ PipeSlot(nread, u + j) \in 0..PIPESIZE-1
    BY <1>7, <1>8, <2>1
  <2>3. (CHOOSE i \in {j} : \A m \in {j} : m <= i) = j
    OBVIOUS
  <2> HIDE DEF at, byte
  <2> QED BY <1>2, <2>2, <2>3
<1>11. data' \in [0..PIPESIZE-1 -> Bytes \cup {Junk}]
  <2>1. ASSUME NEW s \in 0..PIPESIZE-1, at(s) # {}
        PROVE  byte(CHOOSE i \in at(s) : \A j \in at(s) : j <= i) \in Bytes
    <3>1. PICK j \in 1..k : PipeSlot(nwrite, j) = s
      BY <2>1
    <3>2. at(s) = {j}
      BY <1>5, <1>7, <3>1
    <3> QED BY <1>3, <3>2
  <2> HIDE DEF at, byte
  <2> QED BY <1>2, <2>1 DEF PipeShape
<1>12. Len(flight) = u /\ flight \in Seq(Bytes) /\ \A i \in 1..u : flight[i] = data[PipeSlot(nread, i)]
  BY <1>1 DEF PipeShape
<1>13. new \in Seq(Bytes) /\ Len(new) = k
  BY <1>3
<1>14. flight' \in Seq(Bytes) /\ Len(flight') = u + k
  BY <1>2, <1>12, <1>13
<1>15. Ring' = [i \in 1..u + k |-> data'[PipeSlot(nread, i)]]
  BY <1>4 DEF Ring, PipeSlot, RingSlot
<1>16. Ring' = flight'
  <2>1. ASSUME NEW i \in 1..u + k PROVE flight'[i] = data'[PipeSlot(nread, i)]
    <3>1. CASE i \in 1..u
      <4>1. flight'[i] = flight[i]
        <5> HIDE DEF new
        <5> QED BY <1>2, <1>12, <1>13, <3>1, ConcatElements
      <4> QED BY <1>9, <1>12, <3>1, <4>1
    <3>2. CASE i \notin 1..u
      <4>1. i - u \in 1..k /\ i = u + (i - u)
        BY <1>1, <3>2
      <4>2. flight'[i] = new[i - u]
        <5> HIDE DEF new
        <5>1. (flight \o new)[Len(flight) + (i - u)] = new[i - u]
          BY <1>12, <1>13, <4>1, ConcatElements
        <5> QED BY <1>2, <1>12, <4>1, <5>1
      <4>3. new[i - u] = byte(i - u)
        BY <4>1
      <4> QED BY <1>10, <4>1, <4>2, <4>3
    <3> QED BY <3>1, <3>2
  <2>2. flight' = [i \in 1..u + k |-> flight'[i]]
    BY <1>14
  <2> QED BY <1>15, <2>1, <2>2
<1> QED BY <1>4, <1>11, <1>14, <1>16 DEF u

\* Taking k bytes from the ring removes the oldest ones.
LEMMA TakeRemoves ==
  ASSUME PipeShape, Ring = flight,
         NEW k \in Nat, k <= Used,
         nread' = (nread + k) % Wrap, nwrite' = nwrite, data' = data,
         flight' = SubSeq(flight, k + 1, Len(flight))
  PROVE  /\ Used' = Used - k
         /\ nread' \in 0..Wrap-1
         /\ flight' \in Seq(Bytes)
         /\ Ring' = flight'
<1> DEFINE u == Used
<1>1. /\ u \in 0..Wrap-1 /\ nread \in 0..Wrap-1 /\ nwrite \in 0..Wrap-1
      /\ nread \in Nat /\ u \in Nat
      /\ Ring = [i \in 1..u |-> data[PipeSlot(nread, i)]]
  BY RingFacts, PipeSizes DEF PipeShape
<1>2. Used' = u - k /\ nread' \in 0..Wrap-1
  <2>1. (nwrite - nread) % Wrap = u
    BY DEF Used
  <2>2. k <= (nwrite - nread) % Wrap
    BY <2>1
  <2>3. /\ (nread + k) % Wrap \in 0..Wrap-1
        /\ (nwrite - ((nread + k) % Wrap)) % Wrap = ((nwrite - nread) % Wrap) - k
    <3>1. nread \in 0..Wrap-1 /\ nwrite \in 0..Wrap-1 /\ Wrap \in Nat \ {0}
      BY <1>1, PipeSizes
    <3> QED BY <2>2, <3>1, RingDistanceRead
  <2> QED BY <2>1, <2>3 DEF Used
<1>3. Ring' = [i \in 1..u - k |-> data[PipeSlot(nread', i)]]
  BY <1>2 DEF Ring, PipeSlot, RingSlot
<1>4. Len(flight) = u /\ flight \in Seq(Bytes) /\ \A i \in 1..u : flight[i] = data[PipeSlot(nread, i)]
  BY <1>1 DEF PipeShape
<1> HIDE DEF u
<1>5. /\ flight' \in Seq(Bytes) /\ Len(flight') = u - k
      /\ \A i \in 1..u - k : flight'[i] = flight[k + i]
  <2>1. k + 1 \in 1..u + 1 /\ k <= u
    BY <1>1 DEF u
  <2>2. flight' = SubSeq(flight, k + 1, u)
    BY <1>4
  <2> QED BY <1>1, <1>4, <2>1, <2>2
<1>6. \A i \in 1..u - k : PipeSlot(nread', i) = PipeSlot(nread, k + i)
  BY <1>1, PipeSlotShift
<1>7. \A i \in 1..u - k : flight'[i] = data[PipeSlot(nread', i)]
  <2> SUFFICES ASSUME NEW i \in 1..u - k PROVE flight'[i] = data[PipeSlot(nread', i)]
    OBVIOUS
  <2>1. k + i \in 1..u
    BY <1>1
  <2>2. flight'[i] = flight[k + i]
    BY <1>5
  <2>3. flight[k + i] = data[PipeSlot(nread, k + i)]
    BY <1>4, <2>1
  <2> QED BY <1>6, <2>2, <2>3
<1>8. flight' = [i \in 1..u - k |-> flight'[i]]
  BY <1>5
<1> QED BY <1>2, <1>3, <1>5, <1>7, <1>8 DEF u

-----------------------------------------------------------------------------
(* One lemma per action: the step preserves the invariant *)

\* An action that leaves ring and counters alone.
LEMMA RingUnchanged ==
  ASSUME UNCHANGED <<data, nread, nwrite>>
  PROVE  Ring' = Ring /\ Used' = Used /\ Full' = Full
  BY DEF Ring, Used, Full

\* A process that has tested and not slept yet holds p->lock.
LEMMA NobodyTests ==
  ASSUME PipeShape, LockFree
  PROVE  \A q \in Procs : pc[q] \notin {"rsleep", "wsleep"}
  BY DEF LockFree, Holds

LEMMA PipeInitInv == PipeInit => PipeInv
<1> SUFFICES ASSUME PipeInit PROVE PipeInv
  OBVIOUS
<1>1. Used = 0
  <2>1. 0 \in 0..Wrap-1 /\ 0 - 0 = 0
    BY PipeSizes
  <2>2. 0 % Wrap = 0
    BY <2>1, ModSmall, PipeSizes
  <2> QED BY <2>1, <2>2 DEF PipeInit, Used
<1>2. PipeShape
  <2>1. 0 \in 0..MaxCount /\ 0 \in 0..Wrap-1
    BY PipeAssumption, PipeSizes
  <2>2. data \in [0..PIPESIZE-1 -> Bytes \cup {Junk}] /\ flight \in Seq(Bytes)
    BY DEF PipeInit
  <2>3. /\ rfd = Procs /\ wfd = Procs /\ Procs # {}
        /\ readopen = TRUE /\ writeopen = TRUE /\ freed = FALSE /\ sawEof = FALSE
    BY PipeAssumption DEF PipeInit
  <2>4. /\ readopen = (rfd # {}) /\ writeopen = (wfd # {})
        /\ freed = (~readopen /\ ~writeopen) /\ sawEof \in BOOLEAN
    BY <2>3
  <2>5. /\ pc \in [Procs -> {"user", "read", "rsleep", "rasleep", "write", "wsleep", "wasleep"}]
        /\ todo \in [Procs -> 0..MaxCount]
        /\ nread \in 0..Wrap-1 /\ nwrite \in 0..Wrap-1
    BY <2>1 DEF PipeInit
  <2> QED BY <2>2, <2>3, <2>4, <2>5 DEF PipeShape
<1>3. Ring = flight
  <2>1. Ring = [i \in 1..0 |-> data[PipeSlot(nread, i)]]
    BY <1>1 DEF Ring, PipeSlot, RingSlot
  <2>2. [i \in 1..0 |-> data[PipeSlot(nread, i)]] = <<>>
    OBVIOUS
  <2> QED BY <2>1, <2>2 DEF PipeInit
<1>4. CallersHoldEnds /\ TestedUnderLock /\ NoLostWakeup
  BY DEF PipeInit, CallersHoldEnds, TestedUnderLock, NoLostWakeup
<1>5. Used <= PIPESIZE
  BY <1>1, PipeSizes
<1>6. Fifo
  BY <1>3 DEF PipeInit, Fifo
<1> QED BY <1>2, <1>4, <1>5, <1>6 DEF PipeInv

\* The system calls begin: only the caller moves.
LEMMA PipeCallInv ==
  ASSUME PipeInv, NEW p \in Procs, NEW n \in 1..MaxCount,
         sys_write(p, n) \/ sys_read(p, n)
  PROVE  PipeInv'
<1> USE DEF PipeInv
<1>1. Ring' = Ring /\ Used' = Used /\ Full' = Full
  BY RingUnchanged DEF sys_write, sys_read, pipe
<1>2. n \in 0..MaxCount /\ n > 0
  BY PipeAssumption
<1>3. PipeShape'
  BY <1>2 DEF PipeShape, sys_write, sys_read, pipe, pipeHist
<1>4. CallersHoldEnds'
  BY <1>2 DEF PipeShape, CallersHoldEnds, sys_write, sys_read, pipe
<1>5. TestedUnderLock' /\ NoLostWakeup'
  BY <1>1 DEF PipeShape, TestedUnderLock, NoLostWakeup, sys_write, sys_read, pipe
<1>6. Fifo'
  <2>1. ~freed
    BY DEF PipeShape, sys_write, sys_read
  <2> QED BY <1>1, <2>1 DEF Fifo, sys_write, sys_read, pipe, pipeHist
<1> QED BY <1>1, <1>3, <1>4, <1>5, <1>6

\* A pass of pipewrite() stores no more than there is room for.
LEMMA WriteStores ==
  ASSUME PipeInv, NEW p \in Procs, pipewrite(p)
  PROVE  \E k \in Nat :
           /\ k = least(todo[p], Room)
           /\ k <= PIPESIZE - Used /\ k <= todo[p] /\ todo[p] \in 1..MaxCount
           /\ Used = PIPESIZE => k = 0
           /\ k < todo[p] => Used + k = PIPESIZE
<1> USE DEF PipeInv
<1>1. todo[p] \in 1..MaxCount
  BY PipeAssumption DEF PipeShape, CallersHoldEnds, pipewrite
<1>2. Used \in 0..PIPESIZE /\ (Full <=> Used = PIPESIZE)
  BY RingFacts, PipeSizes
<1>3. Room = PIPESIZE - Used
  BY <1>2, PipeSizes DEF Room
<1> QED BY <1>1, <1>2, <1>3, PipeSizes, PipeAssumption DEF least

LEMMA WriteInv == ASSUME PipeInv, NEW p \in Procs, pipewrite(p) PROVE PipeInv'
<1> USE DEF PipeInv
<1>1. PICK k \in Nat :
           /\ k = least(todo[p], Room)
           /\ k <= PIPESIZE - Used /\ k <= todo[p] /\ todo[p] \in 1..MaxCount
           /\ Used = PIPESIZE => k = 0
           /\ k < todo[p] => Used + k = PIPESIZE
  BY WriteStores
<1>2. /\ pc[p] = "write" /\ LockFree
      /\ Store(p, k)
      /\ todo' = [todo EXCEPT ![p] = @ - k]
      /\ pc' = IF k = todo[p] THEN [Woken("rasleep", "read") EXCEPT ![p] = "user"]
               ELSE IF ~readopen \/ p \in killed THEN [pc EXCEPT ![p] = "user"]
               ELSE [Woken("rasleep", "read") EXCEPT ![p] = "wsleep"]
      /\ UNCHANGED <<nread, readopen, writeopen, freed, rfd, wfd, killed, budget, sawEof>>
  BY <1>1 DEF pipewrite
<1> HIDE DEF PipeInv
<1>3. /\ Used' = Used + k
      /\ nwrite' \in 0..Wrap-1
      /\ data' \in [0..PIPESIZE-1 -> Bytes \cup {Junk}]
      /\ flight' \in Seq(Bytes)
      /\ Ring' = flight'
  BY <1>1, <1>2, StoreAppends DEF PipeInv, Fifo
<1>4. PipeShape
  BY DEF PipeInv
<1>5. Used \in 0..PIPESIZE /\ Used' \in 0..PIPESIZE /\ (Full <=> Used = PIPESIZE)
  BY <1>1, <1>3, <1>4, RingFacts, PipeSizes DEF PipeInv
<1>6. p \in wfd /\ writeopen /\ ~freed
  BY <1>2, <1>4 DEF PipeInv, PipeShape, CallersHoldEnds
<1>7. todo' \in [Procs -> 0..MaxCount] /\ (k # todo[p] => todo'[p] > 0)
  <2>1. todo[p] - k \in 0..MaxCount /\ (k # todo[p] => todo[p] - k > 0)
    BY <1>1, PipeAssumption
  <2> QED BY <1>2, <1>4, <2>1 DEF PipeShape
<1>8. pc' \in [Procs -> {"user", "read", "rsleep", "rasleep", "write", "wsleep", "wasleep"}]
  BY <1>2, <1>4 DEF PipeShape, Woken
<1>9. PipeShape'
  BY <1>2, <1>3, <1>4, <1>7, <1>8 DEF PipeShape
<1>10. Full' <=> Used' = PIPESIZE
  <2>1. nread' \in 0..Wrap-1 /\ nwrite' \in 0..Wrap-1 /\ PIPESIZE \in 0..Wrap-1
    BY <1>9, PipeSizes DEF PipeShape
  <2>2. (nwrite' = (nread' + PIPESIZE) % Wrap) <=> ((nwrite' - nread') % Wrap = PIPESIZE)
    BY <2>1, PipeSizes, RingFullIff
  <2> QED BY <2>2 DEF Full, Used
<1>11. \A q \in Procs : pc[q] \notin {"rsleep", "wsleep"}
  BY <1>2, <1>4, NobodyTests
<1>12. \A q \in Procs \ {p} : pc'[q] = pc[q] \/ (pc[q] = "rasleep" /\ pc'[q] = "read")
  BY <1>2, <1>4 DEF PipeShape, Woken
<1>13. pc'[p] = "user" \/ (pc'[p] = "wsleep" /\ k # todo[p] /\ readopen)
  BY <1>2, <1>4 DEF PipeShape, Woken
<1>14. CallersHoldEnds'
  <2>1. \A q \in Procs \ {p} : todo'[q] = todo[q]
    BY <1>2, <1>4 DEF PipeShape
  <2> QED BY <1>2, <1>6, <1>7, <1>12, <1>13, <2>1 DEF PipeInv, CallersHoldEnds
<1>15. TestedUnderLock'
  <2>1. pc'[p] = "wsleep" => Full' /\ readopen'
    <3> HAVE pc'[p] = "wsleep"
    <3>1. k < todo[p] /\ readopen
      BY <1>1, <1>13
    <3> QED BY <1>1, <1>2, <1>3, <1>10, <3>1
  <2>2. \A q \in Procs \ {p} : pc'[q] \notin {"rsleep", "wsleep"}
    BY <1>11, <1>12
  <2>3. pc'[p] # "rsleep"
    BY <1>13
  <2> QED BY <2>1, <2>2, <2>3 DEF TestedUnderLock
<1>16. NoLostWakeup'
  <2> SUFFICES ASSUME NEW q \in Procs
               PROVE  /\ pc'[q] = "rasleep" => (Used' = 0 \/ killed' # {}) /\ writeopen'
                      /\ pc'[q] = "wasleep" => Full' /\ readopen'
    BY DEF NoLostWakeup
  <2>1. ASSUME pc'[q] = "rasleep" PROVE killed' # {} /\ writeopen'
    <3>1. q # p /\ pc[q] = "rasleep"
      BY <1>12, <1>13, <2>1
    \* Readers are not woken only by a writer that has been killed.
    <3>2. p \in killed
      <4> SUFFICES ASSUME p \notin killed PROVE FALSE
        OBVIOUS
      <4>1. CASE k = todo[p]
        BY <1>2, <1>4, <2>1, <3>1, <4>1 DEF PipeShape, Woken
      <4>2. CASE k # todo[p] /\ readopen
        BY <1>2, <1>4, <2>1, <3>1, <4>2 DEF PipeShape, Woken
      <4>3. CASE ~readopen
        <5>1. q \in rfd
          BY <3>1 DEF PipeInv, CallersHoldEnds
        <5> QED BY <1>4, <4>3, <5>1 DEF PipeShape
      <4> QED BY <4>1, <4>2, <4>3
    <3> QED BY <1>2, <1>6, <3>2
  <2>2. ASSUME pc'[q] = "wasleep" PROVE Full' /\ readopen'
    <3>1. pc[q] = "wasleep"
      BY <1>12, <1>13, <2>2
    <3>2. Full /\ readopen
      BY <3>1 DEF PipeInv, NoLostWakeup
    <3>3. Used' = PIPESIZE
      BY <1>1, <1>3, <1>5, <3>2
    <3> QED BY <1>2, <1>10, <3>2, <3>3
  <2> QED BY <2>1, <2>2
<1>17. Fifo'
  <2>1. ~sawEof
    BY <1>6 DEF PipeInv, Fifo
  <2> QED BY <1>2, <1>3, <1>6, <2>1 DEF Fifo
<1> QED BY <1>5, <1>9, <1>14, <1>15, <1>16, <1>17 DEF PipeInv

LEMMA ReadInv == ASSUME PipeInv, NEW p \in Procs, piperead(p) PROVE PipeInv'
<1>1. PipeShape /\ Fifo /\ Used <= PIPESIZE
  BY DEF PipeInv
<1>2. Used \in 0..PIPESIZE /\ (Full <=> Used = PIPESIZE)
  BY <1>1, RingFacts, PipeSizes
<1>3. \A q \in Procs : pc[q] \notin {"rsleep", "wsleep"}
  BY <1>1, NobodyTests DEF piperead
<1>4. p \in rfd /\ todo[p] \in 1..MaxCount /\ readopen /\ ~freed /\ pc[p] = "read"
  <2>1. pc[p] = "read"
    BY DEF piperead
  <2>2. p \in rfd /\ todo[p] > 0
    BY <2>1 DEF PipeInv, CallersHoldEnds
  <2>3. todo[p] \in 0..MaxCount /\ MaxCount \in Nat
    BY <1>1, PipeAssumption DEF PipeShape
  <2>4. todo[p] \in 1..MaxCount
    BY <2>2, <2>3
  <2>5. readopen /\ ~freed
    BY <1>1, <2>2 DEF PipeShape
  <2> QED BY <2>1, <2>2, <2>4, <2>5
<1>5. UNCHANGED <<data, nwrite, readopen, writeopen, freed, rfd, wfd, killed, budget>>
  BY DEF piperead
\* The reader finds bytes, or the end of the file.
<1>6. CASE MayReturn
  <2> DEFINE k == least(todo[p], Used)
  <2>1. /\ flight' = SubSeq(flight, k + 1, Len(flight))
        /\ nread' = (nread + k) % Wrap
        /\ sawEof' = (sawEof \/ k = 0)
        /\ pc' = [Woken("wasleep", "write") EXCEPT ![p] = "user"]
        /\ todo' = [todo EXCEPT ![p] = 0]
    BY <1>6 DEF piperead
  <2>2. k \in Nat /\ k <= Used /\ (k = 0 => Used = 0)
    BY <1>2, <1>4, PipeSizes, PipeAssumption DEF least
  <2> HIDE DEF k
  <2>3. /\ Used' = Used - k /\ nread' \in 0..Wrap-1
        /\ flight' \in Seq(Bytes) /\ Ring' = flight'
    BY <1>1, <1>5, <2>1, <2>2, TakeRemoves DEF Fifo
  <2>4. pc' \in [Procs -> {"user", "read", "rsleep", "rasleep", "write", "wsleep", "wasleep"}]
    BY <1>1, <2>1 DEF PipeShape, Woken
  <2>5. PipeShape'
    <3>1. todo' \in [Procs -> 0..MaxCount] /\ sawEof' \in BOOLEAN
      <4>1. 0 \in 0..MaxCount
        BY PipeAssumption
      <4> QED BY <1>1, <2>1, <4>1 DEF PipeShape
    <3> QED BY <1>1, <1>5, <2>3, <2>4, <3>1 DEF PipeShape
  <2>6. /\ pc'[p] = "user"
        /\ \A q \in Procs \ {p} :
             /\ todo'[q] = todo[q]
             /\ pc'[q] # "wasleep"
             /\ pc'[q] = pc[q] \/ (pc[q] = "wasleep" /\ pc'[q] = "write")
    BY <1>1, <2>1 DEF PipeShape, Woken
  <2>7. CallersHoldEnds'
    BY <1>5, <2>6 DEF PipeInv, CallersHoldEnds
  <2>8. TestedUnderLock'
    BY <1>3, <2>6 DEF TestedUnderLock
  <2>9. Used' <= PIPESIZE
    BY <1>2, <2>2, <2>3, PipeSizes
  <2>10. Fifo'
    <3>1. sawEof' => ~writeopen' /\ flight' = <<>>
      <4> HAVE sawEof'
      <4>1. Used = 0 /\ ~writeopen
        <5>1. CASE sawEof
          <6>1. Ring = <<>> /\ ~writeopen
            BY <1>1, <5>1 DEF Fifo
          <6>2. Len(Ring) = Used
            BY <1>2, PipeSizes DEF Ring
          <6> QED BY <6>1, <6>2
        <5>2. CASE k = 0
          BY <1>2, <1>6, <2>2, <5>2 DEF MayReturn
        <5> QED BY <2>1, <5>1, <5>2
      <4>2. Used' = 0
        BY <2>2, <2>3, <4>1
      <4>3. Ring' = [i \in 1..0 |-> data'[PipeSlot(nread', i)]]
        BY <4>2 DEF Ring, PipeSlot, RingSlot
      <4>4. Ring' = <<>>
        BY <4>3
      <4> QED BY <1>5, <2>3, <4>1, <4>4
    <3> QED BY <1>4, <1>5, <2>3, <3>1 DEF Fifo
  <2>11. NoLostWakeup'
    <3> SUFFICES ASSUME NEW q \in Procs
                 PROVE  /\ pc'[q] = "rasleep" => (Used' = 0 \/ killed' # {}) /\ writeopen'
                        /\ pc'[q] = "wasleep" => Full' /\ readopen'
      BY DEF NoLostWakeup
    <3>1. pc'[q] # "wasleep"
      BY <2>6
    <3>2. ASSUME pc'[q] = "rasleep" PROVE (Used' = 0 \/ killed' # {}) /\ writeopen'
      <4>1. pc[q] = "rasleep"
        BY <2>6, <3>2
      <4>2. (Used = 0 \/ killed # {}) /\ writeopen
        BY <4>1 DEF PipeInv, NoLostWakeup
      <4> QED BY <1>5, <2>2, <2>3, <4>2
    <3> QED BY <3>1, <3>2
  <2> QED BY <2>5, <2>7, <2>8, <2>9, <2>10, <2>11 DEF PipeInv
\* It finds none and goes to sleep, or gives up because it is killed.
<1>7. CASE ~MayReturn
  <2>1. /\ pc' = [pc EXCEPT ![p] = IF p \in killed THEN "user" ELSE "rsleep"]
        /\ UNCHANGED <<flight, nread, sawEof, todo>>
    BY <1>7 DEF piperead
  <2>2. Ring' = Ring /\ Used' = Used /\ (Full' <=> Full)
    BY <1>5, <2>1, RingUnchanged
  <2>3. Used = 0 /\ writeopen
    BY <1>2, <1>7, PipeSizes DEF MayReturn
  <2>4. /\ pc'[p] \in {"user", "rsleep"}
        /\ \A q \in Procs \ {p} : pc'[q] = pc[q]
    BY <1>1, <2>1 DEF PipeShape
  <2>5. PipeShape'
    BY <1>1, <1>5, <2>1 DEF PipeShape
  <2>6. CallersHoldEnds'
    BY <1>4, <1>5, <2>1, <2>4, PipeAssumption DEF PipeInv, CallersHoldEnds
  <2>7. TestedUnderLock'
    BY <1>3, <1>5, <2>2, <2>3, <2>4 DEF TestedUnderLock
  <2>8. Fifo'
    BY <1>1, <1>4, <1>5, <2>1, <2>2 DEF Fifo
  <2>9. NoLostWakeup'
    BY <1>5, <2>2, <2>4 DEF PipeInv, NoLostWakeup
  <2> QED BY <1>1, <2>2, <2>5, <2>6, <2>7, <2>8, <2>9 DEF PipeInv
<1> QED BY <1>6, <1>7

\* sleep() releases the lock: what the test found is what NoLostWakeup says.
LEMMA SleepInv == ASSUME PipeInv, NEW p \in Procs, sleep(p) PROVE PipeInv'
<1> USE DEF PipeInv
<1>1. Ring' = Ring /\ Used' = Used /\ (Full' <=> Full)
  BY RingUnchanged DEF sleep, pipe
<1>2. /\ \/ pc[p] = "rsleep" /\ pc'[p] = "rasleep"
         \/ pc[p] = "wsleep" /\ pc'[p] = "wasleep"
      /\ \A q \in Procs \ {p} : pc'[q] = pc[q]
      /\ UNCHANGED <<pipe, rfd, wfd, todo, killed, budget, pipeHist>>
  BY DEF sleep, Holds, PipeShape
<1>3. PipeShape'
  BY DEF sleep, PipeShape, pipe, pipeHist
<1>4. CallersHoldEnds'
  BY <1>2 DEF CallersHoldEnds
<1>5. TestedUnderLock' /\ NoLostWakeup'
  BY <1>1, <1>2 DEF TestedUnderLock, NoLostWakeup, pipe
<1>6. Fifo'
  <2>1. pc[p] # "user"
    BY <1>2
  <2> QED BY <1>1, <1>2, <2>1 DEF Fifo, pipe, pipeHist
<1> QED BY <1>1, <1>3, <1>4, <1>5, <1>6

\* kill() lets a sleeper go; p->killed is what excuses unread bytes.
LEMMA KillInv == ASSUME PipeInv, NEW p \in Procs, kill(p) PROVE PipeInv'
<1> USE DEF PipeInv
<1>1. Ring' = Ring /\ Used' = Used /\ (Full' <=> Full)
  BY RingUnchanged DEF kill, pipe
<1>2. /\ \/ pc'[p] = pc[p]
         \/ pc[p] = "rasleep" /\ pc'[p] = "read"
         \/ pc[p] = "wasleep" /\ pc'[p] = "write"
      /\ \A q \in Procs \ {p} : pc'[q] = pc[q]
      /\ UNCHANGED <<pipe, rfd, wfd, todo, budget, pipeHist>>
      /\ killed' = killed \cup {p}
  BY DEF kill, PipeShape
<1>3. PipeShape'
  BY DEF kill, PipeShape, pipe, pipeHist
<1>4. CallersHoldEnds'
  BY <1>2 DEF CallersHoldEnds
<1>5. TestedUnderLock' /\ NoLostWakeup'
  BY <1>1, <1>2 DEF TestedUnderLock, NoLostWakeup, pipe
<1>6. Fifo'
  BY <1>1, <1>2 DEF Fifo, pipe, pipeHist
<1> QED BY <1>1, <1>3, <1>4, <1>5, <1>6

LEMMA CloseWriteInv == ASSUME PipeInv, NEW p \in Procs, close_write(p) PROVE PipeInv'
<1> USE DEF PipeInv
<1>1. Ring' = Ring /\ Used' = Used /\ (Full' <=> Full)
  BY RingUnchanged DEF close_write
<1>2. /\ pc[p] = "user" /\ wfd' = wfd \ {p}
      /\ UNCHANGED <<data, nread, nwrite, readopen, rfd, todo, killed, budget, flight, sawEof>>
      /\ writeopen /\ writeopen' = (wfd' # {}) /\ freed' = (~readopen /\ ~writeopen')
  BY DEF close_write, PipeShape, pipeHist
<1>3. PipeShape'
  <2>1. pc' \in [Procs -> {"user", "read", "rsleep", "rasleep", "write", "wsleep", "wasleep"}]
    BY DEF close_write, PipeShape, Woken
  <2> QED BY <1>2, <2>1 DEF PipeShape
\* The sleeping readers are woken when no writer is left.
<1>4. \A q \in Procs :
        \/ pc'[q] = pc[q] /\ (pc[q] = "rasleep" => wfd' # {})
        \/ pc[q] = "rasleep" /\ pc'[q] = "read"
  BY DEF close_write, PipeShape, Woken
<1>5. CallersHoldEnds'
  BY <1>2, <1>4 DEF CallersHoldEnds
\* Nobody is between a test and a sleep when the last descriptor goes.
<1>6. wfd' = {} => \A q \in Procs : pc[q] \notin {"rsleep", "wsleep"}
  <2>1. wfd' = {} => wfd = {p}
    BY DEF close_write, PipeShape
  <2> QED BY <2>1, NobodyTests DEF close_write
<1>7. TestedUnderLock'
  BY <1>1, <1>2, <1>4, <1>6 DEF TestedUnderLock
<1>8. NoLostWakeup'
  BY <1>1, <1>2, <1>4 DEF NoLostWakeup
<1>9. Fifo'
  <2>1. freed' => rfd = {} /\ wfd' = {}
    BY <1>2 DEF PipeShape
  <2>2. freed' => \A q \in Procs : pc'[q] = "user"
    BY <1>3, <1>5, <1>2, <2>1 DEF PipeShape, CallersHoldEnds
  <2>3. ~sawEof
    BY <1>2 DEF Fifo
  <2> QED BY <1>1, <1>2, <2>2, <2>3 DEF Fifo
<1> QED BY <1>1, <1>3, <1>5, <1>7, <1>8, <1>9

LEMMA CloseReadInv == ASSUME PipeInv, NEW p \in Procs, close_read(p) PROVE PipeInv'
<1> USE DEF PipeInv
<1>1. Ring' = Ring /\ Used' = Used /\ (Full' <=> Full)
  BY RingUnchanged DEF close_read
<1>2. /\ pc[p] = "user" /\ rfd' = rfd \ {p}
      /\ UNCHANGED <<data, nread, nwrite, writeopen, wfd, todo, killed, budget, flight, sawEof>>
      /\ readopen' = (rfd' # {}) /\ freed' = (~readopen' /\ ~writeopen)
  BY DEF close_read, PipeShape, pipeHist
<1>3. PipeShape'
  <2>1. pc' \in [Procs -> {"user", "read", "rsleep", "rasleep", "write", "wsleep", "wasleep"}]
    BY DEF close_read, PipeShape, Woken
  <2> QED BY <1>2, <2>1 DEF PipeShape
\* The sleeping writers are woken when no reader is left.
<1>4. \A q \in Procs :
        \/ pc'[q] = pc[q] /\ (pc[q] = "wasleep" => rfd' # {})
        \/ pc[q] = "wasleep" /\ pc'[q] = "write"
  BY DEF close_read, PipeShape, Woken
<1>5. CallersHoldEnds'
  BY <1>2, <1>4 DEF CallersHoldEnds
<1>6. rfd' = {} => \A q \in Procs : pc[q] \notin {"rsleep", "wsleep"}
  <2>1. rfd' = {} => rfd = {p}
    BY DEF close_read, PipeShape
  <2> QED BY <2>1, NobodyTests DEF close_read
<1>7. TestedUnderLock'
  BY <1>1, <1>2, <1>4, <1>6 DEF TestedUnderLock
<1>8. NoLostWakeup'
  BY <1>1, <1>2, <1>4 DEF NoLostWakeup
<1>9. Fifo'
  <2>1. freed' => rfd' = {} /\ wfd = {}
    BY <1>2 DEF PipeShape
  <2>2. freed' => \A q \in Procs : pc'[q] = "user"
    BY <1>3, <1>5, <1>2, <2>1 DEF PipeShape, CallersHoldEnds
  <2> QED BY <1>1, <1>2, <2>2 DEF Fifo
<1> QED BY <1>1, <1>3, <1>5, <1>7, <1>8, <1>9

LEMMA PipeStep == PipeInv /\ [PipeNext]_pipeVars => PipeInv'
<1> SUFFICES ASSUME PipeInv, [PipeNext]_pipeVars PROVE PipeInv'
  OBVIOUS
<1>1. CASE PipeNext
  <2> PICK p \in Procs :
         \/ \E n \in 1..MaxCount : sys_write(p, n)
         \/ \E n \in 1..MaxCount : sys_read(p, n)
         \/ pipewrite(p) \/ piperead(p) \/ sleep(p)
         \/ close_write(p) \/ close_read(p) \/ kill(p)
    BY <1>1 DEF PipeNext
  <2>1. CASE \E n \in 1..MaxCount : sys_write(p, n)
    BY <2>1, PipeCallInv
  <2>2. CASE \E n \in 1..MaxCount : sys_read(p, n)
    BY <2>2, PipeCallInv
  <2>3. CASE pipewrite(p)
    BY <2>3, WriteInv
  <2>4. CASE piperead(p)
    BY <2>4, ReadInv
  <2>5. CASE sleep(p)
    BY <2>5, SleepInv
  <2>6. CASE close_write(p)
    BY <2>6, CloseWriteInv
  <2>7. CASE close_read(p)
    BY <2>7, CloseReadInv
  <2>8. CASE kill(p)
    BY <2>8, KillInv
  <2> QED BY <2>1, <2>2, <2>3, <2>4, <2>5, <2>6, <2>7, <2>8
<1>2. CASE UNCHANGED pipeVars
  <2> USE <1>2 DEF pipeVars, pipe, pipeHist, PipeInv
  <2>1. Ring' = Ring /\ Used' = Used /\ (Full' <=> Full)
    BY RingUnchanged
  <2>2. PipeShape' /\ CallersHoldEnds'
    BY DEF PipeShape, CallersHoldEnds
  <2>3. TestedUnderLock' /\ Fifo' /\ NoLostWakeup'
    BY <2>1 DEF TestedUnderLock, Fifo, NoLostWakeup
  <2> QED BY <2>1, <2>2, <2>3
<1> QED BY <1>1, <1>2

-----------------------------------------------------------------------------
(* The theorems *)

\* Counters, ring, descriptors, sleepers and the bytes on their way agree
\* after every step of pipe.c, however large the ring and however often the
\* counters have wrapped.
THEOREM PipeInvariant == PipeSpec => []PipeInv
<1>1. PipeInit => PipeInv
  BY PipeInitInv
<1>2. PipeInv /\ [PipeNext]_pipeVars => PipeInv'
  BY PipeStep
<1> QED BY <1>1, <1>2, PTL DEF PipeSpec

\* piperead() takes exactly the bytes pipewrite() has stored, in order; a read
\* returns 0 only at the end of the file; pipeclose() frees a pipe nobody is in.
THEOREM PipeFifo == PipeSpec => []Fifo
<1>1. PipeInv => Fifo
  BY DEF PipeInv
<1> QED BY <1>1, PipeInvariant, PTL

\* Nobody sleeps in pipe.c with what it waits for there already, and no reader
\* or writer sleeps once the other end is closed.
THEOREM PipeNoLostWakeup == PipeSpec => []NoLostWakeup
<1>1. PipeInv => NoLostWakeup
  BY DEF PipeInv
<1> QED BY <1>1, PipeInvariant, PTL

-----------------------------------------------------------------------------
(* The ring *)

LEMMA Sizes ==
  /\ INPUT_BUF \in Nat \ {0} /\ UintSize \in Nat \ {0} /\ INPUT_BUF < UintSize
  /\ RingOf(UintSize, INPUT_BUF)
<1> DEFINE k == UintSize \div INPUT_BUF
<1>1. INPUT_BUF \in Nat \ {0} /\ UintSize \in Nat \ {0} /\ INPUT_BUF < UintSize
  BY ConsoleAssumption
<1>2. k \in Int /\ UintSize = INPUT_BUF * k
  BY <1>1, ConsoleAssumption, DivMod
<1> HIDE DEF k
<1>3. k \in Nat \ {0} /\ UintSize = k * INPUT_BUF
  <2>1. ~ k <= -1 /\ k # 0
    BY <1>1, <1>2, Multiple
  <2> QED BY <1>1, <1>2, <2>1
<1> QED BY <1>1, <1>3 DEF RingOf

\* The slot of the i-th character after index r.
Slot(r, i) == RingSlot(r, i, UintSize, INPUT_BUF)

\* n characters after index r.
Cells(buf, r, n) == [i \in 1 .. n |-> buf[Slot(r, i)]]

\* Characters committed, and characters of the line that is edited.
Committed == (input.w - input.r) % UintSize
Edited == (input.e - input.w) % UintSize

LEMMA InputRingIsCells ==
  ASSUME NEW r, NEW w
  PROVE  InputRing(r, w) = Cells(input.buf, r, (w - r) % UintSize)
  BY DEF InputRing, Cells, Slot, RingSlot

\* Indices, lengths and characters, read off the invariant.
LEMMA InputFacts ==
  ASSUME ConsoleInv
  PROVE  /\ input.r \in 0 .. UintSize - 1 /\ input.w \in 0 .. UintSize - 1
         /\ input.e \in 0 .. UintSize - 1
         /\ input.r \in Nat /\ input.w \in Nat /\ input.e \in Nat
         /\ Committed \in Nat /\ Edited \in Nat /\ InputUsed = Committed + Edited
         /\ Committed + Edited <= INPUT_BUF
         /\ Committed + Edited = INPUT_BUF => Edited = 0
         /\ input.w = (input.r + Committed) % UintSize
         /\ input.e = (input.w + Edited) % UintSize
         /\ input.e = (input.r + (Committed + Edited)) % UintSize
         /\ lines = Cells(input.buf, input.r, Committed) /\ Len(lines) = Committed
         /\ line = Cells(input.buf, input.w, Edited) /\ Len(line) = Edited
<1>1. /\ input.r \in 0 .. UintSize - 1 /\ input.w \in 0 .. UintSize - 1
      /\ input.e \in 0 .. UintSize - 1
      /\ input.r \in Nat /\ input.w \in Nat /\ input.e \in Nat
  BY Sizes DEF ConsoleInv, ConsoleShape
<1>2. /\ Committed \in 0 .. UintSize - 1 /\ Edited \in 0 .. UintSize - 1
      /\ input.w = (input.r + Committed) % UintSize
      /\ input.e = (input.w + Edited) % UintSize
  BY <1>1, Sizes, RingDistance DEF Committed, Edited
<1>3. /\ InputUsed = Committed + Edited /\ InputUsed <= INPUT_BUF
      /\ input.e = (input.r + InputUsed) % UintSize
  BY <1>1, Sizes, RingDistance DEF ConsoleInv, IndicesOrdered, Committed, Edited, InputUsed
<1>4. InputUsed = INPUT_BUF => Edited = 0
  <2>1. input.e = input.w => input.e - input.w = 0
    BY <1>1
  <2>2. 0 % UintSize = 0
    BY Sizes, ModSmall
  <2> QED BY <2>1, <2>2 DEF ConsoleInv, IndicesOrdered, Edited
<1>5. /\ lines = Cells(input.buf, input.r, Committed)
      /\ line = Cells(input.buf, input.w, Edited)
  BY InputRingIsCells DEF ConsoleInv, ConsoleLines, Committed, Edited
<1>6. Len(lines) = Committed /\ Len(line) = Edited
  BY <1>2, <1>5, Sizes DEF Cells
<1> QED BY <1>1, <1>2, <1>3, <1>4, <1>5, <1>6, Sizes

LEMMA SlotShift ==
  ASSUME NEW r \in Nat, NEW i \in Nat, NEW k \in Nat
  PROVE  Slot((r + k) % UintSize, i) = Slot(r, k + i)
  BY Sizes, RingSlotShift DEF Slot

\* The characters of the line lie behind the committed ones.
LEMMA LineBehind ==
  ASSUME ConsoleInv
  PROVE  /\ \A i \in 1 .. Committed : lines[i] = input.buf[Slot(input.r, i)]
         /\ \A i \in 1 .. Edited :
              /\ line[i] = input.buf[Slot(input.w, i)]
              /\ Slot(input.w, i) = Slot(input.r, Committed + i)
<1>1. \A i \in 1 .. Edited : Slot(input.w, i) = Slot(input.r, Committed + i)
  <2> TAKE i \in 1 .. Edited
  <2>1. /\ i \in Nat /\ Committed \in Nat /\ input.r \in Nat
        /\ input.w = (input.r + Committed) % UintSize
    BY InputFacts
  <2> HIDE DEF Committed
  <2> QED BY <2>1, SlotShift
<1> QED BY <1>1, InputFacts DEF Cells

-----------------------------------------------------------------------------
(* The text screen *)

\* A character moves the cursor within the screen and scrolling brings it
\* back above the last row.
LEMMA CursorMoves ==
  ASSUME CursorOnScreen, NEW c
  PROVE  cgaputc(crt, c) \in 0 .. CrtCols * (CrtRows - 1) - 1
<1> DEFINE last == CrtCols * (CrtRows - 1)
<1>1. CrtCols \in Nat \ {0} /\ CrtRows \in Nat /\ CrtRows > 1
  BY ConsoleAssumption
<1>2. last \in Nat \ {0}
  BY <1>1
<1>3. crt \in 0 .. last - 1
  BY DEF CursorOnScreen
<1>4. ASSUME NEW pos \in 0 .. last PROVE Scrolled(pos) \in 0 .. last - 1
  <2> DEFINE q == pos \div CrtCols
             m == pos % CrtCols
  <2>1. q \in Int /\ m \in 0 .. CrtCols - 1 /\ pos = CrtCols * q + m
    BY <1>1, <1>2, DivMod
  <2> HIDE DEF q, m
  <2>2. CASE q >= CrtRows - 1
    <3>1. CrtCols * q >= last
      BY <1>1, <2>1, <2>2
    <3>2. pos = last
      BY <1>1, <1>2, <2>1, <3>1
    <3>3. last - CrtCols = CrtCols * (CrtRows - 2) /\ CrtCols * (CrtRows - 2) >= 0
      BY <1>1
    <3>4. Scrolled(pos) = pos - CrtCols
      BY <2>2 DEF Scrolled, q
    <3> HIDE DEF last
    <3> QED BY <1>1, <1>2, <3>2, <3>3, <3>4
  <2>3. CASE ~(q >= CrtRows - 1)
    <3>1. Scrolled(pos) = pos
      BY <2>3 DEF Scrolled, q
    <3>2. pos # last
      <4> SUFFICES ASSUME pos = last PROVE FALSE
        OBVIOUS
      <4>1. CrtCols * (CrtRows - 1 - q) = m
        BY <1>1, <2>1
      <4>2. CrtRows - 1 - q \in Int /\ CrtRows - 1 - q >= 1
        BY <1>1, <2>1, <2>3
      <4> QED BY <1>1, <2>1, <4>1, <4>2, Multiple
    <3> HIDE DEF last
    <3> QED BY <1>2, <3>1, <3>2
  <2> QED BY <2>2, <2>3
<1>5. CASE c = Newline
  <2> DEFINE q == crt \div CrtCols
             m == crt % CrtCols
             pos == crt + CrtCols - m
  <2>1. q \in Int /\ m \in 0 .. CrtCols - 1 /\ crt = CrtCols * q + m
    BY <1>1, <1>2, <1>3, DivMod
  <2>2. pos \in 0 .. last
    <3> HIDE DEF q, m
    <3>1. pos = CrtCols * (q + 1)
      BY <1>1, <2>1
    <3>2. q + 1 <= CrtRows - 1
      <4> SUFFICES ASSUME q >= CrtRows - 1 PROVE FALSE
        BY <1>1, <2>1
      <4>1. CrtCols * q >= last
        BY <1>1, <2>1
      <4> HIDE DEF last
      <4> QED BY <1>1, <1>2, <1>3, <2>1, <4>1
    <3>3. CrtCols * (q + 1) <= last
      BY <1>1, <2>1, <3>2
    <3>4. pos >= 0 /\ pos \in Int
      BY <1>1, <1>2, <1>3, <2>1
    <3> HIDE DEF last, pos
    <3> QED BY <1>2, <3>1, <3>3, <3>4
  <2>3. cgaputc(crt, c) = Scrolled(pos)
    BY <1>5 DEF cgaputc, Newline, Backspace
  <2> HIDE DEF pos
  <2> QED BY <1>4, <2>2, <2>3
<1>6. CASE c = Backspace
  <2>1. cgaputc(crt, c) = IF crt > 0 THEN crt - 1 ELSE crt
    BY <1>6 DEF cgaputc, Newline, Backspace
  <2> HIDE DEF last
  <2> QED BY <1>2, <1>3, <2>1 DEF last
<1>7. CASE c # Newline /\ c # Backspace
  <2>1. cgaputc(crt, c) = Scrolled(crt + 1)
    BY <1>7 DEF cgaputc
  <2> HIDE DEF last
  <2>2. crt + 1 \in 0 .. last
    BY <1>2, <1>3
  <2>3. Scrolled(crt + 1) \in 0 .. last - 1
    BY <1>4, <2>2
  <2> QED BY <2>1, <2>3 DEF last
<1> QED BY <1>5, <1>6, <1>7

LEMMA CursorErases ==
  ASSUME CursorOnScreen, NEW k \in Nat
  PROVE  Erased(crt, k) \in 0 .. CrtCols * (CrtRows - 1) - 1
<1> DEFINE last == CrtCols * (CrtRows - 1)
<1>1. last \in Nat \ {0}
  BY ConsoleAssumption
<1>2. crt \in 0 .. last - 1
  BY DEF CursorOnScreen
<1> HIDE DEF last
<1> QED BY <1>1, <1>2 DEF Erased, last

-----------------------------------------------------------------------------
(* One lemma per action: the step preserves the invariant *)

\* What the next state must show of the ring.
LEMMA LinesNext ==
  ASSUME Cells(input'.buf, input'.r, (input'.w - input'.r) % UintSize) = lines',
         Cells(input'.buf, input'.w, (input'.e - input'.w) % UintSize) = line',
         \A p \in Readers : reader'[p].pc = "asleep" => lines' = <<>>
  PROVE  ConsoleLines'
  BY DEF ConsoleLines, InputRing, Cells, Slot, RingSlot

\* A ring with the indices of the next state.
LEMMA OrderNext ==
  ASSUME NEW c \in Nat, NEW l \in Nat,
         input'.w \in 0 .. UintSize - 1, input'.e \in 0 .. UintSize - 1,
         (input'.w - input'.r) % UintSize = c,
         (input'.e - input'.w) % UintSize = l,
         (input'.e - input'.r) % UintSize = c + l,
         c + l <= INPUT_BUF, c + l = INPUT_BUF => l = 0
  PROVE  IndicesOrdered'
<1>1. l = 0 => input'.w = input'.e
  <2>1. input'.e = (input'.w + l) % UintSize
    BY Sizes, RingDistance
  <2>2. l = 0 => input'.w + l = input'.w
    BY Sizes
  <2>3. input'.w % UintSize = input'.w
    BY Sizes, ModSmall
  <2> QED BY <2>1, <2>2, <2>3
<1> QED BY <1>1 DEF IndicesOrdered, InputUsed

\* Nothing between an index and itself.
LEMMA NoDistance ==
  ASSUME NEW x \in 0 .. UintSize - 1
  PROVE  (x - x) % UintSize = 0
<1>1. x - x = 0 /\ 0 \in 0 .. UintSize - 1
  BY Sizes
<1> QED BY <1>1, Sizes, ModSmall

\* input.e-- counts modulo UintSize.
LEMMA DecIsMinus ==
  ASSUME NEW x \in 0 .. UintSize - 1
  PROVE  Dec(x) = (x - 1) % UintSize
<1> DEFINE a == x - 1
<1>1. a \in Int /\ 1 \in Int /\ x + UintSize - 1 = a + UintSize * 1
  BY Sizes
<1> HIDE DEF a
<1>2. (a + UintSize * 1) % UintSize = a % UintSize
  BY <1>1, Sizes, ModAddMultiple
<1> QED BY <1>1, <1>2 DEF Dec, a

\* The end of the line is taken back by k characters.
LEMMA LineShortened ==
  ASSUME ConsoleInv, NEW k \in Nat, k <= Edited,
         input' = [input EXCEPT !.e = (@ - k) % UintSize],
         line' = SubSeq(line, 1, Len(line) - k),
         crt' \in 0 .. CrtCols * (CrtRows - 1) - 1,
         UNCHANGED <<reader, lines>>
  PROVE  ConsoleInv'
<1> DEFINE c == Committed
           l == Edited
           e == (input.e - k) % UintSize
<1>1. /\ input'.buf = input.buf /\ input'.r = input.r /\ input'.w = input.w /\ input'.e = e
      /\ input' \in [buf : [0 .. INPUT_BUF - 1 -> Typed \cup {"nul"}], r : 0 .. UintSize - 1,
                      w : 0 .. UintSize - 1, e : {e}]
  BY DEF ConsoleInv, ConsoleShape
<1>2. e \in 0 .. UintSize - 1 /\ (e - input.w) % UintSize = l - k
  BY InputFacts, Sizes, RingDistanceBack DEF Edited
<1>3. (e - input.r) % UintSize = c + (l - k)
  <2>1. /\ (input.e - input.r) % UintSize = c + l /\ k <= (input.e - input.r) % UintSize
        /\ input.r \in 0 .. UintSize - 1 /\ input.e \in 0 .. UintSize - 1
        /\ c \in Nat /\ l \in Nat
    BY InputFacts DEF InputUsed
  <2> HIDE DEF c, l
  <2>2. (e - input.r) % UintSize = ((input.e - input.r) % UintSize) - k
    BY <2>1, Sizes, RingDistanceBack
  <2> QED BY <2>1, <2>2
<1>4. /\ c \in Nat /\ l \in Nat /\ l - k \in Nat /\ c + l <= INPUT_BUF /\ (c + l = INPUT_BUF => l = 0)
      /\ (input.w - input.r) % UintSize = c
  BY InputFacts DEF Committed
<1> HIDE DEF c, l, e
<1>5. IndicesOrdered'
  <2>1. c + (l - k) <= INPUT_BUF /\ (c + (l - k) = INPUT_BUF => l - k = 0)
    BY <1>4, Sizes
  <2>2. input'.w \in 0 .. UintSize - 1
    BY <1>1
  <2> QED BY <1>1, <1>2, <1>3, <1>4, <2>1, <2>2, OrderNext
<1>6. /\ line' \in Seq(Typed \ {Newline, EOT}) /\ Len(line') = l - k
      /\ \A i \in 1 .. l - k : line'[i] = line[i]
  <2>1. line \in Seq(Typed \ {Newline, EOT}) /\ Len(line) = l
    BY InputFacts DEF ConsoleInv, ConsoleShape, l
  <2>2. line' = SubSeq(line, 1, l - k)
    BY <2>1
  <2> QED BY <1>4, <2>1, <2>2
<1>7. Cells(input.buf, input.w, l - k) = line'
  <2>1. \A i \in 1 .. l - k : line'[i] = input.buf[Slot(input.w, i)]
    <3> TAKE i \in 1 .. l - k
    <3>1. i \in 1 .. l
      BY <1>4
    <3> QED BY <1>6, <3>1, LineBehind DEF l
  <2>2. line' = [i \in 1 .. l - k |-> line'[i]]
    BY <1>6
  <2> QED BY <2>1, <2>2 DEF Cells
<1>8. ConsoleShape'
  BY <1>1, <1>2, <1>6 DEF ConsoleInv, ConsoleShape
<1>9. ConsoleLines'
  <2>1. Cells(input.buf, input.r, c) = lines
    BY InputFacts DEF c
  <2>2. \A p \in Readers : reader'[p].pc = "asleep" => lines' = <<>>
    BY DEF ConsoleInv, ConsoleLines
  <2> QED BY <1>1, <1>2, <1>4, <1>7, <2>1, <2>2, LinesNext
<1> QED BY <1>5, <1>8, <1>9 DEF ConsoleInv, CallsWantBytes, CursorOnScreen

\* Ctrl-U stops where the line begins: a line holds no newline.
LEMMA KilledToIsEdited == ASSUME ConsoleInv PROVE KilledTo = Edited
<1> DEFINE l == Edited
           stops == {i \in 0 .. l : i = l \/
                       input.buf[((input.e - i - 1) % UintSize) % INPUT_BUF] = Newline}
<1>1. KilledTo = CHOOSE i \in stops : \A j \in stops : i <= j
  BY DEF KilledTo, Edited
<1>2. /\ l \in Nat /\ input.e = (input.w + l) % UintSize /\ input.w \in Nat
      /\ Len(line) = l
  BY InputFacts
<1>3. ASSUME NEW i \in 0 .. l, i # l
      PROVE  input.buf[((input.e - i - 1) % UintSize) % INPUT_BUF] # Newline
  <2> HIDE DEF l
  <2>1. l - i \in 1 .. l /\ input.w + l \in Int /\ i + 1 \in Int
    BY <1>2, <1>3
  <2>2. (input.e - (i + 1)) % UintSize = ((input.w + l) - (i + 1)) % UintSize
    BY <1>2, <2>1, Sizes, ModPlus
  <2>3. /\ (input.w + l) - (i + 1) = input.w + (l - i) - 1
        /\ input.e - i - 1 = input.e - (i + 1)
    <3>1. input.w \in Int /\ input.e \in Int /\ l \in Int /\ i \in Int
      BY <1>2, InputFacts
    <3> QED BY <3>1
  <2>4. ((input.e - i - 1) % UintSize) % INPUT_BUF = Slot(input.w, l - i)
    BY <2>2, <2>3 DEF Slot, RingSlot
  <2>5. line[l - i] = input.buf[Slot(input.w, l - i)]
    BY <2>1, LineBehind DEF l
  <2>6. line[l - i] \in Typed \ {Newline, EOT}
    BY <1>2, <2>1 DEF ConsoleInv, ConsoleShape
  <2> QED BY <2>4, <2>5, <2>6
<1>4. stops = {l}
  BY <1>2, <1>3
<1> QED BY <1>1, <1>2, <1>4

LEMMA KillLineInv == ASSUME ConsoleInv, kill_line PROVE ConsoleInv'
<1>1. KilledTo = Edited /\ Edited \in Nat /\ Len(line) = Edited
  BY KilledToIsEdited, InputFacts
<1>2. SubSeq(line, 1, Len(line) - Edited) = <<>>
  <2>1. Len(line) - Edited = 0
    BY <1>1
  <2> QED BY <2>1 DEF ConsoleInv, ConsoleShape
<1>3. crt' \in 0 .. CrtCols * (CrtRows - 1) - 1
  BY <1>1, CursorErases DEF kill_line, ConsoleInv
<1> QED BY <1>1, <1>2, <1>3, LineShortened DEF kill_line

LEMMA BackspaceInv == ASSUME ConsoleInv, backspace PROVE ConsoleInv'
<1>1. CASE input.e # input.w
  <2>1. Edited >= 1
    <3>1. Edited = 0 => input.e = input.w
      <4>1. input.w + 0 = input.w /\ input.w % UintSize = input.w
        <5>1. input.w \in 0 .. UintSize - 1
          BY InputFacts
        <5> QED BY <5>1, Sizes, ModSmall
      <4> QED BY <4>1, InputFacts
    <3> QED BY <1>1, <3>1, InputFacts
  <2>2. input' = [input EXCEPT !.e = (@ - 1) % UintSize]
    BY <1>1, InputFacts, DecIsMinus DEF backspace
  <2>3. crt' \in 0 .. CrtCols * (CrtRows - 1) - 1
    BY <1>1, CursorMoves DEF backspace, ConsoleInv
  <2>4. line' = SubSeq(line, 1, Len(line) - 1) /\ UNCHANGED <<reader, lines>>
    BY <1>1 DEF backspace
  <2> QED BY <2>1, <2>2, <2>3, <2>4, LineShortened
<1>2. CASE input.e = input.w
  <2>1. UNCHANGED <<input, crt, reader, line, lines>>
    BY <1>2 DEF backspace
  <2> QED BY <2>1 DEF ConsoleInv, ConsoleShape, IndicesOrdered, InputUsed, CallsWantBytes,
                     CursorOnScreen, ConsoleLines, InputRing
<1> QED BY <1>1, <1>2

\* The slot of a character is none of those before it.
LEMMA OtherSlots ==
  ASSUME NEW r \in Nat, NEW m \in 1 .. INPUT_BUF
  PROVE  /\ Slot(r, m) \in 0 .. INPUT_BUF - 1
         /\ \A i \in 1 .. INPUT_BUF : i # m => Slot(r, i) # Slot(r, m)
<1>1. m \in Nat
  BY Sizes
<1>2. Slot(r, m) \in 0 .. INPUT_BUF - 1
  BY <1>1, Sizes, RingSlotRange DEF Slot
<1> QED BY <1>2, Sizes, RingSlotInjective DEF Slot

LEMMA StoreInv == ASSUME ConsoleInv, NEW ch \in Typed, store_char(ch) PROVE ConsoleInv'
<1> DEFINE c == Committed
           l == Edited
           u == c + l
           e == Inc(input.e)
           full == e = (input.r + INPUT_BUF) % UintSize
           done == ch \in {Newline, EOT} \/ full
<1>1. CASE InputUsed < INPUT_BUF
  <2>1. /\ input' = [input EXCEPT !.buf[input.e % INPUT_BUF] = ch, !.e = e,
                                  !.w = IF done THEN e ELSE @]
        /\ crt' = cgaputc(crt, ch)
        /\ reader' = IF done THEN WakeReaders ELSE reader
        /\ line' = IF ch \in {Newline, EOT} \/ Len(lines) + Len(line) + 1 = INPUT_BUF
                   THEN <<>> ELSE Append(line, ch)
        /\ lines' = IF ch \in {Newline, EOT} \/ Len(lines) + Len(line) + 1 = INPUT_BUF
                    THEN lines \o Append(line, ch) ELSE lines
    BY <1>1 DEF store_char
  <2>2. /\ input.r \in 0 .. UintSize - 1 /\ input.w \in 0 .. UintSize - 1 /\ input.e \in 0 .. UintSize - 1
        /\ input.r \in Nat /\ input.w \in Nat /\ input.e \in Nat
        /\ c \in Nat /\ l \in Nat /\ u < INPUT_BUF /\ u \in Nat
        /\ (input.w - input.r) % UintSize = c /\ (input.e - input.w) % UintSize = l
        /\ (input.e - input.r) % UintSize = u
        /\ Len(lines) = c /\ Len(line) = l
    <3>1. InputUsed = u
      BY InputFacts
    <3> QED BY <1>1, <3>1, InputFacts DEF Committed, Edited, InputUsed
  <2>3. input.e = (input.r + u) % UintSize
    BY InputFacts
  <2>4. /\ \A i \in 1 .. c : lines[i] = input.buf[Slot(input.r, i)]
        /\ \A i \in 1 .. l : line[i] = input.buf[Slot(input.r, c + i)]
        /\ \A i \in 1 .. l : Slot(input.w, i) = Slot(input.r, c + i)
        /\ input.w = (input.r + c) % UintSize
    BY LineBehind, InputFacts
  <2> HIDE DEF c, l
  <2>5. /\ e \in 0 .. UintSize - 1
        /\ (e - input.w) % UintSize = l + 1
        /\ (e - input.r) % UintSize = u + 1
    <3>1. ((input.e - input.w) % UintSize) + 1 < UintSize
      BY <2>2, Sizes
    <3>2. ((input.e - input.r) % UintSize) + 1 < UintSize
      BY <2>2, Sizes
    <3>3. /\ input.r \in 0 .. UintSize - 1 /\ input.w \in 0 .. UintSize - 1
          /\ input.e \in 0 .. UintSize - 1 /\ 1 \in Nat /\ UintSize \in Nat \ {0}
      BY <2>2, Sizes
    <3>4. /\ (input.e + 1) % UintSize \in 0 .. UintSize - 1
          /\ (((input.e + 1) % UintSize) - input.w) % UintSize = ((input.e - input.w) % UintSize) + 1
      BY <3>1, <3>3, RingDistanceWrite
    <3>5. (((input.e + 1) % UintSize) - input.r) % UintSize = ((input.e - input.r) % UintSize) + 1
      BY <3>2, <3>3, RingDistanceWrite
    <3>6. e = (input.e + 1) % UintSize
      BY DEF Inc
    <3> QED BY <2>2, <3>4, <3>5, <3>6
  <2>6. full <=> c + l + 1 = INPUT_BUF
    <3>1. INPUT_BUF \in 0 .. UintSize - 1 /\ UintSize \in Nat \ {0}
      BY Sizes
    <3>2. full <=> (e - input.r) % UintSize = INPUT_BUF
      BY <2>2, <2>5, <3>1, RingFullIff
    <3> QED BY <2>2, <2>5, <3>2
  <2> HIDE DEF e, full
  <2>7. /\ line' = IF done THEN <<>> ELSE Append(line, ch)
        /\ lines' = IF done THEN lines \o Append(line, ch) ELSE lines
    BY <2>1, <2>2, <2>6
  <2>8. /\ input.buf \in [0 .. INPUT_BUF - 1 -> Typed \cup {"nul"}]
        /\ lines \in Seq(Typed) /\ line \in Seq(Typed \ {Newline, EOT})
        /\ line \in Seq(Typed)
    BY DEF ConsoleInv, ConsoleShape
  <2> DEFINE new == [input.buf EXCEPT ![input.e % INPUT_BUF] = ch]
  <2>9. /\ input'.buf = new /\ input'.r = input.r /\ input'.e = e
        /\ input'.w = IF done THEN e ELSE input.w
        /\ input' \in [buf : {new}, r : {input.r}, w : {input'.w}, e : {e}]
    BY <2>1 DEF ConsoleInv, ConsoleShape
  <2>10. /\ new \in [0 .. INPUT_BUF - 1 -> Typed \cup {"nul"}]
         /\ \A i \in 1 .. u : new[Slot(input.r, i)] = input.buf[Slot(input.r, i)]
         /\ new[Slot(input.r, u + 1)] = ch
    <3>1. input.e % INPUT_BUF = Slot(input.r, u + 1)
      <4>1. input.r + (u + 1) - 1 = input.r + u
        BY <2>2
      <4> QED BY <2>3, <4>1 DEF Slot, RingSlot
    <3>2. u + 1 \in 1 .. INPUT_BUF /\ \A i \in 1 .. u : i \in 1 .. INPUT_BUF /\ i # u + 1
      BY <2>2, Sizes
    <3> HIDE DEF u
    <3>3. /\ Slot(input.r, u + 1) \in 0 .. INPUT_BUF - 1
          /\ \A i \in 1 .. INPUT_BUF : i # u + 1 => Slot(input.r, i) # Slot(input.r, u + 1)
          /\ \A i \in 1 .. INPUT_BUF : Slot(input.r, i) \in 0 .. INPUT_BUF - 1
      BY <2>2, <3>2, OtherSlots
    <3> QED BY <2>8, <3>1, <3>2, <3>3
  <2> HIDE DEF new, done
  \* The characters in the ring are those of the history and the new one.
  <2>11. /\ \A i \in 1 .. c : new[Slot(input.r, i)] = lines[i]
         /\ \A i \in 1 .. l : new[Slot(input.r, c + i)] = line[i]
         /\ new[Slot(input.r, c + (l + 1))] = ch
    <3>1. /\ \A i \in 1 .. c : i \in 1 .. u
          /\ \A i \in 1 .. l : c + i \in 1 .. u
          /\ c + (l + 1) = u + 1
      BY <2>2
    <3> HIDE DEF u
    <3> QED BY <2>4, <2>10, <3>1
  <2>12. /\ Append(line, ch) \in Seq(Typed) /\ Len(Append(line, ch)) = l + 1
         /\ \A i \in 1 .. l : Append(line, ch)[i] = line[i]
         /\ Append(line, ch)[l + 1] = ch
    BY <2>2, <2>8
  <2>13. \A i \in 1 .. l + 1 : new[Slot(input.r, c + i)] = Append(line, ch)[i]
    <3> TAKE i \in 1 .. l + 1
    <3>1. CASE i = l + 1
      BY <2>11, <2>12, <3>1
    <3>2. CASE i # l + 1
      <4>1. i \in 1 .. l
        BY <2>2, <3>2
      <4> QED BY <2>11, <2>12, <4>1
    <3> QED BY <3>1, <3>2
  <2>14. CursorOnScreen'
    BY <2>1, CursorMoves DEF ConsoleInv, CursorOnScreen
  <2>15. /\ reader' \in [Readers -> [pc : {"out", "reading", "asleep"}, n : 0 .. MaxWant, target : 0 .. MaxWant]]
         /\ done => \A p \in Readers : reader'[p].pc # "asleep"
         /\ ~done => reader' = reader
    <3>1. reader \in [Readers -> [pc : {"out", "reading", "asleep"}, n : 0 .. MaxWant, target : 0 .. MaxWant]]
      BY DEF ConsoleInv, ConsoleShape
    <3> QED BY <2>1, <3>1 DEF WakeReaders, done
  <2>16. CallsWantBytes'
    <3> SUFFICES ASSUME NEW p \in Readers, reader'[p].pc # "out"
                 PROVE  reader'[p].n \in 1 .. reader'[p].target
      BY DEF CallsWantBytes
    <3>1. reader[p].pc # "out" /\ reader'[p].n = reader[p].n /\ reader'[p].target = reader[p].target
      <4>1. \/ reader'[p] = reader[p]
            \/ reader'[p] = [reader[p] EXCEPT !.pc = "reading"] /\ reader[p].pc = "asleep"
        BY <2>1 DEF WakeReaders
      <4>2. reader[p] \in [pc : {"out", "reading", "asleep"}, n : 0 .. MaxWant, target : 0 .. MaxWant]
        BY DEF ConsoleInv, ConsoleShape
      <4> QED BY <4>1, <4>2
    <3>2. reader[p].n \in 1 .. reader[p].target
      BY <3>1 DEF ConsoleInv, CallsWantBytes
    <3> QED BY <3>1, <3>2
  <2>17. CASE done
    <3>1. input'.w = e /\ (e - e) % UintSize = 0
      BY <2>5, <2>9, <2>17, NoDistance
    <3>2. IndicesOrdered'
      <4>1. /\ input'.w \in 0 .. UintSize - 1 /\ input'.e \in 0 .. UintSize - 1
            /\ (input'.w - input'.r) % UintSize = u + 1
            /\ (input'.e - input'.w) % UintSize = 0
            /\ (input'.e - input'.r) % UintSize = (u + 1) + 0
            /\ (u + 1) + 0 <= INPUT_BUF /\ u + 1 \in Nat
        <5>1. u + 1 \in Nat /\ u + 1 <= INPUT_BUF /\ (u + 1) + 0 = u + 1
          BY <2>2, Sizes
        <5> QED BY <2>2, <2>5, <2>9, <3>1, <5>1
      <4> HIDE DEF u
      <4> QED BY <4>1, OrderNext
    <3>3. line' = <<>> /\ lines' = lines \o Append(line, ch)
      BY <2>7, <2>17
    <3>4. /\ lines' \in Seq(Typed) /\ Len(lines') = u + 1
          /\ \A i \in 1 .. c : lines'[i] = lines[i]
          /\ \A i \in 1 .. l + 1 : lines'[c + i] = Append(line, ch)[i]
      <4> DEFINE g == Append(line, ch)
      <4> HIDE DEF g
      <4>1. /\ lines \o g \in Seq(Typed) /\ Len(lines \o g) = c + (l + 1)
            /\ \A i \in 1 .. c : (lines \o g)[i] = lines[i]
            /\ \A i \in 1 .. l + 1 : (lines \o g)[c + i] = g[i]
        <5>1. lines \in Seq(Typed) /\ g \in Seq(Typed) /\ Len(lines) = c /\ Len(g) = l + 1
          BY <2>2, <2>8, <2>12 DEF g
        <5>2. /\ lines \o g \in Seq(Typed) /\ Len(lines \o g) = Len(lines) + Len(g)
              /\ \A i \in 1 .. Len(lines) : (lines \o g)[i] = lines[i]
              /\ \A i \in 1 .. Len(g) : (lines \o g)[Len(lines) + i] = g[i]
          BY <5>1
        <5> QED BY <5>1, <5>2
      <4>2. lines' = lines \o g /\ c + (l + 1) = u + 1
        BY <2>2, <3>3 DEF g
      <4> QED BY <4>1, <4>2 DEF g
    <3>5. \A i \in 1 .. u + 1 : lines'[i] = new[Slot(input.r, i)]
      <4> TAKE i \in 1 .. u + 1
      <4>1. CASE i \in 1 .. c
        BY <2>11, <3>4, <4>1
      <4>2. CASE i \notin 1 .. c
        <5>1. i - c \in 1 .. l + 1 /\ i = c + (i - c)
          BY <2>2, <4>2
        <5> QED BY <2>13, <3>4, <5>1
      <4> QED BY <4>1, <4>2
    <3>6. lines' = Cells(new, input.r, u + 1)
      <4>1. lines' = [i \in 1 .. u + 1 |-> lines'[i]]
        BY <3>4
      <4> QED BY <3>5, <4>1 DEF Cells
    <3>7. Cells(new, e, 0) = <<>>
      BY DEF Cells
    <3>8. ConsoleLines'
      BY <2>5, <2>9, <2>15, <2>17, <3>1, <3>3, <3>6, <3>7, LinesNext
    <3>9. ConsoleShape'
      <4>1. input'.w \in 0 .. UintSize - 1 /\ e \in 0 .. UintSize - 1 /\ input.r \in 0 .. UintSize - 1
        BY <2>2, <2>5, <3>1
      <4>2. input' \in [buf : [0 .. INPUT_BUF - 1 -> Typed \cup {"nul"}], r : 0 .. UintSize - 1,
                      w : 0 .. UintSize - 1, e : 0 .. UintSize - 1]
        BY <2>9, <2>10, <4>1
      <4>3. line' \in Seq(Typed \ {Newline, EOT}) /\ lines' \in Seq(Typed)
        BY <3>3, <3>4
      <4> QED BY <2>15, <4>2, <4>3 DEF ConsoleShape
    <3> QED BY <2>14, <2>16, <3>2, <3>8, <3>9 DEF ConsoleInv
  <2>18. CASE ~done
    <3>1. input'.w = input.w
      BY <2>9, <2>18
    <3>2. IndicesOrdered'
      <4>1. u + 1 # INPUT_BUF
        BY <2>2, <2>6, <2>18 DEF done
      <4>2. /\ input'.w \in 0 .. UintSize - 1 /\ input'.e \in 0 .. UintSize - 1
            /\ (input'.w - input'.r) % UintSize = c
            /\ (input'.e - input'.w) % UintSize = l + 1
            /\ (input'.e - input'.r) % UintSize = c + (l + 1)
            /\ c + (l + 1) <= INPUT_BUF /\ c + (l + 1) # INPUT_BUF /\ l + 1 \in Nat
        <5>1. u + 1 = c + (l + 1) /\ c + (l + 1) <= INPUT_BUF /\ l + 1 \in Nat
          BY <2>2, Sizes
        <5> QED BY <2>2, <2>5, <2>9, <3>1, <4>1, <5>1
      <4> QED BY <2>2, <4>2, OrderNext
    <3>3. line' = Append(line, ch) /\ lines' = lines
      BY <2>7, <2>18
    <3>4. line' \in Seq(Typed \ {Newline, EOT})
      BY <2>8, <2>18, <3>3 DEF done
    <3>5. lines' = Cells(new, input.r, c)
      <4>1. lines = [i \in 1 .. c |-> lines[i]]
        BY <2>2, <2>8
      <4> QED BY <2>11, <3>3, <4>1 DEF Cells
    <3>6. line' = Cells(new, input.w, l + 1)
      <4>1. \A i \in 1 .. l + 1 : Slot(input.w, i) = Slot(input.r, c + i)
        <5> TAKE i \in 1 .. l + 1
        <5>1. i \in Nat /\ c \in Nat /\ input.r \in Nat
          BY <2>2
        <5>2. Slot((input.r + c) % UintSize, i) = Slot(input.r, c + i)
          BY <5>1, SlotShift
        <5> QED BY <2>4, <5>2
      <4>2. line' = [i \in 1 .. l + 1 |-> line'[i]]
        <5>1. line' \in Seq(Typed) /\ Len(line') = l + 1
          BY <2>12, <3>3
        <5> QED BY <5>1
      <4> QED BY <2>13, <3>3, <4>1, <4>2 DEF Cells
    <3>7. \A p \in Readers : reader'[p].pc = "asleep" => lines' = <<>>
      BY <2>15, <2>18, <3>3 DEF ConsoleInv, ConsoleLines
    <3>8. ConsoleLines'
      BY <2>2, <2>5, <2>9, <3>1, <3>5, <3>6, <3>7, LinesNext
    <3>9. ConsoleShape'
      <4>1. input'.w \in 0 .. UintSize - 1 /\ e \in 0 .. UintSize - 1 /\ input.r \in 0 .. UintSize - 1
        BY <2>2, <2>5, <3>1
      <4>2. input' \in [buf : [0 .. INPUT_BUF - 1 -> Typed \cup {"nul"}], r : 0 .. UintSize - 1,
                      w : 0 .. UintSize - 1, e : 0 .. UintSize - 1]
        BY <2>9, <2>10, <4>1
      <4>3. line' \in Seq(Typed \ {Newline, EOT}) /\ lines' \in Seq(Typed)
        BY <2>8, <3>3, <3>4
      <4> QED BY <2>15, <4>2, <4>3 DEF ConsoleShape
    <3> QED BY <2>14, <2>16, <3>2, <3>8, <3>9 DEF ConsoleInv
  <2> QED BY <2>17, <2>18
<1>2. CASE ~(InputUsed < INPUT_BUF)
  <2>1. UNCHANGED <<input, crt, reader, line, lines>>
    BY <1>2 DEF store_char
  <2> QED BY <2>1 DEF ConsoleInv, ConsoleShape, IndicesOrdered, InputUsed, CallsWantBytes,
                     CursorOnScreen, ConsoleLines, InputRing
<1> QED BY <1>1, <1>2

\* consoleread() returns the first character and steps r past it, unless it
\* keeps a Ctrl-D.
LEMMA TakeInv ==
  ASSUME ConsoleInv, NEW p \in Readers, reader[p].pc = "reading", take_char(p)
  PROVE  ConsoleInv'
<1> DEFINE c == Committed
           l == Edited
           n == reader[p].n
           e == Inc(input.r)
<1>1. /\ input.r \in 0 .. UintSize - 1 /\ input.w \in 0 .. UintSize - 1 /\ input.e \in 0 .. UintSize - 1
      /\ input.r \in Nat /\ c \in Nat /\ l \in Nat /\ c + l <= INPUT_BUF
      /\ (input.w - input.r) % UintSize = c /\ (input.e - input.w) % UintSize = l
      /\ (input.e - input.r) % UintSize = c + l
      /\ Len(lines) = c
  BY InputFacts DEF Committed, Edited, InputUsed
<1>2. /\ reader \in [Readers -> [pc : {"out", "reading", "asleep"}, n : 0 .. MaxWant, target : 0 .. MaxWant]]
      /\ lines \in Seq(Typed)
  BY DEF ConsoleInv, ConsoleShape
\* There is something to read, so nobody sleeps.
<1>3. c >= 1
  <2>1. c = 0 => input.w = input.r
    <3>1. input.r + 0 = input.r /\ input.r % UintSize = input.r
      <4>1. input.r \in 0 .. UintSize - 1 /\ input.r \in Int
        BY <1>1
      <4> QED BY <4>1, Sizes, ModSmall
    <3> QED BY <3>1, InputFacts
  <2> QED BY <1>1, <2>1 DEF take_char
<1>4. \A q \in Readers : reader[q].pc # "asleep"
  <2>1. lines # <<>>
    BY <1>1, <1>2, <1>3
  <2> QED BY <2>1 DEF ConsoleInv, ConsoleLines
<1>5. n \in 1 .. reader[p].target
  BY DEF ConsoleInv, CallsWantBytes
<1>6. /\ reader' \in [Readers -> [pc : {"out", "reading", "asleep"}, n : 0 .. MaxWant, target : 0 .. MaxWant]]
      /\ CallsWantBytes'
      /\ \A q \in Readers : reader'[q].pc # "asleep"
  <2>1. MaxWant \in Nat /\ n \in 0 .. MaxWant /\ reader[p].target \in 0 .. MaxWant /\ n - 1 \in 0 .. MaxWant
    <3>1. n \in 0 .. MaxWant /\ reader[p].target \in 0 .. MaxWant
      BY <1>2
    <3> QED BY <1>5, <3>1, ConsoleAssumption
  <2> DEFINE R == [pc : {"out", "reading", "asleep"}, n : 0 .. MaxWant, target : 0 .. MaxWant]
  <2>2. PICK rp : /\ reader' = [reader EXCEPT ![p] = rp]
                  /\ rp \in R /\ rp.pc \in {"out", "reading"} /\ rp.target = reader[p].target
                  /\ rp.pc = "reading" => rp.n = n - 1 /\ n # 1
    <3>1. reader[p] \in R
      BY <1>2
    <3>2. CASE reader' = [reader EXCEPT ![p].pc = "out"]
      <4> WITNESS [reader[p] EXCEPT !.pc = "out"]
      <4> QED BY <3>1, <3>2
    <3>3. CASE reader' = [reader EXCEPT ![p] = [@ EXCEPT !.pc = "out", !.n = n - 1]]
      <4> WITNESS [reader[p] EXCEPT !.pc = "out", !.n = n - 1]
      <4> QED BY <2>1, <3>1, <3>3
    <3>4. CASE n # 1 /\ reader' = [reader EXCEPT ![p] = [@ EXCEPT !.n = n - 1]]
      <4> WITNESS [reader[p] EXCEPT !.n = n - 1]
      <4> QED BY <2>1, <3>1, <3>4
    <3> QED BY <3>2, <3>3, <3>4 DEF take_char
  <2>3. /\ reader' \in [Readers -> R]
        /\ \A q \in Readers \ {p} : reader'[q] = reader[q]
        /\ reader'[p] = rp
    BY <1>2, <2>2
  <2>4. \A q \in Readers : reader'[q].pc # "out" => reader'[q].n \in 1 .. reader'[q].target
    <3> SUFFICES ASSUME NEW q \in Readers, reader'[q].pc # "out"
                 PROVE  reader'[q].n \in 1 .. reader'[q].target
      OBVIOUS
    <3>1. CASE q = p
      <4>1. reader'[p].pc = "reading" /\ reader'[p].target = reader[p].target
        BY <2>2, <2>3, <3>1
      <4>2. reader'[p].n = n - 1 /\ n # 1
        BY <2>2, <2>3, <4>1
      <4>3. n \in Int /\ reader[p].target \in Int
        BY <2>1
      <4> QED BY <1>5, <3>1, <4>1, <4>2, <4>3
    <3>2. CASE q # p
      <4>1. reader'[q] = reader[q]
        BY <2>3, <3>2
      <4> QED BY <4>1 DEF ConsoleInv, CallsWantBytes
    <3> QED BY <3>1, <3>2
  <2>5. \A q \in Readers : reader'[q].pc # "asleep"
    BY <1>4, <2>2, <2>3
  <2> QED BY <2>3, <2>4, <2>5 DEF CallsWantBytes
<1>7. CASE input' = input /\ lines' = lines /\ UNCHANGED <<crt, typing, line>>
  <2>1. ConsoleShape' /\ IndicesOrdered' /\ CursorOnScreen'
    BY <1>6, <1>7 DEF ConsoleInv, ConsoleShape, IndicesOrdered, InputUsed, CursorOnScreen
  <2>2. ConsoleLines'
    BY <1>6, <1>7 DEF ConsoleInv, ConsoleLines, InputRing
  <2> QED BY <1>6, <2>1, <2>2 DEF ConsoleInv
<1>8. CASE input' = [input EXCEPT !.r = e] /\ lines' = Tail(lines) /\ UNCHANGED <<crt, typing, line>>
  <2>1. /\ input'.buf = input.buf /\ input'.r = e /\ input'.w = input.w /\ input'.e = input.e
        /\ input' \in [buf : {input.buf}, r : {e}, w : {input.w}, e : {input.e}]
    BY <1>8 DEF ConsoleInv, ConsoleShape
  <2> HIDE DEF c, l
  <2>2. /\ e \in 0 .. UintSize - 1
        /\ (input.w - e) % UintSize = c - 1
        /\ (input.e - e) % UintSize = (c - 1) + l
    <3>1. UintSize \in Nat \ {0} /\ 1 \in Nat
          /\ 1 <= (input.w - input.r) % UintSize /\ 1 <= (input.e - input.r) % UintSize
      BY <1>1, <1>3, Sizes
    <3>2. /\ (input.r + 1) % UintSize \in 0 .. UintSize - 1
          /\ (input.w - ((input.r + 1) % UintSize)) % UintSize = ((input.w - input.r) % UintSize) - 1
      BY <1>1, <3>1, RingDistanceRead
    <3>3. (input.e - ((input.r + 1) % UintSize)) % UintSize = ((input.e - input.r) % UintSize) - 1
      BY <1>1, <3>1, RingDistanceRead
    <3>4. (c + l) - 1 = (c - 1) + l
      BY <1>1
    <3> QED BY <1>1, <3>2, <3>3, <3>4 DEF Inc
  <2>3. IndicesOrdered'
    <3>1. /\ c - 1 \in Nat /\ (c - 1) + l <= INPUT_BUF /\ (c - 1) + l # INPUT_BUF
      BY <1>1, <1>3, Sizes
    <3> QED BY <1>1, <2>1, <2>2, <3>1, OrderNext
  <2>4. /\ lines' \in Seq(Typed) /\ Len(lines') = c - 1
        /\ \A i \in 1 .. c - 1 : lines'[i] = lines[i + 1]
    BY <1>1, <1>2, <1>3, <1>8
  <2>5. lines' = Cells(input.buf, e, c - 1)
    <3>1. \A i \in 1 .. c - 1 : lines'[i] = input.buf[Slot(e, i)]
      <4> TAKE i \in 1 .. c - 1
      <4>1. i \in Nat /\ i + 1 \in 1 .. c /\ 1 + i = i + 1 /\ 1 \in Nat
        BY <1>1
      <4>2. Slot((input.r + 1) % UintSize, i) = Slot(input.r, 1 + i)
        BY <1>1, <4>1, SlotShift
      <4>3. lines[i + 1] = input.buf[Slot(input.r, i + 1)]
        BY <4>1, LineBehind DEF c
      <4> QED BY <2>4, <4>1, <4>2, <4>3 DEF Inc
    <3>2. lines' = [i \in 1 .. c - 1 |-> lines'[i]]
      BY <2>4
    <3> QED BY <3>1, <3>2 DEF Cells
  <2>6. line = Cells(input.buf, input.w, l)
    BY InputFacts DEF l
  <2>7. ConsoleLines'
    BY <1>1, <1>6, <1>8, <2>1, <2>2, <2>5, <2>6, LinesNext
  <2>8. ConsoleShape'
    BY <1>6, <1>8, <2>1, <2>2, <2>4 DEF ConsoleInv, ConsoleShape
  <2>9. CursorOnScreen'
    BY <1>8 DEF ConsoleInv, CursorOnScreen
  <2> QED BY <1>6, <2>3, <2>7, <2>8, <2>9 DEF ConsoleInv
<1> QED BY <1>7, <1>8 DEF take_char

\* Nothing to read: the test and the sleep are one step under cons.lock.
LEMMA AwaitInv ==
  ASSUME ConsoleInv, NEW p \in Readers, reader[p].pc = "reading", await_char(p)
  PROVE  ConsoleInv'
<1>1. /\ UNCHANGED <<input, crt, typing, line, lines>>
      /\ \/ reader' = [reader EXCEPT ![p].pc = "asleep"]
         \/ reader' = [reader EXCEPT ![p].pc = "out"]
  BY DEF await_char
<1>2. lines = <<>>
  <2>1. Committed = 0
    BY InputFacts, NoDistance DEF await_char, Committed
  <2> QED BY <2>1, InputFacts DEF Cells
<1>3. ConsoleShape' /\ CallsWantBytes'
  <2> DEFINE R == [pc : {"out", "reading", "asleep"}, n : 0 .. MaxWant, target : 0 .. MaxWant]
  <2>1. PICK x \in {"out", "asleep"} : reader' = [reader EXCEPT ![p].pc = x]
    BY <1>1
  <2>2. /\ reader \in [Readers -> R] /\ reader[p] \in R
        /\ reader[p].n \in 1 .. reader[p].target
    BY DEF ConsoleInv, ConsoleShape, CallsWantBytes
  <2> DEFINE rp == [reader[p] EXCEPT !.pc = x]
  <2>3. rp \in R /\ rp.n = reader[p].n /\ rp.target = reader[p].target
    BY <2>2
  <2>4. /\ reader' \in [Readers -> R] /\ reader'[p] = rp
        /\ \A q \in Readers \ {p} : reader'[q] = reader[q]
    BY <2>1, <2>2, <2>3
  <2>5. ConsoleShape'
    BY <1>1, <2>4 DEF ConsoleInv, ConsoleShape
  <2> HIDE DEF rp
  <2>6. CallsWantBytes'
    BY <2>2, <2>3, <2>4 DEF ConsoleInv, CallsWantBytes
  <2> QED BY <2>5, <2>6
<1>4. ConsoleLines'
  BY <1>1, <1>2 DEF ConsoleInv, ConsoleLines, InputRing
<1> QED BY <1>1, <1>3, <1>4 DEF ConsoleInv, IndicesOrdered, InputUsed, CursorOnScreen

LEMMA CallInv ==
  ASSUME ConsoleInv, NEW p \in Readers, NEW n \in 1 .. MaxWant, read_console(p, n)
  PROVE  ConsoleInv'
<1>1. /\ reader' = [reader EXCEPT ![p] = [pc |-> "reading", n |-> n, target |-> n]]
      /\ UNCHANGED <<input, crt, typing, line, lines>>
      /\ n \in 0 .. MaxWant /\ n \in 1 .. n
  BY ConsoleAssumption DEF read_console
<1>2. ConsoleShape' /\ CallsWantBytes'
  BY <1>1 DEF ConsoleInv, ConsoleShape, CallsWantBytes
<1>3. ConsoleLines'
  BY <1>1 DEF ConsoleInv, ConsoleShape, ConsoleLines, InputRing
<1> QED BY <1>1, <1>2, <1>3 DEF ConsoleInv, IndicesOrdered, InputUsed, CursorOnScreen

LEMMA ConsoleStep ==
  ASSUME ConsoleInv, [ConsoleNext]_consoleVars
  PROVE  ConsoleInv'
<1>1. CASE \E ch \in Typed : consoleintr(ch)
  <2> PICK ch \in Typed : consoleintr(ch)
    BY <1>1
  <2>1. kill_line \/ backspace \/ store_char(ch)
    BY DEF consoleintr, KillLine, Backspace
  <2> QED BY <2>1, KillLineInv, BackspaceInv, StoreInv
<1>2. CASE \E p \in Readers : consoleread(p)
  BY <1>2, TakeInv, AwaitInv DEF consoleread
<1>3. CASE \E p \in Readers : \E n \in 1 .. MaxWant : read_console(p, n)
  BY <1>3, CallInv
<1>4. CASE \E ch \in {Newline, "a"} : consolewrite(ch)
  <2>1. CursorOnScreen' /\ UNCHANGED <<input, reader, typing, line, lines>>
    BY <1>4, CursorMoves DEF consolewrite, ConsoleInv, CursorOnScreen
  <2> QED BY <2>1 DEF ConsoleInv, ConsoleShape, IndicesOrdered, InputUsed, CallsWantBytes,
                     ConsoleLines, InputRing
<1>5. CASE UNCHANGED consoleVars
  BY <1>5 DEF consoleVars, ConsoleInv, ConsoleShape, IndicesOrdered, InputUsed, CallsWantBytes,
              CursorOnScreen, ConsoleLines, InputRing
<1> QED BY <1>1, <1>2, <1>3, <1>4, <1>5 DEF ConsoleNext

LEMMA InitInv == ConsoleInit => ConsoleInv
<1> SUFFICES ASSUME ConsoleInit PROVE ConsoleInv
  OBVIOUS
<1>1. /\ input.r = 0 /\ input.w = 0 /\ input.e = 0
      /\ input.buf \in [0 .. INPUT_BUF - 1 -> Typed \cup {"nul"}]
      /\ input \in [buf : {input.buf}, r : {0}, w : {0}, e : {0}]
  BY DEF ConsoleInit
<1>2. 0 \in 0 .. UintSize - 1 /\ 0 \in 0 .. MaxWant /\ (0 - 0) % UintSize = 0
  BY Sizes, ConsoleAssumption, NoDistance
<1>3. ConsoleShape
  BY <1>1, <1>2 DEF ConsoleInit, ConsoleShape
<1>4. IndicesOrdered
  BY <1>1, <1>2, Sizes DEF IndicesOrdered, InputUsed
<1>5. CallsWantBytes
  BY DEF ConsoleInit, CallsWantBytes
<1>6. CursorOnScreen
  <2>1. CrtCols * (CrtRows - 1) \in Nat \ {0}
    BY ConsoleAssumption
  <2> QED BY <2>1 DEF ConsoleInit, CursorOnScreen
<1>7. ConsoleLines
  <2>1. InputRing(input.r, input.w) = [i \in 1 .. 0 |-> input.buf[Slot(0, i)]]
    BY <1>1, <1>2 DEF InputRing, Slot, RingSlot
  <2>2. InputRing(input.w, input.e) = [i \in 1 .. 0 |-> input.buf[Slot(0, i)]]
    BY <1>1, <1>2 DEF InputRing, Slot, RingSlot
  <2>3. [i \in 1 .. 0 |-> input.buf[Slot(0, i)]] = <<>>
    OBVIOUS
  <2> QED BY <2>1, <2>2, <2>3 DEF ConsoleInit, ConsoleLines
<1> QED BY <1>3, <1>4, <1>5, <1>6, <1>7 DEF ConsoleInv

-----------------------------------------------------------------------------
(* The theorems *)

\* Ring indices, the edited line, the calls of consoleread() and the cursor
\* agree at every step of console.c; a ring that is full has been committed, so
\* that its readers can always make room, and cgaputc() never panics.
THEOREM ConsoleInvariant == ConsoleSpec => []ConsoleInv
<1>1. ConsoleInv /\ [ConsoleNext]_consoleVars => ConsoleInv'
  BY ConsoleStep
<1> QED BY <1>1, InitInv, PTL DEF ConsoleSpec

\* consoleread() returns what was committed by consoleintr(), in order, never a
\* character taken back with Ctrl-U or backspace, and nobody sleeps beside it.
THEOREM ConsoleKeepsLines == ConsoleSpec => []ConsoleLines
<1>1. ConsoleInv => ConsoleLines
  BY DEF ConsoleInv
<1> QED BY <1>1, ConsoleInvariant, PTL

-----------------------------------------------------------------------------
(* The keyboard and the mouse: the flags of kbdgetc() *)

\* The flags that keys held may leave on.
ShiftOf(keys) == {"CAPSLOCK"} \cup UNION {ModifierOf(k) : k \in keys}

LEMMA NoEscape ==
  ASSUME NEW keys
  PROVE  "E0ESC" \notin ShiftOf(keys)
BY DEF ShiftOf, ModifierOf, shiftcode

LEMMA CodeOf ==
  ASSUME NEW k \in KeyCodes
  PROVE  \/ \E d \in 1 .. 88 : k = <<d>> /\ BreakCode(k) = <<d + 128>>
         \/ \E d \in 1 .. 88 : k = <<224, d>> /\ BreakCode(k) = <<224, d + 128>>
<1>1. ASSUME NEW d \in 1 .. 88, k = <<d>>
      PROVE  BreakCode(k) = <<d + 128>>
  BY <1>1 DEF BreakCode
<1>2. ASSUME NEW d \in 1 .. 88, k = <<224, d>>
      PROVE  BreakCode(k) = <<224, d + 128>>
  BY <1>2 DEF BreakCode
<1> QED BY <1>1, <1>2 DEF KeyCodes

\* The code of a key adds its modifier, if any, and the locks.
LEMMA PressAdds ==
  ASSUME NEW keys, NEW k \in KeyCodes, NEW flags, flags \subseteq ShiftOf(keys)
  PROVE  GotAll(flags, k) \subseteq ShiftOf(keys \cup {k})
<1>1. GotAll(flags, k) \subseteq flags \cup {"CAPSLOCK"} \cup ModifierOf(k)
  <2>1. "E0ESC" \notin flags
    BY NoEscape
  <2>2. CASE \E d \in 1 .. 88 : k = <<d>>
    <3>1. PICK d \in 1 .. 88 : k = <<d>>
      BY <2>2
    <3>2. GotAll(flags, k) = Got(flags, d) /\ ModifierOf(k) = shiftcode(d)
      BY <3>1 DEF GotAll, ModifierOf
    <3>3. Got(flags, d) = Toggled((flags \ {"E0ESC"}) \cup shiftcode(d), togglecode(d))
      BY <2>1 DEF Got
    <3> QED BY <3>2, <3>3 DEF Toggled, togglecode
  <2>3. CASE \E d \in 1 .. 88 : k = <<224, d>>
    <3>1. PICK d \in 1 .. 88 : k = <<224, d>>
      BY <2>3
    <3>2. GotAll(flags, k) = Got(Got(flags, 224), d) /\ ModifierOf(k) = shiftcode(d + 128)
      BY <3>1 DEF GotAll, ModifierOf
    <3>3. Got(flags, 224) = flags \cup {"E0ESC"}
      BY DEF Got
    <3>4. Got(flags \cup {"E0ESC"}, d)
            = Toggled(((flags \cup {"E0ESC"}) \ {"E0ESC"}) \cup shiftcode(d + 128),
                      togglecode(d + 128))
      BY DEF Got
    <3> QED BY <3>2, <3>3, <3>4 DEF Toggled, togglecode
  <2> QED BY <2>2, <2>3 DEF KeyCodes
<1> QED BY <1>1 DEF ShiftOf

\* The code of its release takes the modifier away.
LEMMA ReleaseRemoves ==
  ASSUME NEW keys, NEW k \in KeyCodes, NEW flags, flags \subseteq ShiftOf(keys)
  PROVE  GotAll(flags, BreakCode(k)) \subseteq ShiftOf(keys \ {k})
<1>1. GotAll(flags, BreakCode(k)) \subseteq flags \ ModifierOf(k)
  <2>1. "E0ESC" \notin flags
    BY NoEscape
  <2>2. ASSUME NEW d \in 1 .. 88, k = <<d>>, BreakCode(k) = <<d + 128>>
        PROVE  GotAll(flags, BreakCode(k)) \subseteq flags \ ModifierOf(k)
    <3>1. GotAll(flags, BreakCode(k)) = Got(flags, d + 128) /\ ModifierOf(k) = shiftcode(d)
      BY <2>2 DEF GotAll, ModifierOf
    <3>2. Got(flags, d + 128) = flags \ (shiftcode((d + 128) - 128) \cup {"E0ESC"})
      BY <2>1 DEF Got
    <3>3. (d + 128) - 128 = d
      OBVIOUS
    <3> QED BY <3>1, <3>2, <3>3
  <2>3. ASSUME NEW d \in 1 .. 88, k = <<224, d>>, BreakCode(k) = <<224, d + 128>>
        PROVE  GotAll(flags, BreakCode(k)) \subseteq flags \ ModifierOf(k)
    <3>5. GotAll(flags, <<224, d + 128>>) = Got(Got(flags, 224), d + 128)
      BY DEF GotAll
    <3>6. ModifierOf(k) = shiftcode(d + 128)
      BY <2>3 DEF ModifierOf
    <3>1. /\ GotAll(flags, BreakCode(k)) = Got(Got(flags, 224), d + 128)
          /\ ModifierOf(k) = shiftcode(d + 128)
      BY <2>3, <3>5, <3>6
    <3>2. Got(flags, 224) = flags \cup {"E0ESC"}
      BY DEF Got
    <3>3. Got(flags \cup {"E0ESC"}, d + 128)
            = (flags \cup {"E0ESC"}) \ (shiftcode(d + 128) \cup {"E0ESC"})
      BY DEF Got
    <3> QED BY <3>1, <3>2, <3>3
  <2> QED BY <2>2, <2>3, CodeOf
<1> QED BY <1>1 DEF ShiftOf

-----------------------------------------------------------------------------
(* The messages of genMouseMessage() *)

\* es ends with a click at time t that nothing but buttons followed.
ClickAt(es, t) ==
  \E j \in DOMAIN es :
    /\ es[j].type \in Clicks /\ es[j].tick = t
    /\ \A k \in j + 1 .. Len(es) : es[k].type \in Quiet

\* Every double click of es has its first click.
Paired(es) ==
  \A i \in DOMAIN es :
    es[i].type = "DBCLICK" =>
      \E j \in 1 .. i - 1 :
        /\ es[j].type \in Clicks
        /\ es[i].tick - es[j].tick < DblTicks
        /\ \A k \in j + 1 .. i - 1 : es[k].type \in Quiet

\* The history and the time of the last click agree.
Told(es, t) == Paired(es) /\ (t # Never => ClickAt(es, t))

LEMMA ToldNow == LastClick /\ DoubleClicks <=> Told(events, mouse.lastclick)
BY DEF LastClick, DoubleClicks, Told, ClickAt, Paired, Quiet, Clicks

LEMMA Longer ==
  ASSUME NEW es \in Seq(EventSet), NEW e \in EventSet
  PROVE  /\ Append(es, e) \in Seq(EventSet)
         /\ Len(Append(es, e)) = Len(es) + 1 /\ Len(es) \in Nat
         /\ DOMAIN es = 1 .. Len(es)
         /\ DOMAIN Append(es, e) = 1 .. Len(es) + 1
         /\ Append(es, e)[Len(es) + 1] = e
         /\ \A i \in 1 .. Len(es) : Append(es, e)[i] = es[i]
OBVIOUS

LEMMA AppendPaired ==
  ASSUME NEW es \in Seq(EventSet), NEW e \in EventSet, Paired(es),
         e.type = "DBCLICK" => \E t \in Nat : ClickAt(es, t) /\ e.tick - t < DblTicks
  PROVE  Paired(Append(es, e))
<1> DEFINE n == Len(es)
           fs == Append(es, e)
<1>1. /\ n \in Nat /\ DOMAIN es = 1 .. n /\ DOMAIN fs = 1 .. n + 1 /\ fs[n + 1] = e
      /\ \A i \in 1 .. n : fs[i] = es[i]
  BY Longer
<1> HIDE DEF n, fs
<1>2. ASSUME NEW i \in 1 .. n, es[i].type = "DBCLICK"
      PROVE  \E j \in 1 .. i - 1 :
               /\ fs[j].type \in Clicks
               /\ fs[i].tick - fs[j].tick < DblTicks
               /\ \A k \in j + 1 .. i - 1 : fs[k].type \in Quiet
  <2>1. PICK j \in 1 .. i - 1 :
          /\ es[j].type \in Clicks
          /\ es[i].tick - es[j].tick < DblTicks
          /\ \A k \in j + 1 .. i - 1 : es[k].type \in Quiet
    BY <1>1, <1>2 DEF Paired
  <2>2. \A k \in 1 .. i : fs[k] = es[k]
    BY <1>1
  <2> QED BY <1>1, <2>1, <2>2
<1>3. ASSUME e.type = "DBCLICK"
      PROVE  \E j \in 1 .. n :
               /\ fs[j].type \in Clicks
               /\ e.tick - fs[j].tick < DblTicks
               /\ \A k \in j + 1 .. n : fs[k].type \in Quiet
  <2>1. PICK t \in Nat : ClickAt(es, t) /\ e.tick - t < DblTicks
    BY <1>3
  <2>2. PICK j \in 1 .. n :
          /\ es[j].type \in Clicks /\ es[j].tick = t
          /\ \A k \in j + 1 .. n : es[k].type \in Quiet
    BY <1>1, <2>1 DEF ClickAt, n
  <2> QED BY <1>1, <2>1, <2>2
<1>4. ASSUME NEW i \in 1 .. n + 1, fs[i].type = "DBCLICK"
      PROVE  \E j \in 1 .. i - 1 :
               /\ fs[j].type \in Clicks
               /\ fs[i].tick - fs[j].tick < DblTicks
               /\ \A k \in j + 1 .. i - 1 : fs[k].type \in Quiet
  <2>1. CASE i \in 1 .. n
    BY <1>1, <1>2, <1>4, <2>1
  <2>2. CASE i = n + 1
    <3>1. (n + 1) - 1 = n /\ e.type = "DBCLICK"
      BY <1>1, <1>4, <2>2
    <3> QED BY <1>1, <1>3, <2>2, <3>1
  <2> QED BY <1>1, <2>1, <2>2
<1>5. Paired(fs)
  BY <1>1, <1>4 DEF Paired
<1> QED BY <1>5 DEF fs

LEMMA AppendQuiet ==
  ASSUME NEW es \in Seq(EventSet), NEW e \in EventSet, e.type \in Quiet, NEW t,
         ClickAt(es, t)
  PROVE  ClickAt(Append(es, e), t)
<1> DEFINE n == Len(es)
           fs == Append(es, e)
<1>1. /\ n \in Nat /\ DOMAIN es = 1 .. n /\ DOMAIN fs = 1 .. n + 1 /\ fs[n + 1] = e
      /\ Len(fs) = n + 1
      /\ \A i \in 1 .. n : fs[i] = es[i]
  BY Longer
<1>2. PICK j \in 1 .. n :
        /\ es[j].type \in Clicks /\ es[j].tick = t
        /\ \A k \in j + 1 .. n : es[k].type \in Quiet
  BY <1>1 DEF ClickAt
<1> HIDE DEF n, fs
<1>3. \A k \in j + 1 .. n + 1 : fs[k].type \in Quiet
  BY <1>1, <1>2
<1>4. ClickAt(fs, t)
  BY <1>1, <1>2, <1>3 DEF ClickAt
<1> QED BY <1>4 DEF fs

LEMMA AppendClick ==
  ASSUME NEW es \in Seq(EventSet), NEW e \in EventSet, e.type \in Clicks
  PROVE  ClickAt(Append(es, e), e.tick)
<1> DEFINE n == Len(es)
           fs == Append(es, e)
<1>1. /\ n \in Nat /\ DOMAIN fs = 1 .. n + 1 /\ fs[n + 1] = e /\ Len(fs) = n + 1
  BY Longer
<1> HIDE DEF n, fs
<1>2. ClickAt(fs, e.tick)
  BY <1>1 DEF ClickAt
<1> QED BY <1>2 DEF fs

\* The state of mouse.c, and what LastClick and DoubleClicks need of a step.
MouseSet == [count : 0 .. 2, recovery : -1 .. 1, flags : Int, x : Int, y : Int,
             lastbtn : Int, lastdown : Int, lastclick : Int]

MessageTypes == Clicks \cup Quiet \cup {"MOVE", "DBCLICK"}

LEMMA EventIs ==
  ASSUME ptick \in Nat, NEW type \in MessageTypes
  PROVE  Event(type) \in EventSet /\ Event(type).type = type /\ Event(type).tick = ptick
BY DEF Event, EventSet, MessageTypes

LEMMA ToldQuiet ==
  ASSUME NEW es \in Seq(EventSet), NEW e \in EventSet, e.type \in Quiet, NEW t, Told(es, t)
  PROVE  Told(Append(es, e), t)
<1>1. e.type # "DBCLICK"
  BY DEF Quiet
<1> QED BY <1>1, AppendPaired, AppendQuiet DEF Told

LEMMA MouseWith ==
  ASSUME NEW p \in MouseSet, NEW c \in Int
  PROVE  LET q == [p EXCEPT !.lastdown = c]
             r == [p EXCEPT !.lastclick = c]
         IN  /\ q \in MouseSet /\ q.count = p.count /\ q.recovery = p.recovery
             /\ q.lastclick = p.lastclick
             /\ r \in MouseSet /\ r.count = p.count /\ r.recovery = p.recovery
             /\ r.lastclick = c
<1> DEFINE q == [p EXCEPT !.lastdown = c]
           r == [p EXCEPT !.lastclick = c]
<1>1. q \in MouseSet /\ r \in MouseSet
  BY DEF MouseSet
<1>2. q.count = p.count /\ q.recovery = p.recovery /\ q.lastclick = p.lastclick
  BY DEF MouseSet
<1>3. r.count = p.count /\ r.recovery = p.recovery /\ r.lastclick = c
  BY DEF MouseSet
<1> QED BY <1>1, <1>2, <1>3

LEMMA MouseMoved ==
  ASSUME NEW p \in MouseSet
  PROVE  LET s == [p EXCEPT !.lastdown = Never, !.lastclick = Never]
         IN  /\ s \in MouseSet /\ s.count = p.count /\ s.recovery = p.recovery
             /\ s.lastclick = Never
<1> DEFINE s == [p EXCEPT !.lastdown = Never, !.lastclick = Never]
<1>0. Never \in Int
  BY DEF Never
<1>3. [p EXCEPT !.lastdown = Never] \in MouseSet
  BY <1>0 DEF MouseSet
<1>1. s \in MouseSet
  BY <1>0, <1>3 DEF MouseSet
<1>2. s.count = p.count /\ s.recovery = p.recovery /\ s.lastclick = Never
  BY DEF MouseSet
<1> QED BY <1>1, <1>2

\* A packet that is complete, whatever it says, keeps history and time agreed.
LEMMA Messages ==
  ASSUME ptick \in Nat, events \in Seq(EventSet), NEW m \in MouseSet,
         Told(events, m.lastclick)
  PROVE  LET g == genMouseMessage(m)
         IN  /\ g[1] \in MouseSet /\ g[1].count = m.count /\ g[1].recovery = m.recovery
             /\ events \o g[2] \in Seq(EventSet)
             /\ Told(events \o g[2], g[1].lastclick)
<1> DEFINE btns == m.flags % 8
           lost == Bit(m.flags, 64) = 1 \/ Bit(m.flags, 128) = 1
           moved == ~lost /\ (m.x # 0 \/ m.y # 0 \/ Bit(m.flags, 16) = 1 \/ Bit(m.flags, 32) = 1)
           click == IF m.lastbtn % 2 = 1 THEN "LEFT_CLICK" ELSE "RIGHT_CLICK"
           dbl == ptick - m.lastclick < DblTicks
           n == [m EXCEPT !.lastbtn = btns]
           g == genMouseMessage(m)
           Kept(p) == p \in MouseSet /\ p.count = m.count /\ p.recovery = m.recovery
           Goal == /\ Kept(g[1]) /\ events \o g[2] \in Seq(EventSet)
                   /\ Told(events \o g[2], g[1].lastclick)
<1>0. SUFFICES Goal
  BY DEF Goal, Kept, g
<1>1. /\ n \in MouseSet /\ n.count = m.count /\ n.recovery = m.recovery
      /\ n.lastclick = m.lastclick
  <2>1. m.flags \in Int /\ btns \in Int
    BY DEF MouseSet
  <2> HIDE DEF btns
  <2>2. n \in MouseSet
    BY <2>1 DEF MouseSet
  <2> QED BY <2>1, <2>2 DEF MouseSet
<1>3. Never \in Int /\ ptick \in Int /\ m.lastclick \in Int
  BY DEF Never, MouseSet
<1> HIDE DEF btns, moved, lost, click, dbl, n, g, Kept, Goal
<1>14. \A t \in MessageTypes : Event(t) \in EventSet /\ Event(t).type = t /\ Event(t).tick = ptick
  BY EventIs
<1>4. \A e1 \in EventSet : events \o <<e1>> = Append(events, e1)
  OBVIOUS
<1>5. \A e1, e2 \in EventSet : events \o <<e1, e2>> = Append(Append(events, e1), e2)
  OBVIOUS
<1>6. \A es \in Seq(EventSet), e \in EventSet : Append(es, e) \in Seq(EventSet)
  OBVIOUS
<1>7. CASE lost
  <2>1. g = <<m, <<>>>>
    BY <1>7 DEF genMouseMessage, g, lost
  <2>2. g[1] = m /\ g[2] = <<>> /\ events \o <<>> = events
    BY <2>1
  <2> QED BY <2>2 DEF Goal, Kept
<1>8. CASE ~lost /\ moved
  <2> DEFINE p == [n EXCEPT !.lastdown = Never, !.lastclick = Never]
             q == IF btns # m.lastbtn THEN <<Event("UP"), Event("MOVE")>>
                  ELSE <<Event("MOVE")>>
  <2>1. g = <<p, q>>
    BY <1>8 DEF genMouseMessage, g, lost, moved, btns, click, dbl, n
  <2>2. g[1] = p /\ g[2] = q
    BY <2>1
  <2>3. Kept(p) /\ p.lastclick = Never
    <3> HIDE DEF n
    <3> QED BY <1>1, MouseMoved DEF Kept
  <2>4. \A es \in Seq(EventSet) : \A t \in {"UP", "MOVE"} :
          Paired(es) => Paired(Append(es, Event(t)))
    <3> SUFFICES ASSUME NEW es \in Seq(EventSet), NEW t \in {"UP", "MOVE"}, Paired(es)
                 PROVE  Paired(Append(es, Event(t)))
      OBVIOUS
    <3>1. Event(t) \in EventSet /\ Event(t).type # "DBCLICK"
      BY <1>14 DEF MessageTypes, Quiet
    <3> QED BY <3>1, AppendPaired
  <2>5. Event("UP") \in EventSet /\ Event("MOVE") \in EventSet
    BY <1>14 DEF MessageTypes, Quiet
  <2>6. events \o q \in Seq(EventSet) /\ Paired(events \o q)
    <3>1. CASE btns # m.lastbtn
      <4>1. events \o q = Append(Append(events, Event("UP")), Event("MOVE"))
        BY <3>1, <1>5, <2>5
      <4> QED BY <4>1, <1>6, <2>4, <2>5 DEF Told
    <3>2. CASE btns = m.lastbtn
      <4>1. events \o q = Append(events, Event("MOVE"))
        BY <3>2, <1>4, <2>5
      <4> QED BY <4>1, <1>6, <2>4, <2>5 DEF Told
    <3> QED BY <3>1, <3>2
  <2> HIDE DEF p, q, g
  <2> QED BY <2>2, <2>3, <2>6 DEF Told, Goal
<1>9. CASE ~lost /\ ~moved /\ btns # 0
  <2> DEFINE p == [n EXCEPT !.lastdown = ptick]
  <2>1. g = <<p, <<Event("DOWN")>>>>
    BY <1>9 DEF genMouseMessage, g, lost, moved, btns, click, dbl, n
  <2>2. g[1] = p /\ g[2] = <<Event("DOWN")>>
    BY <2>1
  <2>3. Kept(p) /\ p.lastclick = m.lastclick
    <3> HIDE DEF n
    <3> QED BY <1>1, <1>3, MouseWith DEF Kept
  <2>4. Event("DOWN") \in EventSet /\ Event("DOWN").type \in Quiet
    BY <1>14 DEF Quiet, MessageTypes
  <2>5. Told(Append(events, Event("DOWN")), m.lastclick)
    BY <2>4, ToldQuiet
  <2> HIDE DEF p, g
  <2> QED BY <2>2, <2>3, <2>4, <2>5, <1>4, <1>6 DEF Goal
<1>10. CASE ~lost /\ ~moved /\ btns = 0 /\ ptick - m.lastdown < ClickTicks /\ dbl
  <2> DEFINE p == [n EXCEPT !.lastclick = Never]
  <2>1. g = <<p, <<Event("DBCLICK")>>>>
    BY <1>10 DEF genMouseMessage, g, lost, moved, btns, click, dbl, n
  <2>2. g[1] = p /\ g[2] = <<Event("DBCLICK")>>
    BY <2>1
  <2>3. Kept(p) /\ p.lastclick = Never
    <3> HIDE DEF n
    <3> QED BY <1>1, <1>3, MouseWith DEF Kept
  <2>4. Event("DBCLICK") \in EventSet /\ Event("DBCLICK").tick = ptick
    BY <1>14 DEF MessageTypes
  <2>5. m.lastclick # Never
    <3>1. DblTicks \in Int /\ DblTicks <= 1000
      BY Ps2Assumption
    <3>2. ptick >= 0 /\ ptick - m.lastclick < DblTicks
      BY <1>10 DEF dbl
    <3> QED BY <1>3, <3>1, <3>2 DEF Never
  <2>6. ClickAt(events, m.lastclick)
    BY <2>5 DEF Told
  <2>7. m.lastclick \in Nat
    <3>1. PICK j \in DOMAIN events : events[j].tick = m.lastclick
      BY <2>6 DEF ClickAt
    <3>2. events[j] \in EventSet
      BY <3>1
    <3> QED BY <3>1, <3>2 DEF EventSet
  <2>8. Paired(Append(events, Event("DBCLICK")))
    <3>1. Paired(events) /\ \E t \in Nat : ClickAt(events, t) /\ Event("DBCLICK").tick - t < DblTicks
      BY <1>10, <2>4, <2>6, <2>7 DEF Told, dbl
    <3> QED BY <3>1, <2>4, AppendPaired
  <2> HIDE DEF p, g
  <2> QED BY <2>2, <2>3, <2>4, <2>8, <1>4, <1>6 DEF Told, Goal
<1>11. CASE ~lost /\ ~moved /\ btns = 0 /\ ptick - m.lastdown < ClickTicks /\ ~dbl
  <2> DEFINE p == [n EXCEPT !.lastclick = ptick]
  <2>1. g = <<p, <<Event(click)>>>>
    BY <1>11 DEF genMouseMessage, g, lost, moved, btns, click, dbl, n
  <2>2. g[1] = p /\ g[2] = <<Event(click)>>
    BY <2>1
  <2>3. Kept(p) /\ p.lastclick = ptick
    <3> HIDE DEF n
    <3> QED BY <1>1, <1>3, MouseWith DEF Kept
  <2>4. /\ Event(click) \in EventSet /\ Event(click).tick = ptick
        /\ Event(click).type \in Clicks /\ Event(click).type # "DBCLICK"
    BY <1>14 DEF Clicks, MessageTypes, click
  <2>5. ClickAt(Append(events, Event(click)), ptick) /\ Paired(Append(events, Event(click)))
    <3>1. ClickAt(Append(events, Event(click)), Event(click).tick)
      BY <2>4, AppendClick
    <3>2. Paired(events)
      BY DEF Told
    <3>3. Paired(Append(events, Event(click)))
      BY <2>4, <3>2, AppendPaired
    <3> QED BY <2>4, <3>1, <3>3
  <2> HIDE DEF p, g, click
  <2> QED BY <2>2, <2>3, <2>4, <2>5, <1>4, <1>6 DEF Told, Goal
<1>12. CASE ~lost /\ ~moved /\ btns = 0 /\ ~(ptick - m.lastdown < ClickTicks)
  <2>1. g = <<n, <<Event("UP"), Event("unset")>>>>
    BY <1>12 DEF genMouseMessage, g, lost, moved, btns, click, dbl, n
  <2>2. g[1] = n /\ g[2] = <<Event("UP"), Event("unset")>>
    BY <2>1
  <2>4. /\ Event("UP") \in EventSet /\ Event("UP").type \in Quiet
        /\ Event("unset") \in EventSet /\ Event("unset").type \in Quiet
    BY <1>14 DEF Quiet, MessageTypes
  <2>5. /\ Append(events, Event("UP")) \in Seq(EventSet)
        /\ Append(Append(events, Event("UP")), Event("unset")) \in Seq(EventSet)
    BY <2>4, <1>6
  <2>6. Told(Append(events, Event("UP")), m.lastclick)
    BY <2>4, ToldQuiet
  <2>7. Told(Append(Append(events, Event("UP")), Event("unset")), m.lastclick)
    BY <2>4, <2>5, <2>6, ToldQuiet
  <2>8. events \o <<Event("UP"), Event("unset")>>
          = Append(Append(events, Event("UP")), Event("unset"))
    BY <2>4, <1>5
  <2> HIDE DEF n, g
  <2> QED BY <2>2, <2>5, <2>7, <2>8, <1>1 DEF Goal, Kept
<1> QED BY <1>7, <1>8, <1>9, <1>10, <1>11, <1>12

-----------------------------------------------------------------------------
(* One byte in mouseintr() *)

LEMMA ScenesAre ==
  ASSUME Ps2Shape
  PROVE  /\ scene.keys \subseteq KeyCodes
         /\ \A pk \in scene.packets : pk \in [1 .. 3 -> 0 .. 255] /\ Bit(pk[1], 8) = 1
BY Ps2Assumption DEF Ps2Shape

\* The counters alone: what the byte does to count and recovery, and that a
\* packet which is passed on starts the next one.
Rounds(m, byte, p) ==
  LET r == NextRecovery(m, byte)
  IN  /\ p \in MouseSet
      /\ r = 2 => p.count = 0 /\ p.recovery = -1
      /\ r # 2 => /\ p.recovery = r
                  /\ p.count = CASE m.count = 0 -> IF Bit(byte, 8) = 1 THEN 1 ELSE 0
                                 [] m.count = 1 -> 2
                                 [] OTHER -> 0

LEMMA Recovers ==
  ASSUME NEW m \in MouseSet, NEW byte \in 0 .. 255
  PROVE  NextRecovery(m, byte) \in -1 .. 2
BY DEF NextRecovery, MouseSet

CountOf(m, byte) ==
  CASE m.count = 0 -> IF Bit(byte, 8) = 1 THEN 1 ELSE 0
    [] m.count = 1 -> 2
    [] OTHER -> 3

\* The packet as mouse.c has it while it takes the byte.
Taking(m, byte, r) == [Counted(m, byte) EXCEPT !.recovery = r]
Dropped(p) == [p EXCEPT !.count = 0, !.recovery = -1]
Ended(p) == [p EXCEPT !.count = 0]

LEMMA Counting ==
  ASSUME NEW m \in MouseSet, NEW byte \in 0 .. 255, NEW r \in -1 .. 2,
         NEW p, p = Taking(m, byte, r)
  PROVE  /\ p.recovery = r /\ p.lastclick = m.lastclick /\ p.count = CountOf(m, byte)
         /\ Dropped(p) \in MouseSet /\ Dropped(p).lastclick = m.lastclick
         /\ Dropped(p).count = 0 /\ Dropped(p).recovery = -1
         /\ r # 2 /\ p.count # 3 => p \in MouseSet
         /\ r # 2 => /\ Ended(p) \in MouseSet /\ Ended(p).count = 0
                     /\ Ended(p).recovery = r /\ Ended(p).lastclick = m.lastclick
<1> DEFINE c == CountOf(m, byte)
           Wide == [count : 0 .. 3, recovery : -1 .. 2, flags : Int, x : Int, y : Int,
                    lastbtn : Int, lastdown : Int, lastclick : Int]
           k == Counted(m, byte)
           p0 == [p EXCEPT !.count = 0]
           pd == [p EXCEPT !.count = 0, !.recovery = -1]
<1>1. k \in Wide /\ k.count = c /\ k.lastclick = m.lastclick
  <2>1. m \in Wide
    BY DEF MouseSet
  <2>0. \A q \in Wide : \A v \in 0 .. 3 : [q EXCEPT !.count = v] \in Wide
    OBVIOUS
  <2>9. byte \in Int
    OBVIOUS
  <2>2. CASE m.count = 0 /\ Bit(byte, 8) = 1
    <3>1. k = [m EXCEPT !.count = 1, !.flags = byte] /\ c = 1
      BY <2>2 DEF Counted, CountOf
    <3> HIDE DEF k, c
    <3>2. [m EXCEPT !.count = 1, !.flags = byte] \in Wide
      <4>1. [m EXCEPT !.count = 1] \in Wide
        BY <2>0, <2>1
      <4> QED BY <2>1, <2>9, <4>1
    <3> QED BY <2>1, <3>1, <3>2
  <2>3. CASE m.count = 0 /\ Bit(byte, 8) # 1
    <3>1. k = m /\ c = 0
      BY <2>3 DEF Counted, CountOf
    <3> QED BY <2>1, <2>3, <3>1
  <2>4. CASE m.count = 1
    <3>1. k = [m EXCEPT !.count = 2, !.x = byte] /\ c = 2
      BY <2>4 DEF Counted, CountOf
    <3> HIDE DEF k, c
    <3>2. [m EXCEPT !.count = 2, !.x = byte] \in Wide
      <4>1. [m EXCEPT !.count = 2] \in Wide
        BY <2>0, <2>1
      <4> QED BY <2>1, <2>9, <4>1
    <3> QED BY <2>1, <3>1, <3>2
  <2>5. CASE m.count = 2
    <3>1. k = [m EXCEPT !.count = 3, !.y = byte] /\ c = 3
      BY <2>5 DEF Counted, CountOf
    <3> HIDE DEF k, c
    <3>2. [m EXCEPT !.count = 3, !.y = byte] \in Wide
      <4>1. [m EXCEPT !.count = 3] \in Wide
        BY <2>0, <2>1
      <4> QED BY <2>1, <2>9, <4>1
    <3> QED BY <2>1, <3>1, <3>2
  <2>6. m.count \in 0 .. 2
    BY DEF MouseSet
  <2> HIDE DEF k, c
  <2> QED BY <2>2, <2>3, <2>4, <2>5, <2>6
<1> HIDE DEF k, c
<1>6. p = [k EXCEPT !.recovery = r]
  BY DEF Taking, k
<1>2. p \in Wide /\ p.recovery = r /\ p.count = c /\ p.lastclick = m.lastclick
  <2>1. p \in Wide
    BY <1>1, <1>6
  <2> QED BY <2>1, <1>1, <1>6
<1>3. r # 2 /\ p.count # 3 => p \in MouseSet
  BY <1>2 DEF MouseSet
<1>4. /\ pd \in MouseSet
      /\ pd.count = 0 /\ pd.recovery = -1 /\ pd.lastclick = m.lastclick
  <2>2. [p EXCEPT !.count = 0] \in Wide
    BY <1>2
  <2>5. -1 \in -1 .. 2
    OBVIOUS
  <2>6. \A q \in Wide : \A v \in -1 .. 2 : [q EXCEPT !.recovery = v] \in Wide
    OBVIOUS
  <2>7. [[p EXCEPT !.count = 0] EXCEPT !.recovery = -1] \in Wide
    BY <2>2, <2>5, <2>6
  <2>3. pd \in Wide
    BY <2>7
  <2>4. pd.count = 0 /\ pd.recovery = -1 /\ pd.lastclick = m.lastclick
    BY <1>2
  <2> HIDE DEF pd
  <2>1. pd \in MouseSet
    BY <2>3, <2>4 DEF MouseSet
  <2> QED BY <2>1, <2>4
<1>5. ASSUME r # 2
      PROVE  /\ p0 \in MouseSet
             /\ p0.count = 0 /\ p0.recovery = r /\ p0.lastclick = m.lastclick
  <2>1. p0 \in MouseSet
    BY <1>2, <1>5 DEF MouseSet
  <2> QED BY <2>1, <1>2
<1> QED BY <1>2, <1>3, <1>4, <1>5 DEF c, Dropped, Ended

\* What a round of mouseintr() leaves behind.
LEMMA TakesByte ==
  ASSUME ptick \in Nat, events \in Seq(EventSet), mouse \in MouseSet,
         Told(events, mouse.lastclick), NEW byte \in 0 .. 255
  PROVE  LET t == TakeByte(byte)
         IN  /\ Rounds(mouse, byte, t[1])
             /\ events \o t[2] \in Seq(EventSet)
             /\ Told(events \o t[2], t[1].lastclick)
<1> DEFINE r == NextRecovery(mouse, byte)
           m == Taking(mouse, byte, r)
           c == CountOf(mouse, byte)
           t == TakeByte(byte)
           md == Dropped(m)
           m0 == Ended(m)
           Goal == /\ Rounds(mouse, byte, t[1])
                   /\ events \o t[2] \in Seq(EventSet)
                   /\ Told(events \o t[2], t[1].lastclick)
<1> SUFFICES Goal
  OBVIOUS
<1>1. r \in -1 .. 2
  BY Recovers
<1>2. /\ m.recovery = r /\ m.lastclick = mouse.lastclick
      /\ m.count = c
      /\ md \in MouseSet /\ md.lastclick = mouse.lastclick /\ md.count = 0 /\ md.recovery = -1
      /\ r # 2 /\ m.count # 3 => m \in MouseSet
      /\ r # 2 => /\ m0 \in MouseSet /\ m0.count = 0 /\ m0.recovery = r
                  /\ m0.lastclick = mouse.lastclick
  <2>1. m = Taking(mouse, byte, r)
    OBVIOUS
  <2> HIDE DEF r, m
  <2>2. \A p : p = Taking(mouse, byte, r) =>
          /\ p.recovery = r /\ p.lastclick = mouse.lastclick /\ p.count = CountOf(mouse, byte)
          /\ Dropped(p) \in MouseSet /\ Dropped(p).lastclick = mouse.lastclick
          /\ Dropped(p).count = 0 /\ Dropped(p).recovery = -1
          /\ r # 2 /\ p.count # 3 => p \in MouseSet
          /\ r # 2 => /\ Ended(p) \in MouseSet /\ Ended(p).count = 0
                      /\ Ended(p).recovery = r /\ Ended(p).lastclick = mouse.lastclick
    BY <1>1, Counting
  <2> QED BY <2>1, <2>2
<1>3. events \o <<>> = events
  OBVIOUS
<1>4. mouse.count \in 0 .. 2
  BY DEF MouseSet
<1>5. c = 3 <=> mouse.count = 2
  BY <1>4 DEF CountOf
<1>6. CASE r = 2
  <2>1. t = <<md, <<>>>>
    BY <1>6 DEF TakeByte, Taking, Dropped, Ended
  <2>2. t[1] = md /\ t[2] = <<>>
    BY <2>1
  <2>3. Rounds(mouse, byte, md)
    <3> HIDE DEF md
    <3> QED BY <1>2, <1>6 DEF Rounds
  <2> HIDE DEF md, t
  <2> QED BY <1>2, <1>3, <2>2, <2>3
<1>7. CASE r # 2 /\ m.count = 3
  <2>1. t = genMouseMessage(m0)
    BY <1>7 DEF TakeByte, Taking, Dropped, Ended
  <2>2. m0 \in MouseSet /\ m0.count = 0 /\ m0.recovery = r /\ Told(events, m0.lastclick)
    BY <1>2, <1>7
  <2>3. mouse.count = 2
    BY <1>2, <1>5, <1>7
  <2> HIDE DEF m0
  <2>4. /\ t[1] \in MouseSet /\ t[1].count = 0 /\ t[1].recovery = r
        /\ events \o t[2] \in Seq(EventSet)
        /\ Told(events \o t[2], t[1].lastclick)
    BY <2>1, <2>2, Messages
  <2>5. Rounds(mouse, byte, t[1])
    <3> HIDE DEF t
    <3> QED BY <2>3, <2>4, <1>7 DEF Rounds
  <2> QED BY <2>4, <2>5
<1>8. CASE r # 2 /\ m.count # 3
  <2>1. t = <<m, <<>>>>
    BY <1>8 DEF TakeByte, Taking, Dropped, Ended
  <2>2. t[1] = m /\ t[2] = <<>>
    BY <2>1
  <2>3. mouse.count # 2
    BY <1>2, <1>5, <1>8
  <2>4. m \in MouseSet
    BY <1>2, <1>8
  <2>5. Rounds(mouse, byte, m)
    <3> HIDE DEF m
    <3> QED BY <1>2, <1>4, <1>8, <2>3, <2>4 DEF Rounds, CountOf
  <2> HIDE DEF m, t
  <2> QED BY <1>2, <1>3, <2>2, <2>5
<1> QED BY <1>6, <1>7, <1>8

-----------------------------------------------------------------------------
(* The steps *)

PortBytes == 0 .. 255
ByteSet == [src : {"kbd", "mouse"}, data : PortBytes]

LEMMA FunctionIsSeq ==
  ASSUME NEW S, NEW n \in Nat, NEW f \in [1 .. n -> S]
  PROVE  f \in Seq(S) /\ Len(f) = n
<1>1. f \in Seq(S)
  BY SeqDef
<1> QED BY <1>1

LEMMA PacketIs ==
  ASSUME NEW pk \in [1 .. 3 -> 0 .. 255]
  PROVE  pk \in Seq(0 .. 255) /\ Len(pk) = 3
<1> DEFINE S == 0 .. 255
<1>1. pk \in [1 .. 3 -> S]
  OBVIOUS
<1> HIDE DEF S
<1>2. pk \in Seq(S) /\ Len(pk) = 3
  BY <1>1, FunctionIsSeq
<1> QED BY <1>2 DEF S

LEMMA KeyIs ==
  ASSUME NEW k \in KeyCodes
  PROVE  /\ k \in Seq(0 .. 255) /\ Len(k) <= 2
         /\ BreakCode(k) \in Seq(0 .. 255) /\ Len(BreakCode(k)) <= 2
<1> DEFINE S == 0 .. 255
<1>1. \A d \in 1 .. 88 : d \in S /\ d + 128 \in S
  OBVIOUS
<1>2. 224 \in S
  OBVIOUS
<1> HIDE DEF S
<1>3. \A a \in S : <<a>> \in Seq(S) /\ Len(<<a>>) = 1
  OBVIOUS
<1>4. \A a, b \in S : <<a, b>> \in Seq(S) /\ Len(<<a, b>>) = 2
  OBVIOUS
<1>5. ASSUME NEW d \in 1 .. 88, k = <<d>>, BreakCode(k) = <<d + 128>>
      PROVE  /\ k \in Seq(S) /\ Len(k) <= 2
             /\ BreakCode(k) \in Seq(S) /\ Len(BreakCode(k)) <= 2
  <2>1. <<d>> \in Seq(S) /\ Len(<<d>>) = 1
    BY <1>1, <1>3
  <2>2. <<d + 128>> \in Seq(S) /\ Len(<<d + 128>>) = 1
    BY <1>1, <1>3
  <2>3. k \in Seq(S) /\ BreakCode(k) \in Seq(S)
    BY <1>5, <2>1, <2>2
  <2>4. Len(k) = 1 /\ Len(BreakCode(k)) = 1
    BY <1>5, <2>1, <2>2
  <2> QED BY <2>3, <2>4
<1>6. ASSUME NEW d \in 1 .. 88, k = <<224, d>>, BreakCode(k) = <<224, d + 128>>
      PROVE  /\ k \in Seq(S) /\ Len(k) <= 2
             /\ BreakCode(k) \in Seq(S) /\ Len(BreakCode(k)) <= 2
  <2>1. <<224, d>> \in Seq(S) /\ Len(<<224, d>>) = 2
    BY <1>1, <1>2, <1>4
  <2>2. <<224, d + 128>> \in Seq(S) /\ Len(<<224, d + 128>>) = 2
    BY <1>1, <1>2, <1>4
  <2>3. k \in Seq(S) /\ BreakCode(k) \in Seq(S)
    BY <1>6, <2>1, <2>2
  <2>4. Len(k) = 2 /\ Len(BreakCode(k)) = 2
    BY <1>6, <2>1, <2>2
  <2> QED BY <2>3, <2>4
<1> QED BY <1>5, <1>6, CodeOf DEF S

LEMMA SendsBytes ==
  ASSUME Ps2Shape, NEW dev \in {"kbd", "mouse"}, NEW s \in Seq(0 .. 255)
  PROVE  LET t == [sending EXCEPT ![dev] = s]
         IN  /\ t \in [kbd : Seq(0 .. 255), mouse : Seq(0 .. 255)]
             /\ t.kbd = IF dev = "kbd" THEN s ELSE sending.kbd
             /\ t.mouse = IF dev = "mouse" THEN s ELSE sending.mouse
<1>1. sending \in [kbd : Seq(0 .. 255), mouse : Seq(0 .. 255)]
  BY DEF Ps2Shape
<1> QED BY <1>1

\* What the mouse's side sees of a step that is not about its bytes.
LEMMA MouseApart ==
  ASSUME FirstBytes, InStep, sending'.mouse = sending.mouse,
         mouse' = mouse, aligned' = aligned,
         port.src = "mouse" <=> port'.src = "mouse",
         port.src = "mouse" => port' = port
  PROVE  FirstBytes' /\ InStep'
<1>1. FirstBytes'
  BY DEF FirstBytes
<1>2. NextPlace' = NextPlace
  BY DEF NextPlace
<1>3. InStep'
  BY <1>2 DEF InStep
<1> QED BY <1>1, <1>3

LEMMA KeysApart ==
  ASSUME ShiftOfHeld, sending'.kbd = sending.kbd, kshift' = kshift, held' = held,
         ~astray' => ~astray,
         port.src = "kbd" <=> port'.src = "kbd",
         port.src = "kbd" => port' = port
  PROVE  ShiftOfHeld'
<1>1. ShiftToCome' = ShiftToCome
  BY DEF ShiftToCome
<1> QED BY <1>1 DEF ShiftOfHeld

KeysHave == ~astray => ShiftToCome \subseteq ShiftOf(held)

LEMMA KeysAre == ShiftOfHeld <=> KeysHave
BY DEF ShiftOfHeld, KeysHave, ShiftOf

\* What is proved of every step.
Ps2Steps == Ps2Shape /\ KeysHave /\ FirstBytes /\ InStep /\ Told(events, mouse.lastclick)

LEMMA InvIs == Ps2Inv <=> Ps2Steps
BY ToldNow, KeysAre DEF Ps2Inv, Ps2Steps

LEMMA InitSteps == Ps2Init => Ps2Steps
<1> SUFFICES ASSUME Ps2Init PROVE Ps2Steps
  OBVIOUS
<1> USE DEF Ps2Init
<1>1. Never \in Int /\ 0 \in 0 .. 2 /\ 0 \in -1 .. 1
  BY DEF Never
<1>2. Ps2Shape
  <2>1. mouse \in MouseSet
    BY <1>1 DEF MouseSet
  <2>2. sending \in [kbd : Seq(0 .. 255), mouse : Seq(0 .. 255)]
    OBVIOUS
  <2>3. events \in Seq(EventSet)
    OBVIOUS
  <2> QED BY <2>1, <2>2, <2>3 DEF Ps2Shape, MouseSet
<1>3. KeysHave
  <2>1. ShiftToCome = {}
    BY DEF ShiftToCome, GotAll, NoByte
  <2> QED BY <2>1 DEF KeysHave
<1>4. FirstBytes
  BY DEF FirstBytes, NoByte
<1>5. InStep
  <2>1. NextPlace = 0
    BY DEF NextPlace, NoByte
  <2> QED BY <2>1 DEF InStep
<1>6. Told(events, mouse.lastclick)
  BY DEF Told, Paired
<1> QED BY <1>2, <1>3, <1>4, <1>5, <1>6 DEF Ps2Steps

\* The flags once the byte in the port is read.
Pending == IF port.src = "kbd" THEN Got(kshift, port.data) ELSE kshift

LEMMA PendingIs ==
  /\ ShiftToCome = GotAll(Pending, sending.kbd)
  /\ sending.kbd = <<>> => ShiftToCome = Pending
<1>1. ShiftToCome = GotAll(Pending, sending.kbd)
  BY DEF ShiftToCome, Pending
<1>2. GotAll(Pending, <<>>) = Pending
  BY DEF GotAll
<1> QED BY <1>1, <1>2

LEMMA PressStep ==
  ASSUME Ps2Steps, NEW k \in scene.keys, press_key(k)
  PROVE  Ps2Steps'
<1> USE DEF press_key
<1>1. k \in KeyCodes
  BY ScenesAre DEF Ps2Steps
<1>2. k \in Seq(0 .. 255) /\ Len(k) <= 2
  BY <1>1, KeyIs
<1>3. /\ sending' \in [kbd : Seq(0 .. 255), mouse : Seq(0 .. 255)]
      /\ sending'.kbd = k /\ sending'.mouse = sending.mouse
  <2>1. sending' = [sending EXCEPT !["kbd"] = k]
    OBVIOUS
  <2> QED BY <1>2, <2>1, SendsBytes DEF Ps2Steps
<1>4. Ps2Shape'
  BY <1>2, <1>3 DEF Ps2Steps, Ps2Shape
<1>5. KeysHave'
  <2> SUFFICES ASSUME ~astray PROVE ShiftToCome' \subseteq ShiftOf(held')
    BY DEF KeysHave
  <2>1. Pending \subseteq ShiftOf(held)
    BY PendingIs DEF Ps2Steps, KeysHave
  <2>2. ShiftToCome' = GotAll(Pending, k)
    BY <1>3 DEF ShiftToCome, Pending
  <2>3. GotAll(Pending, k) \subseteq ShiftOf(held \cup {k})
    BY <1>1, <2>1, PressAdds
  <2> QED BY <2>2, <2>3
<1>6. FirstBytes' /\ InStep'
  BY <1>3, MouseApart DEF Ps2Steps
<1> QED BY <1>4, <1>5, <1>6 DEF Ps2Steps

LEMMA ReleaseStep ==
  ASSUME Ps2Steps, NEW k \in scene.keys, release_key(k)
  PROVE  Ps2Steps'
<1> USE DEF release_key
<1>1. k \in KeyCodes
  BY ScenesAre DEF Ps2Steps
<1> DEFINE b == BreakCode(k)
<1>2. b \in Seq(0 .. 255) /\ Len(b) <= 2
  BY <1>1, KeyIs
<1>3. /\ sending' \in [kbd : Seq(0 .. 255), mouse : Seq(0 .. 255)]
      /\ sending'.kbd = b /\ sending'.mouse = sending.mouse
  <2>1. sending' = [sending EXCEPT !["kbd"] = b]
    OBVIOUS
  <2> HIDE DEF b
  <2> QED BY <1>2, <2>1, SendsBytes DEF Ps2Steps
<1>4. Ps2Shape'
  BY <1>2, <1>3 DEF Ps2Steps, Ps2Shape
<1>5. KeysHave'
  <2> SUFFICES ASSUME ~astray PROVE ShiftToCome' \subseteq ShiftOf(held')
    BY DEF KeysHave
  <2>1. Pending \subseteq ShiftOf(held)
    BY PendingIs DEF Ps2Steps, KeysHave
  <2>2. ShiftToCome' = GotAll(Pending, b)
    BY <1>3 DEF ShiftToCome, Pending
  <2>3. GotAll(Pending, b) \subseteq ShiftOf(held \ {k})
    BY <1>1, <2>1, ReleaseRemoves
  <2> QED BY <2>2, <2>3
<1>6. FirstBytes' /\ InStep'
  BY <1>3, MouseApart DEF Ps2Steps
<1> QED BY <1>4, <1>5, <1>6 DEF Ps2Steps

LEMMA MoveStep ==
  ASSUME Ps2Steps, NEW pk \in scene.packets, move_mouse(pk)
  PROVE  Ps2Steps'
<1> USE DEF move_mouse
<1>1. pk \in [1 .. 3 -> 0 .. 255] /\ Bit(pk[1], 8) = 1
  BY ScenesAre DEF Ps2Steps
<1>2. pk \in Seq(0 .. 255) /\ Len(pk) = 3
  BY <1>1, PacketIs
<1>3. /\ sending' \in [kbd : Seq(0 .. 255), mouse : Seq(0 .. 255)]
      /\ sending'.mouse = pk /\ sending'.kbd = sending.kbd
  <2>1. sending' = [sending EXCEPT !["mouse"] = pk]
    OBVIOUS
  <2> QED BY <1>2, <2>1, SendsBytes DEF Ps2Steps
<1>8. Len(sending'.mouse) = 3 /\ Len(sending.mouse) = 0
  BY <1>2, <1>3
<1>9. port' = port /\ sending'.mouse[1] = pk[1]
  BY <1>3
<1>4. Ps2Shape'
  <2>1. Len(sending'.mouse) <= 3
    <3>1. Len(pk) <= 3
      BY <1>2
    <3> QED BY <1>3, <3>1
  <2>2. Len(sending'.kbd) <= 2
    BY <1>3 DEF Ps2Steps, Ps2Shape
  <2>3. sending' \in [kbd : Seq(0 .. 255), mouse : Seq(0 .. 255)]
    BY <1>3
  <2> QED BY <2>1, <2>2, <2>3 DEF Ps2Steps, Ps2Shape
<1>5. KeysHave'
  BY <1>3, KeysApart, KeysAre DEF Ps2Steps, KeysHave, ShiftToCome
<1>6. FirstBytes'
  BY <1>1, <1>8, <1>9 DEF FirstBytes
<1>7. InStep'
  <2>1. NextPlace' = NextPlace
    <3>1. CASE port.src = "mouse"
      <4>1. NextPlace' = (5 - 3) % 3
        BY <3>1, <1>8, <1>9 DEF NextPlace
      <4>2. NextPlace = (5 - 0) % 3
        BY <3>1, <1>8 DEF NextPlace
      <4> QED BY <4>1, <4>2
    <3>2. CASE port.src # "mouse"
      <4>1. NextPlace' = (6 - 3) % 3
        BY <3>2, <1>8, <1>9 DEF NextPlace
      <4>2. NextPlace = (6 - 0) % 3
        BY <3>2, <1>8 DEF NextPlace
      <4> QED BY <4>1, <4>2
    <3> QED BY <3>1, <3>2
  <2> QED BY <2>1 DEF Ps2Steps, InStep
<1> QED BY <1>4, <1>5, <1>6, <1>7 DEF Ps2Steps

LEMMA HeadTail ==
  ASSUME NEW S, NEW s \in Seq(S), s # <<>>
  PROVE  /\ Head(s) \in S /\ Head(s) = s[1] /\ Tail(s) \in Seq(S)
         /\ Len(s) \in Nat \ {0} /\ Len(Tail(s)) = Len(s) - 1
         /\ Len(s) >= 2 => Tail(s)[1] = s[2]
OBVIOUS

\* The byte that goes into the port and the bytes left are those there were.
LEMMA GotFirst ==
  ASSUME NEW s \in Seq(0 .. 255), s # <<>>, Len(s) <= 2, NEW flags
  PROVE  GotAll(flags, s) = GotAll(Got(flags, Head(s)), Tail(s))
<1> DEFINE t == Tail(s)
           n == Len(s)
           b == Head(s)
<1>1. /\ b = s[1] /\ n \in Nat \ {0} /\ Len(t) = n - 1 /\ (n >= 2 => t[1] = s[2])
      /\ n <= 2
  BY HeadTail
<1>2. GotAll(flags, s) = CASE n = 0 -> flags
                           [] n = 1 -> Got(flags, s[1])
                           [] OTHER -> Got(Got(flags, s[1]), s[2])
  BY DEF GotAll
<1> HIDE DEF t, n, b
<1>3. CASE n = 1
  <2>1. Len(t) = 0
    BY <1>1, <1>3
  <2>2. GotAll(Got(flags, b), t) = Got(flags, b)
    BY <2>1 DEF GotAll
  <2>3. GotAll(flags, s) = Got(flags, s[1])
    BY <1>2, <1>3
  <2> QED BY <1>1, <2>2, <2>3 DEF t, b
<1>4. CASE n = 2
  <2>1. Len(t) = 1 /\ t[1] = s[2]
    BY <1>1, <1>4
  <2>2. GotAll(Got(flags, b), t) = Got(Got(flags, b), t[1])
    BY <2>1 DEF GotAll
  <2>3. GotAll(flags, s) = Got(Got(flags, s[1]), s[2])
    BY <1>2, <1>4
  <2> QED BY <1>1, <2>1, <2>2, <2>3 DEF t, b
<1>5. n = 1 \/ n = 2
  BY <1>1
<1> QED BY <1>3, <1>4, <1>5

LEMMA LoadKbdStep ==
  ASSUME Ps2Steps, load_port("kbd")
  PROVE  Ps2Steps'
<1> USE DEF load_port
<1> DEFINE s == sending.kbd
<1>1. s \in Seq(0 .. 255) /\ s # <<>> /\ Len(s) <= 2 /\ port = NoByte
  BY DEF Ps2Steps, Ps2Shape
<1>2. Head(s) \in 0 .. 255 /\ Tail(s) \in Seq(0 .. 255) /\ Len(s) \in Nat /\ Len(Tail(s)) = Len(s) - 1
  BY <1>1, HeadTail
<1>3. /\ sending' \in [kbd : Seq(0 .. 255), mouse : Seq(0 .. 255)]
      /\ sending'.kbd = Tail(s) /\ sending'.mouse = sending.mouse
  <2> DEFINE t == Tail(s)
  <2>1. sending' = [sending EXCEPT !["kbd"] = t]
    OBVIOUS
  <2>2. t \in Seq(0 .. 255)
    BY <1>2
  <2> HIDE DEF s, t
  <2>4. \A v \in Seq(0 .. 255) :
          /\ [sending EXCEPT !["kbd"] = v] \in [kbd : Seq(0 .. 255), mouse : Seq(0 .. 255)]
          /\ [sending EXCEPT !["kbd"] = v].kbd = v
          /\ [sending EXCEPT !["kbd"] = v].mouse = sending.mouse
    <3>1. sending \in [kbd : Seq(0 .. 255), mouse : Seq(0 .. 255)]
      BY DEF Ps2Steps, Ps2Shape
    <3> QED BY <3>1
  <2>3. /\ sending' \in [kbd : Seq(0 .. 255), mouse : Seq(0 .. 255)]
        /\ sending'.kbd = t /\ sending'.mouse = sending.mouse
    BY <2>1, <2>2, <2>4
  <2> QED BY <2>3 DEF t
<1>4. port' = Byte("kbd", Head(s))
  OBVIOUS
<1> HIDE DEF s
<1>5. /\ port' \in [src : {"kbd", "mouse"}, data : 0 .. 255]
      /\ port'.src = "kbd" /\ port'.data = Head(s)
  BY <1>2, <1>4 DEF Byte
<1>6. Ps2Shape'
  <2>1. Len(sending'.kbd) <= 2
    <3>1. Len(Tail(s)) <= 2
      BY <1>1, <1>2
    <3> QED BY <1>3, <3>1
  <2> QED BY <2>1, <1>3, <1>5 DEF Ps2Steps, Ps2Shape
<1>7. KeysHave'
  <2>1. Pending = kshift /\ Pending' = Got(kshift, Head(s))
    BY <1>1, <1>5 DEF Pending, NoByte
  <2>2. ShiftToCome = GotAll(kshift, s)
    BY <2>1, PendingIs DEF s
  <2>3. ShiftToCome' = GotAll(Got(kshift, Head(s)), Tail(s))
    BY <2>1, <1>3, PendingIs DEF Pending, ShiftToCome
  <2>4. ShiftToCome' = ShiftToCome
    BY <1>1, <2>2, <2>3, GotFirst
  <2> QED BY <2>4 DEF Ps2Steps, KeysHave
<1>8. FirstBytes' /\ InStep'
  BY <1>1, <1>3, <1>5, MouseApart DEF Ps2Steps, NoByte
<1> QED BY <1>6, <1>7, <1>8 DEF Ps2Steps

LEMMA LoadMouseStep ==
  ASSUME Ps2Steps, load_port("mouse")
  PROVE  Ps2Steps'
<1> USE DEF load_port
<1> DEFINE s == sending.mouse
<1>1. s \in Seq(0 .. 255) /\ s # <<>> /\ Len(s) <= 3 /\ port = NoByte
  BY DEF Ps2Steps, Ps2Shape
<1>2. /\ Head(s) \in 0 .. 255 /\ Tail(s) \in Seq(0 .. 255)
      /\ Len(s) \in Nat \ {0} /\ Len(Tail(s)) = Len(s) - 1 /\ Head(s) = s[1]
  BY <1>1, HeadTail
<1>3. /\ sending' \in [kbd : Seq(0 .. 255), mouse : Seq(0 .. 255)]
      /\ sending'.mouse = Tail(s) /\ sending'.kbd = sending.kbd
  <2> DEFINE t == Tail(s)
  <2>1. sending' = [sending EXCEPT !["mouse"] = t]
    OBVIOUS
  <2>2. t \in Seq(0 .. 255)
    BY <1>2
  <2> HIDE DEF s, t
  <2>4. \A v \in Seq(0 .. 255) :
          /\ [sending EXCEPT !["mouse"] = v] \in [kbd : Seq(0 .. 255), mouse : Seq(0 .. 255)]
          /\ [sending EXCEPT !["mouse"] = v].mouse = v
          /\ [sending EXCEPT !["mouse"] = v].kbd = sending.kbd
    <3>1. sending \in [kbd : Seq(0 .. 255), mouse : Seq(0 .. 255)]
      BY DEF Ps2Steps, Ps2Shape
    <3> QED BY <3>1
  <2>3. /\ sending' \in [kbd : Seq(0 .. 255), mouse : Seq(0 .. 255)]
        /\ sending'.mouse = t /\ sending'.kbd = sending.kbd
    BY <2>1, <2>2, <2>4
  <2> QED BY <2>3 DEF t
<1>4. port' = Byte("mouse", Head(s))
  OBVIOUS
<1> HIDE DEF s
<1>5. /\ port' \in [src : {"kbd", "mouse"}, data : 0 .. 255]
      /\ port'.src = "mouse" /\ port'.data = Head(s)
  BY <1>2, <1>4 DEF Byte
<1>6. Len(sending'.mouse) = Len(s) - 1 /\ Len(sending.mouse) = Len(s)
  BY <1>2, <1>3 DEF s
<1> DEFINE n == Len(s)
<1>11. n \in 1 .. 3 /\ Len(sending'.mouse) = n - 1
  <2>1. n \in Nat \ {0} /\ n <= 3
    BY <1>1, <1>2
  <2>2. Len(sending'.mouse) = n - 1
    BY <1>6
  <2> HIDE DEF n
  <2> QED BY <2>1, <2>2
<1> HIDE DEF n
<1>7. Ps2Shape'
  <2>1. Len(sending'.mouse) <= 3
    <3>1. Len(Tail(s)) <= 3
      BY <1>1, <1>2
    <3> QED BY <1>3, <3>1
  <2> QED BY <2>1, <1>3, <1>5 DEF Ps2Steps, Ps2Shape
<1>8. KeysHave'
  <2>1. ShiftToCome' = ShiftToCome
    BY <1>1, <1>3, <1>5 DEF ShiftToCome, NoByte
  <2> QED BY <2>1 DEF Ps2Steps, KeysHave
<1>9. FirstBytes'
  <2>1. Len(s) = 3 => Bit(s[1], 8) = 1
    BY DEF Ps2Steps, FirstBytes, s
  <2>5. n - 1 # 3
    BY <1>11
  <2>2. Len(sending'.mouse) # 3
    BY <1>11, <2>5
  <2>4. n - 1 = 2 => n = 3
    BY <1>11
  <2>3. Len(sending'.mouse) = 2 => Len(s) = 3
    BY <1>11, <2>4 DEF n
  <2> QED BY <1>2, <1>5, <2>1, <2>2, <2>3 DEF FirstBytes
<1>10. InStep'
  <2>1. NextPlace' = (5 - (Len(s) - 1)) % 3
    BY <1>5, <1>6 DEF NextPlace
  <2>2. NextPlace = (6 - Len(s)) % 3
    BY <1>1, <1>6 DEF NextPlace, NoByte
  <2>3. NextPlace' = NextPlace
    <3>1. 5 - (Len(s) - 1) = 6 - Len(s)
      BY <1>2
    <3> QED BY <2>1, <2>2, <3>1
  <2> QED BY <2>3 DEF Ps2Steps, InStep
<1> QED BY <1>7, <1>8, <1>9, <1>10 DEF Ps2Steps

LEMMA StillStep ==
  ASSUME Ps2Steps, UNCHANGED <<scene, port, sending, held, kshift, mouse, events, aligned, astray>>,
         ptick' \in Nat
  PROVE  Ps2Steps'
<1>1. Ps2Shape'
  BY DEF Ps2Steps, Ps2Shape
<1>2. KeysHave'
  BY DEF Ps2Steps, KeysHave, ShiftToCome
<1>3. FirstBytes' /\ InStep'
  BY MouseApart DEF Ps2Steps
<1> QED BY <1>1, <1>2, <1>3 DEF Ps2Steps

\* kbdintr() applies the byte of its own device; any other sends bytes astray.
LEMMA KbdStep ==
  ASSUME Ps2Steps, kbdintr
  PROVE  Ps2Steps'
<1> USE DEF kbdintr
<1>1. port' = NoByte /\ port'.src = "none" /\ sending' = sending
  BY DEF NoByte
<1>2. Ps2Shape'
  BY <1>1 DEF Ps2Steps, Ps2Shape
<1>3. KeysHave'
  <2> SUFFICES ASSUME ~astray' PROVE ShiftToCome' \subseteq ShiftOf(held')
    BY DEF KeysHave
  <2>1. ~astray /\ port.src # "mouse"
    OBVIOUS
  <2>2. kshift' = Pending
    <3>1. CASE port = NoByte
      BY <3>1 DEF Pending, NoByte
    <3>2. CASE port # NoByte
      <4>1. port.src = "kbd" /\ kshift' = kbdgetc(port.data)
        BY <2>1, <3>2 DEF Ps2Steps, Ps2Shape
      <4>2. kbdgetc(port.data) = Got(kshift, port.data)
        BY DEF kbdgetc, Got
      <4> QED BY <4>1, <4>2 DEF Pending
    <3> QED BY <3>1, <3>2
  <2>3. Pending' = Pending
    BY <1>1, <2>2 DEF Pending
  <2>4. ShiftToCome' = ShiftToCome
    BY <1>1, <2>3, PendingIs DEF ShiftToCome, Pending
  <2> QED BY <2>1, <2>4 DEF Ps2Steps, KeysHave
<1>4. FirstBytes'
  BY <1>1 DEF Ps2Steps, FirstBytes
<1>5. InStep'
  <2>1. CASE port.src = "mouse"
    <3>1. aligned' = -1
      BY <2>1
    <3> QED BY <3>1 DEF InStep
  <2>2. CASE port.src # "mouse"
    BY <1>1, <2>2, MouseApart DEF Ps2Steps
  <2> QED BY <2>1, <2>2
<1> QED BY <1>2, <1>3, <1>4, <1>5 DEF Ps2Steps

-----------------------------------------------------------------------------
(* A byte taken by mouse.c *)

\* A byte of another device: nothing is said of the place from here on.
LEMMA StrayByteStep ==
  ASSUME Ps2Steps, mouse_byte, port.src = "kbd"
  PROVE  KeysHave' /\ FirstBytes' /\ InStep'
<1> USE DEF mouse_byte
<1>1. astray' /\ aligned' = -1 /\ port' = NoByte
  OBVIOUS
<1>2. KeysHave'
  BY <1>1 DEF KeysHave
<1>3. FirstBytes'
  BY <1>1 DEF Ps2Steps, FirstBytes, NoByte
<1>4. InStep'
  BY <1>1 DEF InStep
<1> QED BY <1>2, <1>3, <1>4

\* Where a byte of the mouse stands in its packet.
LEMMA PlaceOf ==
  ASSUME port.src = "mouse", Len(sending.mouse) \in 0 .. 3
  PROVE  /\ NextPlace \in 0 .. 2
         /\ (6 - Len(sending.mouse)) % 3 = (NextPlace + 1) % 3
         /\ NextPlace = 0 <=> Len(sending.mouse) = 2
<1> DEFINE n == Len(sending.mouse)
<1> SUFFICES /\ NextPlace \in 0 .. 2
             /\ (6 - n) % 3 = (NextPlace + 1) % 3
             /\ NextPlace = 0 <=> n = 2
  OBVIOUS
<1>1. NextPlace = (5 - n) % 3
  BY DEF NextPlace
<1>2. n \in 0 .. 3
  OBVIOUS
<1> HIDE DEF n
<1>3. CASE n = 0
  <2>1. NextPlace = 2 /\ (6 - n) % 3 = 0
    BY <1>1, <1>3
  <2>2. (NextPlace + 1) % 3 = 0
    BY <2>1
  <2> QED BY <2>1, <2>2, <1>3
<1>4. CASE n = 1
  <2>1. NextPlace = 1 /\ (6 - n) % 3 = 2
    BY <1>1, <1>4
  <2>2. (NextPlace + 1) % 3 = 2
    BY <2>1
  <2> QED BY <2>1, <2>2, <1>4
<1>5. CASE n = 2
  <2>1. NextPlace = 0 /\ (6 - n) % 3 = 1
    BY <1>1, <1>5
  <2>2. (NextPlace + 1) % 3 = 1
    BY <2>1
  <2> QED BY <2>1, <2>2, <1>5
<1>6. CASE n = 3
  <2>1. NextPlace = 2 /\ (6 - n) % 3 = 0
    BY <1>1, <1>6
  <2>2. (NextPlace + 1) % 3 = 0
    BY <2>1
  <2> QED BY <2>1, <2>2, <1>6
<1> QED BY <1>2, <1>3, <1>4, <1>5, <1>6

\* A byte with bit 3 is neither 0 nor the end of the packet 12, 0, 0.
LEMMA FirstByteIs ==
  ASSUME NEW m \in MouseSet, NEW byte \in 0 .. 255, Bit(byte, 8) = 1
  PROVE  byte # 0 /\ NextRecovery(m, byte) \in -1 .. 0
<1>1. byte # 0
  BY DEF Bit
<1> QED BY <1>1 DEF NextRecovery

\* In step, or at the same place of 12, 0, 0, before the byte and after it.
LEMMA InStepAfter ==
  ASSUME Ps2Steps, mouse_byte, port.src = "mouse", Rounds(mouse, port.data, mouse')
  PROVE  InStep'
<1> USE DEF mouse_byte
<1> DEFINE d == port.data
           r == NextRecovery(mouse, d)
           n == Len(sending.mouse)
           place == NextPlace
           place1 == NextPlace'
<1>1. /\ d \in 0 .. 255 /\ mouse \in MouseSet /\ mouse' \in MouseSet
      /\ mouse.count \in 0 .. 2 /\ mouse.recovery \in -1 .. 1
      /\ mouse'.count \in 0 .. 2 /\ mouse'.recovery \in -1 .. 1
  BY DEF Ps2Steps, Ps2Shape, MouseSet, NoByte, Rounds
<1>2. n \in 0 .. 3
  <2>1. sending.mouse \in Seq(0 .. 255) /\ n <= 3
    BY DEF Ps2Steps, Ps2Shape
  <2>2. n \in Nat
    BY <2>1
  <2> HIDE DEF n
  <2> QED BY <2>1, <2>2
<1>3. port' = NoByte /\ sending' = sending /\ aligned' = Aligned(d)
  OBVIOUS
<1>4. place1 = (6 - n) % 3
  BY <1>3 DEF NextPlace, NoByte
<1>5. place \in 0 .. 2 /\ place1 = (place + 1) % 3 /\ (place = 0 <=> n = 2)
  BY <1>2, <1>4, PlaceOf
<1>6. n = 2 => Bit(d, 8) = 1
  BY DEF Ps2Steps, FirstBytes
<1>7. /\ aligned \in -3 .. 2
      /\ aligned >= 0 => place = aligned /\ mouse.count = aligned
      /\ aligned = 1 => mouse.recovery # 1
      /\ aligned = -2 => place = 1 /\ mouse.recovery = 0
      /\ aligned = -3 => place = 2 /\ mouse.recovery = 1
  BY DEF Ps2Steps, InStep
<1>8. aligned' = CASE aligned >= 0 -> (aligned + 1) % 3
                   [] aligned = -1 /\ d = 12 /\ n = 2 -> -2
                   [] aligned = -2 /\ d = 0 -> -3
                   [] aligned = -3 /\ d = 0 -> 0
                   [] OTHER -> -1
  BY <1>3 DEF Aligned
<1>9. r = CASE mouse.recovery \in {0, 1} /\ d = 0 -> mouse.recovery + 1
            [] d = 12 -> 0
            [] OTHER -> -1
  BY DEF NextRecovery
<1>10. /\ r = 2 => mouse'.count = 0 /\ mouse'.recovery = -1
       /\ r # 2 => /\ mouse'.recovery = r
                   /\ mouse.count = 0 /\ Bit(d, 8) = 1 => mouse'.count = 1
                   /\ mouse.count = 1 => mouse'.count = 2
                   /\ mouse.count = 2 => mouse'.count = 0
  <2>1. mouse.count \in 0 .. 2
    BY <1>1
  <2> QED BY <2>1 DEF Rounds
<1>11. Bit(d, 8) = 1 => d # 0 /\ r \in -1 .. 0
  BY <1>1, FirstByteIs
<1> SUFFICES /\ aligned' \in -3 .. 2
             /\ aligned' >= 0 => place1 = aligned' /\ mouse'.count = aligned'
             /\ aligned' = 1 => mouse'.recovery # 1
             /\ aligned' = -2 => place1 = 1 /\ mouse'.recovery = 0
             /\ aligned' = -3 => place1 = 2 /\ mouse'.recovery = 1
  BY DEF InStep
<1> HIDE DEF d, r, n, place, place1, mouse_byte
<1>12. CASE aligned = 0
  BY <1>12, <1>5, <1>6, <1>7, <1>8, <1>10, <1>11
<1>13. CASE aligned = 1
  <2>1. r # 2
    BY <1>1, <1>7, <1>9, <1>13
  <2> QED BY <1>13, <2>1, <1>5, <1>7, <1>8, <1>10
<1>14. CASE aligned = 2
  BY <1>14, <1>5, <1>7, <1>8, <1>10
<1>15. CASE aligned = -1
  <2>1. CASE d = 12 /\ n = 2
    <3>1. r = 0 /\ aligned' = -2
      BY <2>1, <1>8, <1>9, <1>15
    <3> QED BY <3>1, <2>1, <1>5, <1>10
  <2>2. CASE ~(d = 12 /\ n = 2)
    BY <2>2, <1>8, <1>15
  <2> QED BY <2>1, <2>2
<1>16. CASE aligned = -2
  <2>1. CASE d = 0
    <3>1. r = 1 /\ aligned' = -3
      BY <2>1, <1>7, <1>8, <1>9, <1>16
    <3> QED BY <3>1, <1>5, <1>7, <1>10, <1>16
  <2>2. CASE d # 0
    BY <2>2, <1>8, <1>16
  <2> QED BY <2>1, <2>2
<1>17. CASE aligned = -3
  <2>1. CASE d = 0
    <3>1. r = 2 /\ aligned' = 0
      BY <2>1, <1>7, <1>8, <1>9, <1>17
    <3> QED BY <3>1, <1>5, <1>7, <1>10, <1>17
  <2>2. CASE d # 0
    BY <2>2, <1>8, <1>17
  <2> QED BY <2>1, <2>2
<1> QED BY <1>7, <1>12, <1>13, <1>14, <1>15, <1>16, <1>17

LEMMA MouseByteStep ==
  ASSUME Ps2Steps, mouse_byte
  PROVE  Ps2Steps'
<1> USE DEF mouse_byte
<1> DEFINE d == port.data
<1>1. port \in [src : {"kbd", "mouse"}, data : 0 .. 255] /\ d \in 0 .. 255
  BY DEF Ps2Steps, Ps2Shape
<1>2. /\ ptick \in Nat /\ events \in Seq(EventSet) /\ mouse \in MouseSet
      /\ Told(events, mouse.lastclick)
  BY DEF Ps2Steps, Ps2Shape, MouseSet
<1>3. /\ Rounds(mouse, d, TakeByte(d)[1])
      /\ events \o TakeByte(d)[2] \in Seq(EventSet)
      /\ Told(events \o TakeByte(d)[2], TakeByte(d)[1].lastclick)
  <2> HIDE DEF d
  <2> QED BY <1>1, <1>2, TakesByte
<1>4. /\ mouse' = TakeByte(d)[1] /\ events' = events \o TakeByte(d)[2]
      /\ port' = NoByte /\ sending' = sending
  OBVIOUS
<1>5. Rounds(mouse, d, mouse') /\ events' \in Seq(EventSet) /\ Told(events', mouse'.lastclick)
  BY <1>3, <1>4
<1>6. Ps2Shape'
  BY <1>4, <1>5 DEF Ps2Steps, Ps2Shape, Rounds, MouseSet
<1>7. KeysHave' /\ FirstBytes' /\ InStep'
  <2>1. CASE port.src = "kbd"
    BY <2>1, StrayByteStep
  <2>2. CASE port.src = "mouse"
    <3>1. InStep'
      BY <1>5, <2>2, InStepAfter
    <3>2. port'.src = "none"
      BY <1>4 DEF NoByte
    <3>3. FirstBytes'
      BY <3>2 DEF Ps2Steps, FirstBytes
    <3>4. ShiftToCome' = ShiftToCome
      BY <2>2, <3>2 DEF ShiftToCome
    <3>5. KeysHave'
      BY <2>2, <3>4 DEF Ps2Steps, KeysHave
    <3> QED BY <3>1, <3>3, <3>5
  <2> QED BY <1>1, <2>1, <2>2
<1> QED BY <1>5, <1>6, <1>7 DEF Ps2Steps

LEMMA Ps2Step == Ps2Steps /\ [Ps2Next]_ps2Vars => Ps2Steps'
<1> SUFFICES ASSUME Ps2Steps, [Ps2Next]_ps2Vars PROVE Ps2Steps'
  OBVIOUS
<1>1. ASSUME NEW k \in scene.keys, press_key(k) PROVE Ps2Steps'
  BY <1>1, PressStep
<1>2. ASSUME NEW k \in scene.keys, release_key(k) PROVE Ps2Steps'
  BY <1>2, ReleaseStep
<1>3. ASSUME NEW pk \in scene.packets, move_mouse(pk) PROVE Ps2Steps'
  BY <1>3, MoveStep
<1>4. ASSUME NEW dev \in {"kbd", "mouse"}, load_port(dev) PROVE Ps2Steps'
  BY <1>4, LoadKbdStep, LoadMouseStep
<1>5. ptick \in Nat
  BY DEF Ps2Steps, Ps2Shape
<1>6. CASE clock_tick
  <2>1. ptick' \in Nat
    BY <1>5, <1>6 DEF clock_tick
  <2> QED BY <2>1, <1>6, StillStep DEF clock_tick
<1>7. CASE kbdintr
  BY <1>7, KbdStep
<1>8. CASE mouseintr
  BY <1>5, <1>8, StillStep DEF mouseintr
<1>9. CASE mouse_byte
  BY <1>9, MouseByteStep
<1>10. CASE mouse_done
  BY <1>5, <1>10, StillStep DEF mouse_done
<1>11. CASE UNCHANGED ps2Vars
  BY <1>5, <1>11, StillStep DEF ps2Vars
<1> QED
  BY <1>1, <1>2, <1>3, <1>4, <1>6, <1>7, <1>8, <1>9, <1>10, <1>11 DEF Ps2Next

-----------------------------------------------------------------------------
(* The theorems of kbd.c and mouse.c *)

\* The flags of kbdgetc() are those of the keys held, once the bytes on their
\* way are read; mouseintr() is at the byte the mouse is at, or recovers with
\* it; the times of clicks agree with the messages passed on.
THEOREM Ps2Invariant == Ps2Spec => []Ps2Inv
<1>1. Ps2Init => Ps2Inv
  BY InitSteps, InvIs
<1>2. Ps2Inv /\ [Ps2Next]_ps2Vars => Ps2Inv'
  <2>1. Ps2Inv' <=> Ps2Steps'
    BY InvIs, PTL
  <2> QED BY <2>1, InvIs, Ps2Step
<1> QED BY <1>1, <1>2, PTL DEF Ps2Spec

\* No modifier sticks: with all keys up and heard, extended ones included, only
\* the locks are left in shift of kbdgetc().
THEOREM ModifiersComeUp == Ps2Spec => []NoStuckModifier
<1>1. Ps2Inv => NoStuckModifier
  <2> SUFFICES ASSUME Ps2Inv, held = {}, ~astray, sending.kbd = <<>>, port.src # "kbd"
               PROVE  kshift \subseteq {"CAPSLOCK"}
    BY DEF NoStuckModifier
  <2>1. ShiftToCome = kshift
    BY PendingIs DEF Pending
  <2>2. ShiftToCome \subseteq {"CAPSLOCK"}
    BY DEF Ps2Inv, ShiftOfHeld
  <2> QED BY <2>1, <2>2
<1> QED BY <1>1, Ps2Invariant, PTL

\* mouseintr() takes every byte for what it is until one goes astray and again
\* after 12, 0, 0, and genMouseMessage() reports a double click for two clicks
\* on one spot only.
THEOREM MouseMessagesMean == Ps2Spec => []MouseMessages
<1>1. Ps2Inv => MouseMessages
  BY DEF Ps2Inv, InStep, MouseMessages, MouseInSync
<1> QED BY <1>1, Ps2Invariant, PTL
=============================================================================
