----------------------------- MODULE FileProofs -----------------------------
(***************************************************************************)
(* Proofs about the file system: the reference counts of the inode cache   *)
(* and of the file table are those of who refers to them, for any finite   *)
(* set of processes, any programs, and tables, files and disks of any      *)
(* size.                                                                   *)
(***************************************************************************)
EXTENDS FileSystem, TLAPS, WellFoundedInduction, FiniteSetTheorems, SequenceTheorems

-----------------------------------------------------------------------------
(* Counting *)

LEMMA LeastIn ==
  ASSUME NEW S, S \subseteq Nat, S # {}
  PROVE  Min(S) \in S
<1>1. PICK n \in S : \A m \in S : ~(<<m, n>> \in OpToRel(<, Nat))
  BY NatLessThanWellFounded, WFMin
<1>2. ASSUME NEW m \in S, m < n PROVE FALSE
  <2>1. <<m, n>> \in Nat \X Nat /\ <<m, n>>[1] < <<m, n>>[2]
    BY <1>2
  <2>2. <<m, n>> \in OpToRel(<, Nat)
    BY <2>1 DEF OpToRel
  <2> QED BY <1>1, <2>2
<1>3. \A m \in S : n <= m
  BY <1>2
<1> QED BY <1>3 DEF Min

Is(b) == IF b THEN 1 ELSE 0

LEMMA WithElement ==
  ASSUME NEW R, NEW x, NEW V, IsFiniteSet(R), x \notin R, V = R \cup {x} \/ V = R
  PROVE  /\ IsFiniteSet(V) /\ Cardinality(V) \in Nat /\ Cardinality(R) \in Nat
         /\ Cardinality(V) = Cardinality(R) + Is(x \in V)
<1>1. /\ IsFiniteSet(R \cup {x}) /\ Cardinality(R \cup {x}) = Cardinality(R) + 1
  BY FS_AddElement
<1>2. Cardinality(R) \in Nat
  BY FS_CardinalityType
<1>3. CASE V = R \cup {x}
  <2>1. x \in V /\ Is(x \in V) = 1
    BY <1>3 DEF Is
  <2> QED BY <1>1, <1>2, <1>3, <2>1
<1>4. CASE V = R
  <2>1. Is(x \in V) = 0
    BY <1>4 DEF Is
  <2> QED BY <1>2, <1>4, <2>1
<1> QED BY <1>3, <1>4

\* Two sets that differ in what they say of one element.
LEMMA OneMember ==
  ASSUME NEW S, NEW T, NEW x, IsFiniteSet(S), \A y : y # x => (y \in S <=> y \in T)
  PROVE  /\ IsFiniteSet(T) /\ Cardinality(S) \in Nat /\ Cardinality(T) \in Nat
         /\ Cardinality(T) + Is(x \in S) = Cardinality(S) + Is(x \in T)
<1> DEFINE R == S \ {x}
<1>1. IsFiniteSet(R) /\ x \notin R
  BY FS_RemoveElement
<1>2. /\ S = R \cup {x} \/ S = R
      /\ T = R \cup {x} \/ T = R
  OBVIOUS
<1> HIDE DEF R
<1>3. /\ IsFiniteSet(S) /\ Cardinality(S) \in Nat /\ Cardinality(R) \in Nat
      /\ Cardinality(S) = Cardinality(R) + Is(x \in S)
  BY <1>1, <1>2, WithElement
<1>4. /\ IsFiniteSet(T) /\ Cardinality(T) \in Nat
      /\ Cardinality(T) = Cardinality(R) + Is(x \in T)
  BY <1>1, <1>2, WithElement
<1>5. Is(x \in S) \in Nat /\ Is(x \in T) \in Nat
  BY DEF Is
<1> QED BY <1>3, <1>4, <1>5

Row(S, K, p) == {k \in K : <<p, k>> \in S}

\* Two sets of pairs that differ in those of one first element.
LEMMA OneRow ==
  ASSUME NEW P, NEW K, IsFiniteSet(P), IsFiniteSet(K), NEW p \in P,
         NEW S \in SUBSET (P \X K), NEW T \in SUBSET (P \X K),
         \A q \in P \ {p} : \A k \in K : <<q, k>> \in S <=> <<q, k>> \in T
  PROVE  /\ Cardinality(S) \in Nat /\ Cardinality(T) \in Nat
         /\ Cardinality(Row(S, K, p)) \in Nat /\ Cardinality(Row(T, K, p)) \in Nat
         /\ Cardinality(T) + Cardinality(Row(S, K, p)) = Cardinality(S) + Cardinality(Row(T, K, p))
<1> DEFINE R == {x \in S : x[1] # p}
           row(V) == {k \in K : <<p, k>> \in V}
           at(V) == {x \in V : x[1] = p}
<1>1. IsFiniteSet(P \X K)
  BY FS_Product
<1>2. ASSUME NEW V \in SUBSET (P \X K)
      PROVE  /\ IsFiniteSet(V) /\ IsFiniteSet(at(V)) /\ IsFiniteSet(row(V))
             /\ Cardinality(V) \in Nat /\ Cardinality(row(V)) \in Nat
             /\ Cardinality(at(V)) = Cardinality(row(V))
  <2>1. IsFiniteSet(V)
    BY <1>1, FS_Subset
  <2>2. IsFiniteSet(at(V))
    BY <2>1, FS_Subset
  <2>3. IsFiniteSet(row(V))
    BY FS_Subset
  <2> DEFINE f == [k \in row(V) |-> <<p, k>>]
  <2>4. f \in Bijection(row(V), at(V))
    <3>1. f \in [row(V) -> at(V)]
      OBVIOUS
    <3>2. \A k, j \in row(V) : f[k] = f[j] => k = j
      OBVIOUS
    <3>3. \A x \in at(V) : \E k \in row(V) : f[k] = x
      <4> TAKE x \in at(V)
      <4>1. x \in P \X K /\ x = <<x[1], x[2]>> /\ x[1] = p /\ x[2] \in K
        OBVIOUS
      <4>2. x[2] \in row(V) /\ f[x[2]] = x
        BY <4>1
      <4> QED BY <4>2
    <3> HIDE DEF f
    <3> QED BY <3>1, <3>2, <3>3 DEF Bijection, Injection, Surjection, IsInjective
  <2>5. Cardinality(at(V)) = Cardinality(row(V))
    BY <2>3, <2>4, FS_Bijection DEF ExistsBijection
  <2> QED BY <2>1, <2>2, <2>3, <2>5, FS_CardinalityType
<1>3. ASSUME NEW V \in SUBSET (P \X K), R = {x \in V : x[1] # p}
      PROVE  Cardinality(V) = Cardinality(R) + Cardinality(at(V)) /\ Cardinality(R) \in Nat
  <2> DEFINE A == at(V)
  <2>1. V = R \cup A /\ R \cap A = {}
    BY <1>3
  <2>2. IsFiniteSet(R) /\ IsFiniteSet(A)
    BY <1>2, FS_Subset
  <2> HIDE DEF R, A
  <2>3. Cardinality(R \cap A) = 0
    BY <2>1, FS_EmptySet
  <2>4. Cardinality(R \cup A) = Cardinality(R) + Cardinality(A) - Cardinality(R \cap A)
    BY <2>2, FS_Union
  <2>5. Cardinality(R) \in Nat /\ Cardinality(A) \in Nat
    BY <2>2, FS_CardinalityType
  <2>6. Cardinality(V) = Cardinality(R) + Cardinality(A)
    BY <2>1, <2>3, <2>4, <2>5
  <2> QED BY <2>5, <2>6 DEF A
<1>4. R = {x \in T : x[1] # p}
  <2>1. \A x \in P \X K : x[1] # p => (x \in S <=> x \in T)
    <3> TAKE x \in P \X K
    <3>1. x = <<x[1], x[2]>> /\ x[1] \in P /\ x[2] \in K
      OBVIOUS
    <3> QED BY <3>1
  <2> QED BY <2>1
<1>5. Cardinality(S) = Cardinality(R) + Cardinality(at(S)) /\ Cardinality(R) \in Nat
  BY <1>3
<1>6. Cardinality(T) = Cardinality(R) + Cardinality(at(T))
  BY <1>3, <1>4
<1>7. /\ Cardinality(S) \in Nat /\ Cardinality(T) \in Nat
      /\ Cardinality(row(S)) \in Nat /\ Cardinality(row(T)) \in Nat
      /\ Cardinality(at(S)) = Cardinality(row(S)) /\ Cardinality(at(T)) = Cardinality(row(T))
  BY <1>2
<1> QED BY <1>5, <1>6, <1>7 DEF Row

\* A set of numbers, counted one by one.
LEMMA CountOne ==
  ASSUME NEW S, NEW n \in Nat
  PROVE  /\ IsFiniteSet(S \cap (1 .. n)) /\ Cardinality(S \cap (1 .. n)) \in Nat
         /\ Cardinality(S \cap (1 .. n + 1)) = Cardinality(S \cap (1 .. n)) + Is(n + 1 \in S)
<1> DEFINE R == S \cap (1 .. n)
           V == S \cap (1 .. n + 1)
<1>1. IsFiniteSet(1 .. n)
  BY FS_Interval
<1>2. IsFiniteSet(R)
  BY <1>1, FS_Subset
<1>3. n + 1 \notin R /\ (n + 1 \in V <=> n + 1 \in S)
  OBVIOUS
<1>4. V = R \cup {n + 1} \/ V = R
  <2>1. 1 .. n + 1 = (1 .. n) \cup {n + 1}
    OBVIOUS
  <2> QED BY <2>1
<1> HIDE DEF R, V
<1>5. Cardinality(R) \in Nat /\ Cardinality(V) = Cardinality(R) + Is(n + 1 \in V)
  BY <1>2, <1>3, <1>4, WithElement
<1>6. Is(n + 1 \in V) = Is(n + 1 \in S)
  BY <1>3 DEF Is
<1> QED BY <1>2, <1>5, <1>6 DEF R, V

LEMMA CountSix ==
  ASSUME NEW S \in SUBSET (1 .. 6)
  PROVE  /\ Cardinality(S) = Is(1 \in S) + Is(2 \in S) + Is(3 \in S) + Is(4 \in S)
                             + Is(5 \in S) + Is(6 \in S)
         /\ S \subseteq 1 .. 2 => Cardinality(S) = Is(1 \in S) + Is(2 \in S)
<1> DEFINE C(n) == Cardinality(S \cap (1 .. n))
<1>0. \A k \in 1 .. 6 : Is(k \in S) \in Nat
  BY DEF Is
<1>1. \A n \in Nat : C(n) \in Nat /\ C(n + 1) = C(n) + Is(n + 1 \in S)
  BY CountOne
<1>2. C(0) = 0
  <2>1. S \cap (1 .. 0) = {}
    OBVIOUS
  <2> QED BY <2>1, FS_EmptySet
<1>3. C(6) = Cardinality(S) /\ (S \subseteq 1 .. 2 => C(2) = Cardinality(S))
  <2>1. S \cap (1 .. 6) = S /\ (S \subseteq 1 .. 2 => S \cap (1 .. 2) = S)
    OBVIOUS
  <2> QED BY <2>1
<1> HIDE DEF C
<1>4. /\ C(1) = C(0) + Is(1 \in S) /\ C(2) = C(1) + Is(2 \in S) /\ C(3) = C(2) + Is(3 \in S)
      /\ C(4) = C(3) + Is(4 \in S) /\ C(5) = C(4) + Is(5 \in S) /\ C(6) = C(5) + Is(6 \in S)
  <2>1. 0 + 1 = 1 /\ 1 + 1 = 2 /\ 2 + 1 = 3 /\ 3 + 1 = 4 /\ 4 + 1 = 5 /\ 5 + 1 = 6
    OBVIOUS
  <2> QED BY <1>1, <2>1
<1> QED BY <1>0, <1>1, <1>2, <1>3, <1>4

\* How often x is among two elements at most, and among the references of a
\* process whose directory is c and whose call is t.
SeqTally(q, x) == Is(Len(q) >= 1 /\ q[1] = x) + Is(Len(q) >= 2 /\ q[2] = x)
Tally(c, t, x) == Is(c = x) + Is(t.ip = x) + Is(t.dp = x) + Is(t.old = x) + SeqTally(t.puts, x)

LEMMA TallyNat ==
  /\ \A q, x : SeqTally(q, x) \in Nat
  /\ \A c, t, x : Tally(c, t, x) \in Nat
BY DEF SeqTally, Tally, Is

LEMMA TallyOfFiles ==
  ASSUME NEW Q, NEW q \in Seq(Q), Len(q) <= 2, NEW x
  PROVE  Cardinality({n \in 1 .. 2 : n <= Len(q) /\ q[n] = x}) = SeqTally(q, x)
<1> DEFINE S == {n \in 1 .. 2 : n <= Len(q) /\ q[n] = x}
<1>1. S \in SUBSET (1 .. 6) /\ S \subseteq 1 .. 2
  OBVIOUS
<1>2. /\ 1 \in S <=> Len(q) >= 1 /\ q[1] = x
      /\ 2 \in S <=> Len(q) >= 2 /\ q[2] = x
  OBVIOUS
<1> HIDE DEF S
<1>3. Cardinality(S) = Is(1 \in S) + Is(2 \in S)
  BY <1>1, CountSix
<1> QED BY <1>2, <1>3 DEF S, SeqTally, Is

LEMMA TallyOfReferred ==
  ASSUME NEW c \in {0} \cup Slots, NEW t, CallShape(t), NEW x
  PROVE  Cardinality({n \in 1 .. 6 : n <= Len(References(c, t)) /\ References(c, t)[n] = x})
           = Tally(c, t, x)
<1> DEFINE r == References(c, t)
           S == {n \in 1 .. 6 : n <= Len(r) /\ r[n] = x}
           q == t.puts
           A == {0} \cup Slots
<1>1. q \in Seq(A) /\ Len(q) \in 0 .. 2 /\ Len(q) \in Nat
  <2>1. q \in Seq(A) /\ Len(q) <= 2
    BY Zenon DEF CallShape
  <2> HIDE DEF A, q, S
  <2>2. Len(q) \in Nat
    BY <2>1
  <2> DEFINE n == Len(q)
  <2>3. n \in Nat /\ n <= 2
    BY <2>1, <2>2
  <2> HIDE DEF n
  <2>4. n \in 0 .. 2
    BY <2>3
  <2> QED BY <2>1, <2>2, <2>4 DEF n
<1>2. <<c, t.ip, t.dp, t.old>> \in Seq(A) /\ Len(<<c, t.ip, t.dp, t.old>>) = 4
  BY DEF CallShape
<1> HIDE DEF A
<1>3. /\ Len(r) = 4 + Len(q)
      /\ r[1] = c /\ r[2] = t.ip /\ r[3] = t.dp /\ r[4] = t.old
      /\ Len(q) >= 1 => r[5] = q[1]
      /\ Len(q) >= 2 => r[6] = q[2]
  BY <1>1, <1>2 DEF References
<1> HIDE DEF r, q
<1>4. /\ 1 \in S <=> c = x
      /\ 2 \in S <=> t.ip = x
      /\ 3 \in S <=> t.dp = x
      /\ 4 \in S <=> t.old = x
      /\ 5 \in S <=> Len(q) >= 1 /\ q[1] = x
      /\ 6 \in S <=> Len(q) >= 2 /\ q[2] = x
  BY <1>1, <1>3
<1>5. S \in SUBSET (1 .. 6)
  OBVIOUS
<1> HIDE DEF S
<1>6. Cardinality(S) = Is(1 \in S) + Is(2 \in S) + Is(3 \in S) + Is(4 \in S)
                       + Is(5 \in S) + Is(6 \in S)
  BY <1>5, CountSix
<1>7. /\ Is(1 \in S) = Is(c = x) /\ Is(2 \in S) = Is(t.ip = x)
      /\ Is(3 \in S) = Is(t.dp = x) /\ Is(4 \in S) = Is(t.old = x)
  BY <1>4 DEF Is
<1>8. /\ Is(5 \in S) = Is(Len(q) >= 1 /\ q[1] = x)
      /\ Is(6 \in S) = Is(Len(q) >= 2 /\ q[2] = x)
  BY <1>4 DEF Is
<1>9. Tally(c, t, x) = Is(c = x) + Is(t.ip = x) + Is(t.dp = x) + Is(t.old = x)
                       + (Is(Len(q) >= 1 /\ q[1] = x) + Is(Len(q) >= 2 /\ q[2] = x))
  BY DEF Tally, SeqTally, q
<1>10. Cardinality(S) = Is(c = x) + Is(t.ip = x) + Is(t.dp = x) + Is(t.old = x)
                        + Is(Len(q) >= 1 /\ q[1] = x) + Is(Len(q) >= 2 /\ q[2] = x)
  BY <1>6, <1>7, <1>8
<1> DEFINE a1 == Is(c = x)
           a2 == Is(t.ip = x)
           a3 == Is(t.dp = x)
           a4 == Is(t.old = x)
           a5 == Is(Len(q) >= 1 /\ q[1] = x)
           a6 == Is(Len(q) >= 2 /\ q[2] = x)
<1>11. {a1, a2, a3, a4, a5, a6} \subseteq Nat
  BY DEF Is
<1>12. Tally(c, t, x) = a1 + a2 + a3 + a4 + (a5 + a6) /\ Cardinality(S) = a1 + a2 + a3 + a4 + a5 + a6
  BY <1>9, <1>10
<1> HIDE DEF a1, a2, a3, a4, a5, a6
<1>13. Cardinality(S) = Tally(c, t, x)
  BY <1>11, <1>12
<1> QED BY <1>13 DEF S, r

\* A step of p: its call becomes u and its directory c.
OneCall(p, c, u) ==
  /\ DOMAIN th' = Procs /\ cwd' \in [Procs -> {0} \cup Slots] /\ th'[p] = u /\ cwd'[p] = c
  /\ \A q \in Procs \ {p} : th'[q] = th[q] /\ cwd'[q] = cwd[q]

LEMMA UsesChange ==
  ASSUME NEW p \in Procs, cwd[p] \in {0} \cup Slots, NEW c \in {0} \cup Slots, NEW u, OneCall(p, c, u), CallShape(th[p]), CallShape(u), NEW s
  PROVE  /\ Cardinality(UsesOf(s)) \in Nat /\ Cardinality(UsesOf(s)') \in Nat
         /\ Cardinality(UsesOf(s)') + Tally(cwd[p], th[p], s)
              = Cardinality(UsesOf(s)) + Tally(c, u, s)
<1> DEFINE S == UsesOf(s)
           T == UsesOf(s)'
<1>1. IsFiniteSet(Procs) /\ IsFiniteSet(1 .. 6)
  <2>1. IsFiniteSet(1 .. 6)
    <3>1. 1 \in Int /\ 6 \in Int
      OBVIOUS
    <3> QED BY <3>1, FS_Interval
  <2> QED BY <2>1, SizesAssumption
<1>2. S \in SUBSET (Procs \X (1 .. 6)) /\ T \in SUBSET (Procs \X (1 .. 6))
  BY DEF UsesOf
<1>3. \A q \in Procs \ {p} : \A k \in 1 .. 6 : <<q, k>> \in S <=> <<q, k>> \in T
  <2> TAKE q \in Procs \ {p}
  <2> TAKE k \in 1 .. 6
  <2>1. Referred(q)' = Referred(q)
    BY DEF OneCall, Referred
  <2> QED BY <2>1 DEF UsesOf
<1>4. /\ Row(S, 1 .. 6, p)
           = {k \in 1 .. 6 : k <= Len(References(cwd[p], th[p])) /\ References(cwd[p], th[p])[k] = s}
      /\ Row(T, 1 .. 6, p)
           = {k \in 1 .. 6 : k <= Len(References(c, u)) /\ References(c, u)[k] = s}
  <2>1. Referred(p) = References(cwd[p], th[p]) /\ Referred(p)' = References(c, u)
    BY DEF Referred, OneCall
  <2> QED BY <2>1 DEF UsesOf, Row
<1>6. Cardinality(Row(S, 1 .. 6, p)) = Tally(cwd[p], th[p], s)
  BY <1>4, TallyOfReferred, Zenon
<1>7. Cardinality(Row(T, 1 .. 6, p)) = Tally(c, u, s)
  BY <1>4, TallyOfReferred, Zenon
<1>8. /\ Cardinality(S) \in Nat /\ Cardinality(T) \in Nat
      /\ Cardinality(T) + Cardinality(Row(S, 1 .. 6, p))
           = Cardinality(S) + Cardinality(Row(T, 1 .. 6, p))
  <2> DEFINE K == 1 .. 6
  <2>1. /\ IsFiniteSet(Procs) /\ IsFiniteSet(K)
        /\ S \in SUBSET (Procs \X K) /\ T \in SUBSET (Procs \X K)
        /\ \A q \in Procs \ {p} : \A k \in K : <<q, k>> \in S <=> <<q, k>> \in T
    BY <1>1, <1>2, <1>3
  <2> HIDE DEF K, S, T
  <2>2. /\ Cardinality(S) \in Nat /\ Cardinality(T) \in Nat
        /\ Cardinality(T) + Cardinality(Row(S, K, p))
             = Cardinality(S) + Cardinality(Row(T, K, p))
    BY <2>1, OneRow
  <2> QED BY <2>2 DEF K
<1> HIDE DEF S, T
<1> QED BY <1>6, <1>7, <1>8 DEF S, T

-----------------------------------------------------------------------------
(* What the operations of fs.c do to the counts *)

Keeps(f, g) ==
  /\ FsShape(g)
  /\ g.panic = "none" => f.panic = "none"
  /\ \A x \in Slots : g.slot[x].ref = f.slot[x].ref

\* g is f with one more reference to the slot s.
Takes(f, g, s) ==
  /\ FsShape(g)
  /\ g.panic = "none" => /\ f.panic = "none" /\ s \in {0} \cup Slots
                         /\ \A x \in Slots : g.slot[x].ref = f.slot[x].ref + Is(x = s)

LEMMA KeepsKeeps ==
  ASSUME NEW f, NEW g, NEW h, Keeps(f, g), Keeps(g, h)
  PROVE  Keeps(f, h)
BY DEF Keeps

LEMMA KeepsShape ==
  ASSUME NEW f, NEW g, Keeps(f, g)
  PROVE  FsShape(g)
BY DEF Keeps

LEMMA KeepsTakes ==
  ASSUME NEW f, NEW g, NEW h, NEW s, Keeps(f, g), Takes(g, h, s)
  PROVE  Takes(f, h, s)
BY DEF Keeps, Takes

LEMMA TakesKeeps ==
  ASSUME NEW f, NEW g, NEW h, NEW s, Takes(f, g, s), Keeps(g, h)
  PROVE  Takes(f, h, s)
BY DEF Keeps, Takes

LEMMA PanicKeeps ==
  ASSUME NEW f, FsShape(f), NEW msg
  PROVE  Keeps(f, Panic(f, msg)) /\ (msg # "none" => Panic(f, msg).panic # "none")
BY DEF Keeps, FsShape, Panic

LEMMA SlotKeeps ==
  ASSUME NEW f, FsShape(f), NEW s
  PROVE  /\ \A c : Keeps(f, [f EXCEPT !.slot[s].core = c])
         /\ \A c, v : Keeps(f, [f EXCEPT !.slot[s].core = c, !.slot[s].valid = v])
         /\ \A v : Keeps(f, [f EXCEPT !.slot[s].valid = v])
         /\ \A p : Keeps(f, Lock(f, s, p))
         /\ Keeps(f, Unlock(f, s))
BY DEF Keeps, FsShape, Lock, Unlock

LEMMA CoreKeeps ==
  ASSUME NEW f, FsShape(f), NEW s
  PROVE  /\ \A v : Keeps(f, [f EXCEPT !.slot[s].core.nlink = v])
         /\ \A v : Keeps(f, [f EXCEPT !.slot[s].core.size = v])
         /\ \A v : Keeps(f, [f EXCEPT !.slot[s].core.type = v])
         /\ \A v, n : Keeps(f, [f EXCEPT !.slot[s].core.addrs = v, !.slot[s].core.size = n])
         /\ \A k, v : Keeps(f, [f EXCEPT !.slot[s].core.addrs[k] = v])
         /\ \A k, v, b, w : Keeps(f, [f EXCEPT !.slot[s].core.addrs[k] = v, !.blk[b] = w])
BY DEF Keeps, FsShape

LEMMA DiskKeeps ==
  ASSUME NEW f, FsShape(f)
  PROVE  /\ \A i, v : Keeps(f, [f EXCEPT !.dinode[i] = v])
         /\ \A b, v : Keeps(f, [f EXCEPT !.blk[b] = v])
         /\ \A b, k, v : Keeps(f, [f EXCEPT !.blk[b][k] = v])
         /\ \A M : Keeps(f, [f EXCEPT !.bitmap = M])
         /\ \A M, h, b, v : Keeps(f, [f EXCEPT !.bitmap = M, !.hint = h, !.blk[b] = v])
BY DEF Keeps, FsShape

LEMMA UpdateKeeps ==
  ASSUME NEW f, FsShape(f), NEW s
  PROVE  Keeps(f, iupdate(f, s))
BY DiskKeeps DEF iupdate

LEMMA AllocKeeps ==
  ASSUME NEW f, FsShape(f)
  PROVE  Keeps(f, balloc(f)) /\ \A S : Keeps(f, bfree(f, S))
BY DiskKeeps, PanicKeeps DEF balloc, bfree

LEMMA WriteKeeps ==
  ASSUME NEW f, FsShape(f), NEW s, NEW off, NEW unit
  PROVE  Keeps(f, writei(f, s, off, unit))
<1> DEFINE bn == off \div UPB + 1
           g == bmap(f, s, bn)
<1>1. ASSUME NEW h, FsShape(h) PROVE Keeps(h, NextBlock(h, s, bn))
  <2>1. Keeps(h, balloc(h))
    BY <1>1, AllocKeeps
  <2>2. FsShape(balloc(h))
    BY <2>1 DEF Keeps
  <2>3. \A b : Keeps(balloc(h), SetAddress(balloc(h), s, bn, b))
    BY <2>2, CoreKeeps, DiskKeeps DEF SetAddress
  <2> QED BY <2>1, <2>3, KeepsKeeps DEF NextBlock
<1>2. Keeps(f, WithIndirect(f, s, bn))
  <2>1. Keeps(f, balloc(f))
    BY AllocKeeps
  <2>2. FsShape(balloc(f))
    BY <2>1 DEF Keeps
  <2>3. \A b : Keeps(balloc(f), SetIndirect(balloc(f), s, b))
    BY <2>2, CoreKeeps DEF SetIndirect
  <2>4. Keeps(f, f)
    BY DEF Keeps
  <2> QED BY <2>1, <2>3, <2>4, KeepsKeeps DEF WithIndirect
<1>3. Keeps(f, g)
  <2>1. FsShape(WithIndirect(f, s, bn))
    BY <1>2 DEF Keeps
  <2>2. Keeps(WithIndirect(f, s, bn), NextBlock(WithIndirect(f, s, bn), s, bn))
    BY <1>1, <2>1
  <2>3. Keeps(f, f)
    BY DEF Keeps
  <2> QED BY <1>2, <2>2, <2>3, KeepsKeeps DEF bmap
<1>4. FsShape(g)
  BY <1>3 DEF Keeps
<1> HIDE DEF g
<1>5. Keeps(g, Store(g, s, off, unit))
  BY <1>4, DiskKeeps DEF Store
<1> DEFINE h == Store(g, s, off, unit)
<1>6. FsShape(h)
  BY <1>5 DEF Keeps
<1> HIDE DEF h
<1> DEFINE k == [h EXCEPT !.slot[s].core.size = off + 1]
<1>7. Keeps(h, k)
  BY <1>6, CoreKeeps
<1>8. FsShape(k)
  BY <1>7 DEF Keeps
<1> HIDE DEF k
<1>9. Keeps(k, iupdate(k, s))
  BY <1>8, UpdateKeeps
<1>10. Keeps(f, h) /\ Keeps(f, iupdate(k, s))
  BY <1>3, <1>5, <1>7, <1>9, KeepsKeeps DEF h
<1>11. Stored(g, s, off, unit) \in {g, h, iupdate(k, s)}
  BY DEF Stored, h, k
<1> QED BY <1>3, <1>10, <1>11 DEF writei, g

LEMMA TruncKeeps ==
  ASSUME NEW f, FsShape(f), NEW s
  PROVE  Keeps(f, itrunc(f, s))
<1> DEFINE core == f.slot[s].core
           ind == core.addrs[NDIRECT + 1]
           own == {core.addrs[i] : i \in 1 .. NDIRECT + 1}
                  \cup (IF ind = 0 THEN {} ELSE {f.blk[ind][i] : i \in 1 .. NINDIRECT})
           g == bfree(f, own \ {0})
           h == [g EXCEPT !.slot[s].core.addrs = FreeInode.addrs, !.slot[s].core.size = 0]
           m == "idestart: block out of range"
<1>1. itrunc(f, s) = Panic(g, m) \/ itrunc(f, s) = iupdate(h, s)
  BY DEF itrunc
<1> HIDE DEF own
<1>2. Keeps(f, g)
  BY AllocKeeps
<1>3. FsShape(g)
  BY <1>2 DEF Keeps
<1> HIDE DEF g
<1>4. Keeps(g, h)
  BY <1>3, CoreKeeps
<1>5. FsShape(h)
  BY <1>4 DEF Keeps
<1> HIDE DEF h
<1>6. Keeps(h, iupdate(h, s)) /\ Keeps(g, Panic(g, m))
  BY <1>3, <1>5, UpdateKeeps, PanicKeeps
<1>7. Keeps(f, h)
  BY <1>2, <1>4, KeepsKeeps
<1>8. Keeps(f, iupdate(h, s))
  BY <1>6, <1>7, KeepsKeeps
<1>9. Keeps(f, Panic(g, m))
  BY <1>2, <1>6, KeepsKeeps
<1> QED BY <1>1, <1>8, <1>9

LEMMA PutKeeps ==
  ASSUME NEW f, FsShape(f), NEW s
  PROVE  Keeps(f, PutBody(f, s))
<1> DEFINE g == itrunc(f, s)
           h == [g EXCEPT !.slot[s].core.type = "free"]
           k == iupdate(h, s)
           m == [k EXCEPT !.slot[s].valid = FALSE]
<1>1. PutBody(f, s) \in {f, m}
  BY DEF PutBody
<1>2. Keeps(f, g)
  BY TruncKeeps
<1>3. FsShape(g)
  BY <1>2 DEF Keeps
<1> HIDE DEF g
<1>4. Keeps(g, h)
  BY <1>3, CoreKeeps
<1>5. FsShape(h)
  BY <1>4 DEF Keeps
<1> HIDE DEF h
<1>6. Keeps(h, k)
  BY <1>5, UpdateKeeps
<1>7. FsShape(k)
  BY <1>6 DEF Keeps
<1> HIDE DEF k
<1>8. Keeps(k, m)
  BY <1>7, SlotKeeps
<1> HIDE DEF m
<1>9. Keeps(f, f)
  BY DEF Keeps
<1>10. Keeps(f, h)
  BY <1>2, <1>4, KeepsKeeps
<1>11. Keeps(f, k)
  BY <1>6, <1>10, KeepsKeeps
<1>12. Keeps(f, m)
  BY <1>8, <1>11, KeepsKeeps
<1> QED BY <1>1, <1>9, <1>12

LEMMA LoadedKeeps ==
  ASSUME NEW f, FsShape(f), NEW s
  PROVE  Keeps(f, Loaded(f, s))
<1> DEFINE c == f.dinode[f.slot[s].inum]
           g == [f EXCEPT !.slot[s].core = c, !.slot[s].valid = TRUE]
           m == "ilock: inode has no type"
<1>1. Loaded(f, s) \in {Panic(f, "ilock: invalid inode"), f, Panic(g, m), g}
  BY DEF Loaded
<1>2. Keeps(f, g)
  BY SlotKeeps
<1>3. FsShape(g)
  BY <1>2 DEF Keeps
<1> HIDE DEF g
<1>4. Keeps(g, Panic(g, m)) /\ Keeps(f, Panic(f, "ilock: invalid inode"))
  BY <1>3, PanicKeeps
<1>5. Keeps(f, f)
  BY DEF Keeps
<1>6. Keeps(f, Panic(g, m))
  BY <1>2, <1>4, KeepsKeeps
<1> QED BY <1>1, <1>2, <1>4, <1>5, <1>6

LEMMA EntryKeeps ==
  ASSUME NEW f, FsShape(f), NEW s, NEW name, NEW inum
  PROVE  Keeps(f, AddEntry(f, s, name, inum))
<1> DEFINE off == FreePlace(Entries(f, s))
           e == [name |-> name, inum |-> inum]
<1>1. AddEntry(f, s, name, inum) \in {f, Panic(f, "dirlink: write error"), writei(f, s, off, e)}
  BY DEF AddEntry, PutEntry
<1> HIDE DEF off, e
<1>2. Keeps(f, f)
  BY DEF Keeps
<1> QED BY <1>1, <1>2, PanicKeeps, WriteKeeps

LEMMA DotsKeep ==
  ASSUME NEW f, FsShape(f), NEW s, NEW d
  PROVE  Keeps(f, WithDots(f, s, d))
<1> DEFINE n == f.slot[d].core.nlink + 1
           g == [f EXCEPT !.slot[d].core.nlink = n]
           h == iupdate(g, d)
           k == AddEntry(h, s, ".", f.slot[s].inum)
           m == AddEntry(k, s, "..", f.slot[d].inum)
<1>1. WithDots(f, s, d) = m
  BY DEF WithDots
<1>2. Keeps(f, g)
  BY CoreKeeps
<1>3. FsShape(g)
  BY <1>2 DEF Keeps
<1> HIDE DEF g
<1>4. Keeps(g, h)
  BY <1>3, UpdateKeeps
<1>5. FsShape(h)
  BY <1>4 DEF Keeps
<1> HIDE DEF h
<1>6. Keeps(h, k)
  BY <1>5, EntryKeeps
<1>7. FsShape(k)
  BY <1>6 DEF Keeps
<1> HIDE DEF k
<1>8. Keeps(k, m)
  BY <1>7, EntryKeeps
<1> HIDE DEF m
<1> QED BY <1>1, <1>2, <1>4, <1>6, <1>8, KeepsKeeps

LEMMA NewInodeKeeps ==
  ASSUME NEW f, FsShape(f), NEW s, NEW d, NEW name, NEW type
  PROVE  Keeps(f, NewInode(f, s, d, name, type))
<1> DEFINE g == [f EXCEPT !.slot[s].core.nlink = 1]
           h == iupdate(g, s)
           k == IF type = "dir" THEN WithDots(h, s, d) ELSE h
           m == AddEntry(k, d, name, f.slot[s].inum)
<1>1. NewInode(f, s, d, name, type) = m
  BY DEF NewInode
<1>2. Keeps(f, g)
  BY CoreKeeps
<1>3. FsShape(g)
  BY <1>2 DEF Keeps
<1> HIDE DEF g
<1>4. Keeps(g, h)
  BY <1>3, UpdateKeeps
<1>5. FsShape(h)
  BY <1>4 DEF Keeps
<1> HIDE DEF h
<1>6. Keeps(h, k)
  <2>1. Keeps(h, h)
    BY <1>5 DEF Keeps
  <2> QED BY <1>5, <2>1, DotsKeep
<1>7. FsShape(k)
  BY <1>6 DEF Keeps
<1> HIDE DEF k
<1>8. Keeps(k, m)
  BY <1>7, EntryKeeps
<1> HIDE DEF m
<1> QED BY <1>1, <1>2, <1>4, <1>6, <1>8, KeepsKeeps

RefsNat(f) == \A s \in Slots : f.slot[s].ref \in Nat

LEMMA KeepsNat ==
  ASSUME NEW f, NEW g, RefsNat(f), Keeps(f, g)
  PROVE  RefsNat(g)
BY DEF RefsNat, Keeps

LEMMA GetTakes ==
  ASSUME NEW f, FsShape(f), RefsNat(f), NEW inum
  PROVE  Takes(f, iget(f, inum), SlotOf(f, inum))
<1> DEFINE s == SlotOf(f, inum)
           m == "iget: no free inodes in cache"
<1>1. Matching(f, inum) \subseteq Slots /\ Unused(f) \subseteq Slots /\ Slots \subseteq Nat
  BY SizesAssumption DEF Matching, Unused, Slots
<1>2. CASE s = 0
  <2>1. iget(f, inum) = Panic(f, m)
    BY <1>2 DEF iget
  <2>2. Keeps(f, Panic(f, m)) /\ Panic(f, m).panic # "none"
    BY PanicKeeps
  <2> QED BY <2>1, <2>2 DEF Keeps, Takes
<1>3. CASE s # 0
  <2>1. s \in Slots /\ (f.slot[s].ref > 0 \/ f.slot[s].ref = 0)
    <3>1. CASE Matching(f, inum) # {}
      <4>1. s = Min(Matching(f, inum))
        BY <3>1 DEF SlotOf
      <4>2. Min(Matching(f, inum)) \in Matching(f, inum)
        BY <1>1, <3>1, LeastIn
      <4> QED BY <1>1, <4>1, <4>2 DEF Matching
    <3>2. CASE Matching(f, inum) = {} /\ Unused(f) # {}
      <4>1. s = Min(Unused(f))
        BY <3>2 DEF SlotOf
      <4>2. Min(Unused(f)) \in Unused(f)
        BY <1>1, <3>2, LeastIn
      <4> QED BY <1>1, <4>1, <4>2 DEF Unused
    <3>3. CASE Matching(f, inum) = {} /\ Unused(f) = {}
      BY <1>3, <3>3 DEF SlotOf
    <3> QED BY <3>1, <3>2, <3>3
  <2> DEFINE g == IF f.slot[s].ref > 0 THEN [f EXCEPT !.slot[s].ref = @ + 1]
                  ELSE [f EXCEPT !.slot[s] = [@ EXCEPT !.dev = 1, !.inum = inum, !.ref = 1,
                                                       !.valid = FALSE]]
  <2>2. iget(f, inum) = g
    BY <1>3 DEF iget
  <2> HIDE DEF s
  <2>3. Takes(f, g, s)
    BY <2>1 DEF Takes, FsShape, RefsNat, Is
  <2> QED BY <2>2, <2>3 DEF s
<1> QED BY <1>2, <1>3

LEMMA DupTakes ==
  ASSUME NEW f, FsShape(f), RefsNat(f), NEW s \in {0} \cup Slots
  PROVE  Takes(f, idup(f, s), s)
<1>1. 0 \notin Slots
  BY DEF Slots
<1>2. CASE s = 0
  BY <1>1, <1>2 DEF Takes, FsShape, RefsNat, Is, idup
<1>3. CASE s \in Slots
  BY <1>3 DEF Takes, FsShape, RefsNat, Is, idup
<1> QED BY <1>2, <1>3

LEMMA AllocTakes ==
  ASSUME NEW f, FsShape(f), RefsNat(f), NEW type
  PROVE  Takes(f, ialloc(f, type), SlotOf(f, Min(FreeInums(f))))
<1> DEFINE i == Min(FreeInums(f))
           c == [FreeInode EXCEPT !.type = type]
           g == [f EXCEPT !.dinode[i] = c]
           m == "ialloc: no inodes"
<1>1. CASE FreeInums(f) = {}
  <2>1. ialloc(f, type) = Panic(f, m)
    BY <1>1 DEF ialloc
  <2>2. Keeps(f, Panic(f, m)) /\ Panic(f, m).panic # "none"
    BY PanicKeeps
  <2> QED BY <2>1, <2>2 DEF Keeps, Takes
<1>2. CASE FreeInums(f) # {}
  <2>1. ialloc(f, type) = iget(g, i)
    BY <1>2 DEF ialloc
  <2> HIDE DEF i, c
  <2>2. Keeps(f, g) /\ g.slot = f.slot
    BY DiskKeeps DEF FsShape
  <2>3. SlotOf(g, i) = SlotOf(f, i)
    BY <2>2 DEF SlotOf, Matching, Unused
  <2> HIDE DEF g
  <2>4. FsShape(g) /\ RefsNat(g)
    BY <2>2, KeepsNat DEF Keeps
  <2>5. Takes(g, iget(g, i), SlotOf(g, i))
    BY <2>4, GetTakes
  <2> QED BY <2>1, <2>2, <2>3, <2>5, KeepsTakes DEF i
<1> QED BY <1>1, <1>2

LEMMA StartTakes ==
  ASSUME NEW f, FsShape(f), RefsNat(f), NEW p, cwd[p] \in {0} \cup Slots, NEW path
  PROVE  Takes(f, StartFs(f, p, path), StartIp(f, p, path))
BY GetTakes, DupTakes DEF StartFs, StartIp

-----------------------------------------------------------------------------
(* A step of one process *)

\* The references of slots: what the step takes and gives up is what the
\* counts and the open files say.
Balanced(p, c, u) ==
  \A x \in Slots :
    fs'.slot[x].ref + Tally(cwd[p], th[p], x) + Cardinality(FilesOn(x))
      = fs.slot[x].ref + Tally(c, u, x) + Cardinality(FilesOn(x)')

FilesBalanced ==
  \A i \in 1 .. NFILE :
    ftable'[i].ref + Cardinality(FdsOf(i)) + Cardinality(PipesOf(i))
      = ftable[i].ref + Cardinality(FdsOf(i)') + Cardinality(PipesOf(i)')

LEMMA FilesOnFinite ==
  \A x : Cardinality(FilesOn(x)) \in Nat /\ Cardinality(FilesOn(x)') \in Nat
         /\ IsFiniteSet(FilesOn(x)) /\ IsFiniteSet(FilesOn(x)')
<1>1. IsFiniteSet(1 .. NFILE)
  <2>1. 1 \in Int /\ NFILE \in Int
    BY SizesAssumption
  <2> QED BY <2>1, FS_Interval
<1>2. \A x : FilesOn(x) \subseteq 1 .. NFILE /\ FilesOn(x)' \subseteq 1 .. NFILE
  BY DEF FilesOn
<1> QED BY <1>1, <1>2, FS_Subset, FS_CardinalityType

LEMMA DescriptorsFinite ==
  \A i : /\ Cardinality(FdsOf(i)) \in Nat /\ Cardinality(FdsOf(i)') \in Nat
         /\ Cardinality(PipesOf(i)) \in Nat /\ Cardinality(PipesOf(i)') \in Nat
<1>1. IsFiniteSet(1 .. NOFILE) /\ IsFiniteSet(1 .. 2)
  <2>1. 1 \in Int /\ NOFILE \in Int /\ 2 \in Int
    BY SizesAssumption
  <2> QED BY <2>1, FS_Interval
<1>2. IsFiniteSet(Procs \X (1 .. NOFILE)) /\ IsFiniteSet(Procs \X (1 .. 2))
  BY <1>1, FS_Product, SizesAssumption
<1>3. \A i : /\ FdsOf(i) \subseteq Procs \X (1 .. NOFILE) /\ FdsOf(i)' \subseteq Procs \X (1 .. NOFILE)
             /\ PipesOf(i) \subseteq Procs \X (1 .. 2) /\ PipesOf(i)' \subseteq Procs \X (1 .. 2)
  BY DEF FdsOf, PipesOf
<1>4. \A S : IsFiniteSet(S) => Cardinality(S) \in Nat
  BY FS_CardinalityType
<1>5. \A S \in SUBSET (Procs \X (1 .. NOFILE)) : Cardinality(S) \in Nat
  BY <1>2, <1>4, FS_Subset
<1>6. \A S \in SUBSET (Procs \X (1 .. 2)) : Cardinality(S) \in Nat
  BY <1>2, <1>4, FS_Subset
<1> QED BY <1>3, <1>5, <1>6

Sound ==
  /\ fs.panic = "none" /\ RefsInv

LEMMA SoundFacts ==
  ASSUME Sound
  PROVE  /\ FsShape(fs) /\ TablesShape /\ FilesClean /\ PipesApart /\ GoneHasNothing
         /\ RefsCount /\ RefsNat(fs)
         /\ \A p \in Procs : /\ CallShape(th[p]) /\ CallKeeps(th[p])
                             /\ cwd[p] \in {0} \cup Slots
<1>1. \A s : Cardinality(FilesOn(s)) \in Nat
  BY FilesOnFinite
<1>2. \A s : Cardinality(UsesOf(s)) \in Nat
  <2> TAKE s
  <2>1. IsFiniteSet(1 .. 6)
    <3>1. 1 \in Int /\ 6 \in Int
      OBVIOUS
    <3> QED BY <3>1, FS_Interval
  <2>2. IsFiniteSet(Procs \X (1 .. 6))
    BY <2>1, FS_Product, SizesAssumption
  <2>3. UsesOf(s) \subseteq Procs \X (1 .. 6)
    BY DEF UsesOf
  <2> QED BY <2>2, <2>3, FS_Subset, FS_CardinalityType
<1>3. RefsNat(fs)
  BY <1>1, <1>2 DEF Sound, RefsInv, RefsCount, RefsNat
<1> QED BY <1>3 DEF Sound, RefsInv, TablesShape

LEMMA TableStep ==
  ASSUME Sound, NEW p \in Procs, NEW c \in {0} \cup Slots, NEW u, OneCall(p, c, u),
         CallShape(u), CallKeeps(u), FsShape(fs'),
         TablesShape', FilesClean', PipesApart', GoneHasNothing',
         RefsNat(fs'), Balanced(p, c, u), FilesBalanced
  PROVE  RefsInv'
<1>1. /\ RefsCount /\ RefsNat(fs) /\ TablesShape /\ CallShape(th[p]) /\ cwd[p] \in {0} \cup Slots
      /\ \A q \in Procs : CallShape(th[q]) /\ CallKeeps(th[q])
  BY SoundFacts
<1>2. \A q \in Procs : CallShape(th'[q]) /\ CallKeeps(th'[q])
  BY <1>1 DEF OneCall
<1>3. fs.panic = "none"
  BY DEF Sound
<1>4. ASSUME NEW s \in Slots
      PROVE  fs'.slot[s].ref = Cardinality(FilesOn(s)') + Cardinality(UsesOf(s)')
  <2>1. /\ Cardinality(UsesOf(s)) \in Nat /\ Cardinality(UsesOf(s)') \in Nat
        /\ Cardinality(UsesOf(s)') + Tally(cwd[p], th[p], s) = Cardinality(UsesOf(s)) + Tally(c, u, s)
    BY <1>1, UsesChange
  <2>2. fs.slot[s].ref = Cardinality(FilesOn(s)) + Cardinality(UsesOf(s))
    BY <1>1, <1>3 DEF RefsCount
  <2>3. fs'.slot[s].ref + Tally(cwd[p], th[p], s) + Cardinality(FilesOn(s))
          = fs.slot[s].ref + Tally(c, u, s) + Cardinality(FilesOn(s)')
    BY DEF Balanced
  <2>4. Tally(cwd[p], th[p], s) \in Nat /\ Tally(c, u, s) \in Nat
    BY TallyNat
  <2>5. Cardinality(FilesOn(s)) \in Nat /\ Cardinality(FilesOn(s)') \in Nat
    BY FilesOnFinite
  <2>6. fs.slot[s].ref \in Nat /\ fs'.slot[s].ref \in Nat
    BY <1>1 DEF RefsNat
  <2> QED BY <2>1, <2>2, <2>3, <2>4, <2>5, <2>6
<1>5. ASSUME NEW i \in 1 .. NFILE
      PROVE  ftable'[i].ref = Cardinality(FdsOf(i)') + Cardinality(PipesOf(i)')
  <2>1. ftable[i].ref = Cardinality(FdsOf(i)) + Cardinality(PipesOf(i))
    BY <1>1, <1>3 DEF RefsCount
  <2>2. ftable'[i].ref + Cardinality(FdsOf(i)) + Cardinality(PipesOf(i))
          = ftable[i].ref + Cardinality(FdsOf(i)') + Cardinality(PipesOf(i)')
    BY DEF FilesBalanced
  <2>3. /\ Cardinality(FdsOf(i)) \in Nat /\ Cardinality(FdsOf(i)') \in Nat
        /\ Cardinality(PipesOf(i)) \in Nat /\ Cardinality(PipesOf(i)') \in Nat
    BY DescriptorsFinite
  <2>4. ftable[i].ref \in Nat /\ ftable'[i].ref \in Nat
    BY <1>1 DEF TablesShape, Files
  <2> QED BY <2>1, <2>2, <2>3, <2>4
<1>6. RefsCount'
  BY <1>4, <1>5 DEF RefsCount
<1> QED BY <1>2, <1>6 DEF RefsInv

\* Of a step that leaves the tables alone.
LEMMA CallStep ==
  ASSUME Sound, NEW p \in Procs, NEW c \in {0} \cup Slots, NEW u, OneCall(p, c, u),
         UNCHANGED <<ftable, ofile>>,
         CallShape(u), CallKeeps(u), u.files = th[p].files, FsShape(fs'), RefsNat(fs'),
         GoesOn(u) = "gone" => c = 0 /\ \A d \in 1 .. NOFILE : ofile[p][d] = 0,
         \A x \in Slots : fs'.slot[x].ref + Tally(cwd[p], th[p], x) = fs.slot[x].ref + Tally(c, u, x)
  PROVE  RefsInv'
<1>1. /\ RefsNat(fs) /\ TablesShape /\ FilesClean /\ PipesApart /\ GoneHasNothing
  BY SoundFacts
<1>2. TablesShape' /\ FilesClean'
  <2>1. cwd' \in [Procs -> {0} \cup Slots]
    BY <1>1 DEF TablesShape, OneCall
  <2> QED BY <1>1, <2>1 DEF TablesShape, FilesClean, OneCall
<1>3. PipesApart'
  BY <1>1 DEF PipesApart, OneCall
<1>4. GoneHasNothing'
  BY <1>1 DEF GoneHasNothing, OneCall
<1>5. \A i : FdsOf(i)' = FdsOf(i) /\ PipesOf(i)' = PipesOf(i) /\ FilesOn(i)' = FilesOn(i)
  <2>1. \A q \in Procs : th'[q].files = th[q].files
    BY DEF OneCall
  <2> QED BY <2>1 DEF FdsOf, PipesOf, FilesOn
<1>6. FilesBalanced
  BY <1>5 DEF FilesBalanced
<1>7. Balanced(p, c, u)
  <2> SUFFICES ASSUME NEW x \in Slots
               PROVE  fs'.slot[x].ref + Tally(cwd[p], th[p], x) + Cardinality(FilesOn(x))
                        = fs.slot[x].ref + Tally(c, u, x) + Cardinality(FilesOn(x)')
    BY DEF Balanced
  <2>1. fs'.slot[x].ref + Tally(cwd[p], th[p], x) = fs.slot[x].ref + Tally(c, u, x)
    OBVIOUS
  <2> QED BY <1>5, <2>1
<1> QED BY <1>1, <1>2, <1>3, <1>4, <1>6, <1>7, TableStep

LEMMA GotoIs ==
  ASSUME Sound, NEW p \in Procs, NEW u, Goto(p, u)
  PROVE  /\ UNCHANGED cwd => OneCall(p, cwd[p], u)
         /\ \A c \in {0} \cup Slots : cwd' = [cwd EXCEPT ![p] = c] => OneCall(p, c, u)
BY SoundFacts DEF TablesShape, Goto, OneCall

LEMMA AtPc ==
  ASSUME Sound, NEW p \in Procs, th[p].pc \notin {"put", "drop"}
  PROVE  /\ th[p].puts = <<>> /\ GoesOn(th[p]) = th[p].pc
         /\ CallShape(th[p]) /\ CallKeeps(th[p]) /\ cwd[p] \in {0} \cup Slots
BY SoundFacts DEF CallKeeps, GoesOn

\* A call with some of its references changed.
LEMMA Refit ==
  ASSUME NEW t, CallShape(t)
  PROVE  /\ \A i \in {0} \cup Slots : CallShape([t EXCEPT !.ip = i])
         /\ \A i \in {0} \cup Slots : CallShape([t EXCEPT !.dp = i])
         /\ \A i \in {0} \cup Slots : CallShape([t EXCEPT !.old = i])
         /\ \A c : CallShape([t EXCEPT !.pc = c])
         /\ \A n : CallShape([t EXCEPT !.n = n])
         /\ \A a : CallShape([t EXCEPT !.path = a])
         /\ \A a, b : CallShape([t EXCEPT !.name = a, !.path = b])
BY DEF CallShape

\* The call v puts what is in puts and goes on at after; the rest is as in t.
IsPut(v, t, puts, after) ==
  /\ CallShape(v)
  /\ v.pc = "put" /\ v.after = after /\ v.puts = puts /\ GoesOn(v) = after
  /\ v.ip = t.ip /\ v.dp = t.dp /\ v.old = t.old /\ v.files = t.files
  /\ v.op = t.op /\ v.par = t.par /\ v.fail = t.fail

LEMMA PutOne ==
  ASSUME NEW t, CallShape(t), NEW a \in {0} \cup Slots, NEW after
  PROVE  IsPut(Puts(t, <<a>>, after), t, <<a>>, after)
<1> DEFINE v == [t EXCEPT !.pc = "put", !.puts = <<a>>, !.after = after]
<1>1. Puts(t, <<a>>, after) = v
  BY DEF Puts
<1>2. /\ v.pc = "put" /\ v.after = after /\ v.puts = <<a>>
      /\ v.ip = t.ip /\ v.dp = t.dp /\ v.old = t.old /\ v.files = t.files
      /\ v.op = t.op /\ v.par = t.par /\ v.fail = t.fail
  BY DEF CallShape, Idle
<1>3. DOMAIN v = DOMAIN Idle
  BY DEF CallShape
<1>4. <<a>> \in Seq({0} \cup Slots) /\ Len(<<a>>) <= 2
  OBVIOUS
<1>5. CallShape(v)
  <2> HIDE DEF v
  <2> QED BY <1>2, <1>3, <1>4 DEF CallShape
<1>6. GoesOn(v) = after
  <2> HIDE DEF v
  <2> QED BY <1>2 DEF GoesOn
<1> HIDE DEF v
<1> QED BY <1>1, <1>2, <1>5, <1>6 DEF IsPut

LEMMA TallyOfOne ==
  ASSUME NEW t, NEW x, NEW c
  PROVE  /\ t.puts = <<>> => Tally(c, t, x) = Is(c = x) + Is(t.ip = x) + Is(t.dp = x) + Is(t.old = x)
         /\ \A a : t.puts = <<a>> =>
              Tally(c, t, x) = Is(c = x) + Is(t.ip = x) + Is(t.dp = x) + Is(t.old = x) + Is(a = x)
         /\ \A a, b : t.puts = <<a, b>> =>
              Tally(c, t, x) = Is(c = x) + Is(t.ip = x) + Is(t.dp = x) + Is(t.old = x)
                               + (Is(a = x) + Is(b = x))
<1>1. SeqTally(<<>>, x) = 0
  BY DEF SeqTally, Is
<1>2. \A a : SeqTally(<<a>>, x) = Is(a = x)
  BY DEF SeqTally, Is
<1>3. \A a, b : SeqTally(<<a, b>>, x) = Is(a = x) + Is(b = x)
  BY DEF SeqTally, Is
<1>4. Tally(c, t, x) = Is(c = x) + Is(t.ip = x) + Is(t.dp = x) + Is(t.old = x) + SeqTally(t.puts, x)
  BY DEF Tally
<1>5. {Is(c = x), Is(t.ip = x), Is(t.dp = x), Is(t.old = x)} \subseteq Nat
  BY DEF Is
<1> DEFINE k == Is(c = x) + Is(t.ip = x) + Is(t.dp = x) + Is(t.old = x)
<1>6. k \in Nat /\ Tally(c, t, x) = k + SeqTally(t.puts, x)
  BY <1>4, <1>5
<1> HIDE DEF k
<1>7. t.puts = <<>> => Tally(c, t, x) = k
  BY <1>1, <1>6
<1>8. \A a : t.puts = <<a>> => Tally(c, t, x) = k + Is(a = x)
  BY <1>2, <1>6
<1>9. \A a, b : t.puts = <<a, b>> => Tally(c, t, x) = k + (Is(a = x) + Is(b = x))
  BY <1>3, <1>6
<1> QED BY <1>7, <1>8, <1>9 DEF k

LEMMA NoneIs ==
  ASSUME NEW x \in Slots
  PROVE  Is(0 = x) = 0 /\ Is(x = 0) = 0
BY DEF Is, Slots

\* The call of p becomes u, its directory c; the tables stay.
Becomes(p, c, u) ==
  /\ c \in {0} \cup Slots
  /\ OneCall(p, c, u) /\ UNCHANGED <<ftable, ofile>>
  /\ CallShape(u) /\ CallKeeps(u) /\ u.files = th[p].files
  /\ GoesOn(u) = "gone" => c = 0 /\ \A d \in 1 .. NOFILE : ofile[p][d] = 0

LEMMA KeepStep ==
  ASSUME Sound, NEW p \in Procs, NEW c, NEW u, Becomes(p, c, u), Keeps(fs, fs'),
         \A x \in Slots : Tally(c, u, x) = Tally(cwd[p], th[p], x)
  PROVE  RefsInv'
<1>1. RefsNat(fs)
  BY SoundFacts
<1>2. FsShape(fs') /\ RefsNat(fs')
  BY <1>1, KeepsNat DEF Keeps
<1>3. \A x \in Slots : fs'.slot[x].ref + Tally(cwd[p], th[p], x) = fs.slot[x].ref + Tally(c, u, x)
  BY DEF Keeps
<1> QED BY <1>2, <1>3, CallStep DEF Becomes

LEMMA TakeStep ==
  ASSUME Sound, NEW p \in Procs, NEW c, NEW u, Becomes(p, c, u),
         NEW s, Takes(fs, fs', s), fs'.panic = "none",
         \A x \in Slots : Tally(c, u, x) = Tally(cwd[p], th[p], x) + Is(x = s)
  PROVE  RefsInv'
<1>1. RefsNat(fs)
  BY SoundFacts
<1>2. \A x \in Slots : fs'.slot[x].ref = fs.slot[x].ref + Is(x = s)
  BY DEF Takes
<1>3. FsShape(fs') /\ RefsNat(fs')
  BY <1>1, <1>2 DEF Takes, RefsNat, Is
<1>4. \A x \in Slots : fs'.slot[x].ref + Tally(cwd[p], th[p], x) = fs.slot[x].ref + Tally(c, u, x)
  <2> TAKE x \in Slots
  <2>1. Tally(c, u, x) \in Nat /\ Tally(cwd[p], th[p], x) \in Nat /\ fs.slot[x].ref \in Nat
        /\ Is(x = s) \in Nat
    BY <1>1, TallyNat DEF RefsNat, Is
  <2> QED BY <1>2, <2>1
<1> QED BY <1>3, <1>4, CallStep DEF Becomes

-----------------------------------------------------------------------------
(* The calls that walk a path *)

\* Put the inode that is in ip, and go on.
IsPutIp(u, t, after) ==
  /\ CallShape(u) /\ u.files = t.files /\ GoesOn(u) = after
  /\ u.puts = <<t.ip>> /\ u.pc = "put" /\ u.ip = 0 /\ u.dp = t.dp /\ u.old = t.old
  /\ u.op = t.op /\ u.par = t.par /\ u.fail = t.fail
  /\ \A c : \A x \in Slots : Tally(c, u, x) = Tally(c, t, x)

LEMMA PutIp ==
  ASSUME NEW t, CallShape(t), t.puts = <<>>, NEW after
  PROVE  IsPutIp(Puts([t EXCEPT !.ip = 0], <<t.ip>>, after), t, after)
<1> DEFINE v == [t EXCEPT !.ip = 0]
           u == Puts(v, <<t.ip>>, after)
<1>1. CallShape(v) /\ t.ip \in {0} \cup Slots
  <2>1. 0 \in {0} \cup Slots /\ t.ip \in {0} \cup Slots
    BY DEF CallShape
  <2> QED BY <2>1, Refit
<1>2. /\ v.ip = 0 /\ v.dp = t.dp /\ v.old = t.old /\ v.files = t.files
      /\ v.op = t.op /\ v.par = t.par /\ v.fail = t.fail
  BY DEF CallShape, Idle
<1> HIDE DEF v
<1>3. IsPut(u, v, <<t.ip>>, after)
  BY <1>1, PutOne
<1> HIDE DEF u
<1>4. /\ CallShape(u) /\ u.files = t.files /\ GoesOn(u) = after
      /\ u.puts = <<t.ip>> /\ u.pc = "put" /\ u.ip = 0 /\ u.dp = t.dp /\ u.old = t.old
      /\ u.op = t.op /\ u.par = t.par /\ u.fail = t.fail
  BY <1>2, <1>3 DEF IsPut
<1>5. ASSUME NEW c, NEW x \in Slots PROVE Tally(c, u, x) = Tally(c, t, x)
  <2>1. Tally(c, u, x) = Is(c = x) + Is(0 = x) + Is(t.dp = x) + Is(t.old = x) + Is(t.ip = x)
    BY <1>4, TallyOfOne
  <2>2. Tally(c, t, x) = Is(c = x) + Is(t.ip = x) + Is(t.dp = x) + Is(t.old = x)
    BY TallyOfOne
  <2>3. Is(0 = x) = 0 /\ {Is(c = x), Is(t.ip = x), Is(t.dp = x), Is(t.old = x)} \subseteq Nat
    BY NoneIs DEF Is
  <2> QED BY <2>1, <2>2, <2>3
<1>6. IsPutIp(u, t, after)
  BY <1>4, <1>5 DEF IsPutIp
<1> QED BY <1>6 DEF u, v

LEMMA PutIpStep ==
  ASSUME Sound, NEW p \in Procs, NEW after, Goto(p, Puts([th[p] EXCEPT !.ip = 0], <<th[p].ip>>, after)),
         th[p].pc \notin {"put", "drop"}, UNCHANGED <<ftable, ofile, cwd>>, Keeps(fs, fs'),
         after \in {"idle", "link_bad", "unlink_bad"}, th[p].files = <<>>,
         after = "unlink_bad" \/ th[p].dp = 0,
         after = "link_bad" \/ th[p].old = 0
  PROVE  RefsInv'
<1> DEFINE t == th[p]
           u == Puts([t EXCEPT !.ip = 0], <<t.ip>>, after)
<1>1. t.puts = <<>> /\ CallShape(t) /\ cwd[p] \in {0} \cup Slots
  BY AtPc
<1>2. OneCall(p, cwd[p], u)
  BY GotoIs
<1>0. IsPutIp(u, t, after)
  BY <1>1, PutIp
<1> HIDE DEF u
<1>3. /\ CallShape(u) /\ u.files = t.files /\ GoesOn(u) = after
      /\ u.puts = <<t.ip>> /\ u.pc = "put" /\ u.ip = 0 /\ u.dp = t.dp /\ u.old = t.old
      /\ \A x \in Slots : Tally(cwd[p], u, x) = Tally(cwd[p], t, x)
  BY <1>0 DEF IsPutIp
<1>4. CallKeeps(u)
  BY <1>3 DEF CallKeeps
<1>5. GoesOn(u) # "gone"
  BY <1>3
<1>6. Becomes(p, cwd[p], u)
  BY <1>1, <1>2, <1>3, <1>4, <1>5 DEF Becomes
<1> QED BY <1>3, <1>6, KeepStep

LEMMA namexRefs ==
  ASSUME Sound, NEW p \in Procs, namex(p)
  PROVE  RefsInv'
<1> SUFFICES ASSUME fs'.panic = "none" PROVE RefsInv'
  BY DEF RefsInv
<1> DEFINE t == th[p]
           s == t.ip
           f == Loaded(fs, s)
<1>1. /\ t.pc = "walk" /\ UNCHANGED <<ftable, ofile, cwd>>
  BY DEF namex, Running
<1>2. /\ t.puts = <<>> /\ CallShape(t) /\ CallKeeps(t) /\ cwd[p] \in {0} \cup Slots
      /\ GoesOn(t) = "walk"
  BY <1>1, AtPc
<1>3. /\ t.files = <<>> /\ t.dp = 0 /\ t.op \in ByPath /\ t.fail \in {"idle", "link_bad"}
      /\ t.old # 0 => t.par /\ t.fail = "link_bad"
  BY <1>2 DEF CallKeeps
<1>4. Keeps(fs, fs) /\ Keeps(fs, f) /\ FsShape(f) /\ RefsNat(f)
  BY SoundFacts, LoadedKeeps, KeepsNat DEF Keeps
<1>5. t.old = 0 \/ t.fail = "link_bad"
  BY <1>3
<1>6. ASSUME Goto(p, Puts([t EXCEPT !.ip = 0], <<s>>, t.fail)), fs' \in {fs, f}
      PROVE  RefsInv'
  BY <1>1, <1>3, <1>4, <1>5, <1>6, PutIpStep
<1>7. ASSUME NEW u, Goto(p, u), fs' \in {fs, f}, CallShape(u),
             \/ u.pc \in {"open", "create", "unlink", "link", "chdir", "exec"} /\ u.old = 0
             \/ u.pc = "link2",
             u.ip = t.ip, u.dp = 0, u.old = t.old, u.files = <<>>, u.puts = <<>>, u.op = t.op
      PROVE  RefsInv'
  <2>1. OneCall(p, cwd[p], u)
    BY <1>1, <1>7, GotoIs
  <2>2. GoesOn(u) = u.pc
    BY <1>7 DEF GoesOn
  <2>3. CallKeeps(u)
    BY <1>3, <1>7, <2>2 DEF CallKeeps
  <2>4. \A x \in Slots : Tally(cwd[p], u, x) = Tally(cwd[p], t, x)
    BY <1>2, <1>3, <1>7 DEF Tally
  <2>5. Becomes(p, cwd[p], u)
    BY <1>1, <1>2, <1>3, <1>7, <2>1, <2>2, <2>3 DEF Becomes
  <2> QED BY <1>4, <1>7, <2>4, <2>5, KeepStep
<1>8. AfterWalk(t.op) \in {"open", "create", "unlink", "link", "chdir", "exec"}
  BY <1>3 DEF AfterWalk, ByPath
<1>9. CASE t.path = <<>> /\ ~t.par /\ Goto(p, [t EXCEPT !.pc = AfterWalk(t.op)]) /\ UNCHANGED fs
  <2> DEFINE u == [t EXCEPT !.pc = AfterWalk(t.op)]
  <2>1. CallShape(u)
    BY <1>2, Refit
  <2>2. /\ u.pc = AfterWalk(t.op) /\ u.ip = t.ip /\ u.dp = t.dp /\ u.old = t.old
        /\ u.files = t.files /\ u.puts = t.puts /\ u.op = t.op
    BY <1>2 DEF CallShape, Idle
  <2> HIDE DEF u
  <2>3. t.old = 0
    BY <1>3, <1>9
  <2> QED BY <1>2, <1>3, <1>7, <1>8, <1>9, <2>1, <2>2, <2>3 DEF u
<1>10. ASSUME NEW pc, (pc = AfterWalk(t.op) /\ t.old = 0) \/ pc = "link2",
              NEW name, Goto(p, [t EXCEPT !.pc = pc, !.name = name, !.path = <<>>]), fs' = f
       PROVE  RefsInv'
  <2> DEFINE u == [t EXCEPT !.pc = pc, !.name = name, !.path = <<>>]
  <2>1. CallShape(u)
    BY <1>2 DEF CallShape, Idle
  <2>2. /\ u.pc = pc /\ u.ip = t.ip /\ u.dp = t.dp /\ u.old = t.old
        /\ u.files = t.files /\ u.puts = t.puts /\ u.op = t.op
    BY <1>2 DEF CallShape, Idle
  <2> HIDE DEF u
  <2> QED BY <1>2, <1>3, <1>7, <1>8, <1>10, <2>1, <2>2 DEF u
<1>11. ASSUME NEW i, fs' = iget(f, i), NEW a,
              Goto(p, Puts([t EXCEPT !.ip = SlotOf(f, i), !.path = a], <<s>>, "walk"))
       PROVE  RefsInv'
  <2> DEFINE k == SlotOf(f, i)
             v == [t EXCEPT !.ip = k, !.path = a]
             u == Puts(v, <<s>>, "walk")
  <2>1. Takes(f, iget(f, i), k)
    BY <1>4, GetTakes
  <2>2. Takes(fs, fs', k)
    BY <1>4, <1>11, <2>1, KeepsTakes
  <2>3. k \in {0} \cup Slots
    BY <2>2 DEF Takes
  <2> HIDE DEF k
  <2>4. CallShape(v)
    BY <1>2, <2>3 DEF CallShape, Idle
  <2>5. /\ v.ip = k /\ v.dp = t.dp /\ v.old = t.old /\ v.files = t.files /\ v.op = t.op
        /\ v.par = t.par /\ v.fail = t.fail
    BY <1>2 DEF CallShape, Idle
  <2> HIDE DEF v
  <2>6. s \in {0} \cup Slots
    BY <1>2 DEF CallShape
  <2>0. IsPut(u, v, <<s>>, "walk")
    BY <2>4, <2>6, PutOne
  <2> HIDE DEF u
  <2>7. /\ CallShape(u) /\ u.pc = "put" /\ u.puts = <<s>> /\ GoesOn(u) = "walk"
        /\ u.ip = k /\ u.dp = 0 /\ u.old = t.old /\ u.files = <<>>
        /\ u.op = t.op /\ u.par = t.par /\ u.fail = t.fail
    BY <1>3, <2>0, <2>5 DEF IsPut
  <2>8. CallKeeps(u)
    BY <1>3, <2>7 DEF CallKeeps
  <2>9. OneCall(p, cwd[p], u)
    BY <1>1, <1>11, GotoIs DEF u, v, k
  <2>10. ASSUME NEW x \in Slots PROVE Tally(cwd[p], u, x) = Tally(cwd[p], t, x) + Is(x = k)
    <3>1. Tally(cwd[p], u, x) = Is(cwd[p] = x) + Is(k = x) + Is(0 = x) + Is(t.old = x) + Is(s = x)
      BY <2>7, TallyOfOne
    <3>2. Tally(cwd[p], t, x) = Is(cwd[p] = x) + Is(s = x) + Is(0 = x) + Is(t.old = x)
      BY <1>2, <1>3, TallyOfOne
    <3>3. Is(k = x) = Is(x = k) /\ {Is(cwd[p] = x), Is(s = x), Is(0 = x), Is(t.old = x), Is(k = x)} \subseteq Nat
      BY DEF Is
    <3> QED BY <3>1, <3>2, <3>3
  <2>11. GoesOn(u) # "gone" /\ u.files = t.files
    BY <1>3, <2>7
  <2>12. Becomes(p, cwd[p], u)
    BY <1>1, <1>2, <2>7, <2>8, <2>9, <2>11 DEF Becomes
  <2> QED BY <2>2, <2>10, <2>12, TakeStep
<1>12. CASE t.path = <<>> /\ t.par /\ Goto(p, Puts([t EXCEPT !.ip = 0], <<s>>, t.fail)) /\ UNCHANGED fs
  BY <1>6, <1>12
<1>13. CASE t.path # <<>>
  <2> DEFINE name == Head(t.path)
             off == Offset(f, s, name)
  <2>1. \/ /\ fs' = f
           /\ Goto(p, Puts([t EXCEPT !.ip = 0], <<s>>, t.fail))
        \/ /\ fs' = f
           /\ Goto(p, [t EXCEPT !.pc = IF t.old = 0 THEN AfterWalk(t.op) ELSE "link2",
                                !.name = name, !.path = <<>>])
        \/ /\ fs' = iget(f, InumAt(f, s, off))
           /\ Goto(p, Puts([t EXCEPT !.ip = SlotOf(f, InumAt(f, s, off)), !.path = Tail(@)],
                           <<s>>, "walk"))
    BY <1>13 DEF namex
  <2> DEFINE pc == IF t.old = 0 THEN AfterWalk(t.op) ELSE "link2"
  <2>2. (pc = AfterWalk(t.op) /\ t.old = 0) \/ pc = "link2"
    OBVIOUS
  <2> HIDE DEF off, name, f, pc
  <2>3. CASE fs' = f /\ Goto(p, Puts([t EXCEPT !.ip = 0], <<s>>, t.fail))
    BY <1>6, <2>3
  <2>4. CASE fs' = f /\ Goto(p, [t EXCEPT !.pc = pc, !.name = name, !.path = <<>>])
    BY <1>10, <2>2, <2>4
  <2>5. CASE /\ fs' = iget(f, InumAt(f, s, off))
             /\ Goto(p, Puts([t EXCEPT !.ip = SlotOf(f, InumAt(f, s, off)), !.path = Tail(@)],
                             <<s>>, "walk"))
    BY <1>11, <2>5
  <2> QED BY <2>1, <2>3, <2>4, <2>5 DEF pc
<1> QED BY <1>9, <1>12, <1>13 DEF namex

\* A slot has at least the references that two different processes have.
LEMMA UsesAtLeast ==
  ASSUME Sound, NEW p \in Procs, NEW s
  PROVE  /\ Cardinality(UsesOf(s)) \in Nat
         /\ Cardinality(UsesOf(s)) >= Tally(cwd[p], th[p], s)
         /\ \A q \in Procs \ {p} :
              Cardinality(UsesOf(s)) >= Tally(cwd[p], th[p], s) + Tally(cwd[q], th[q], s)
<1> DEFINE K == 1 .. 6
           S == UsesOf(s)
           row(q) == Row(S, K, q)
           Less(R, q) == {x \in R : x[1] # q}
           n(q) == Tally(cwd[q], th[q], s)
<1>1. IsFiniteSet(Procs) /\ IsFiniteSet(K) /\ S \in SUBSET (Procs \X K)
  <2>1. IsFiniteSet(K)
    <3>1. 1 \in Int /\ 6 \in Int
      OBVIOUS
    <3> QED BY <3>1, FS_Interval
  <2> QED BY <2>1, SizesAssumption DEF UsesOf
<1>2. \A q \in Procs : Cardinality(row(q)) = n(q) /\ n(q) \in Nat
  <2> TAKE q \in Procs
  <2>1. row(q) = {k \in 1 .. 6 : k <= Len(References(cwd[q], th[q])) /\ References(cwd[q], th[q])[k] = s}
    BY DEF UsesOf, Referred, Row
  <2>2. CallShape(th[q]) /\ cwd[q] \in {0} \cup Slots
    BY SoundFacts
  <2> QED BY <2>1, <2>2, TallyOfReferred, TallyNat, Zenon
<1> HIDE DEF K, S, n
<1>3. ASSUME NEW q \in Procs, NEW R \in SUBSET (Procs \X K)
      PROVE  /\ Cardinality(R) \in Nat /\ Cardinality(Less(R, q)) \in Nat
             /\ Cardinality(Row(R, K, q)) \in Nat
             /\ Cardinality(R) = Cardinality(Less(R, q)) + Cardinality(Row(R, K, q))
  <2> DEFINE T == Less(R, q)
  <2>1. Row(T, K, q) = {}
    BY DEF Row
  <2>0. /\ IsFiniteSet(Procs) /\ IsFiniteSet(K)
        /\ R \in SUBSET (Procs \X K) /\ T \in SUBSET (Procs \X K)
        /\ \A o \in Procs \ {q} : \A k \in K : <<o, k>> \in R <=> <<o, k>> \in T
    BY <1>1
  <2> HIDE DEF T
  <2>2. /\ Cardinality(R) \in Nat /\ Cardinality(T) \in Nat
        /\ Cardinality(Row(R, K, q)) \in Nat
        /\ Cardinality(T) + Cardinality(Row(R, K, q))
             = Cardinality(R) + Cardinality(Row(T, K, q))
    BY <2>0, OneRow
  <2>3. Cardinality({}) = 0
    BY FS_EmptySet
  <2> DEFINE row1 == Row(R, K, q)
  <2>4. Cardinality(T) + Cardinality(row1) = Cardinality(R) + 0
    BY <2>1, <2>2, <2>3
  <2>5. Cardinality(R) \in Nat /\ Cardinality(T) \in Nat /\ Cardinality(row1) \in Nat
    BY <2>2
  <2> HIDE DEF row1
  <2>6. Cardinality(R) = Cardinality(T) + Cardinality(row1)
    BY <2>4, <2>5
  <2> QED BY <2>5, <2>6 DEF T, row1
<1>4. /\ Cardinality(S) \in Nat /\ Cardinality(Less(S, p)) \in Nat
      /\ Cardinality(S) = Cardinality(Less(S, p)) + n(p)
  BY <1>1, <1>2, <1>3
<1>5. ASSUME NEW q \in Procs \ {p}
      PROVE  Cardinality(Less(S, p)) >= n(q)
  <2> DEFINE R == Less(S, p)
  <2>1. R \in SUBSET (Procs \X K) /\ Row(R, K, q) = row(q)
    BY <1>1 DEF Row
  <2> HIDE DEF R
  <2>2. /\ Cardinality(R) \in Nat /\ Cardinality(Less(R, q)) \in Nat
        /\ Cardinality(R) = Cardinality(Less(R, q)) + Cardinality(Row(R, K, q))
    BY <1>3, <2>1
  <2>3. Cardinality(Row(R, K, q)) = n(q) /\ n(q) \in Nat
    BY <1>2, <2>1
  <2> HIDE DEF Less
  <2> QED BY <2>2, <2>3 DEF R
<1>6. \A q \in Procs : n(q) \in Nat
  BY <1>2
<1> HIDE DEF Less
<1>7. Cardinality(S) >= n(p) /\ \A q \in Procs \ {p} : Cardinality(S) >= n(p) + n(q)
  BY <1>4, <1>5, <1>6
<1> QED BY <1>4, <1>7 DEF S, n

LEMMA RefsAtLeast ==
  ASSUME Sound, NEW p \in Procs, NEW s \in Slots
  PROVE  /\ fs.slot[s].ref \in Nat
         /\ fs.slot[s].ref >= Tally(cwd[p], th[p], s) + Cardinality(FilesOn(s))
         /\ \A q \in Procs \ {p} :
              fs.slot[s].ref >= Tally(cwd[p], th[p], s) + Tally(cwd[q], th[q], s)
<1>1. fs.slot[s].ref = Cardinality(FilesOn(s)) + Cardinality(UsesOf(s))
  BY SoundFacts DEF RefsCount, Sound
<1>2. Cardinality(FilesOn(s)) \in Nat
  BY FilesOnFinite
<1>3. \A q \in Procs : Tally(cwd[q], th[q], s) \in Nat
  BY TallyNat
<1>4. /\ Cardinality(UsesOf(s)) \in Nat
      /\ Cardinality(UsesOf(s)) >= Tally(cwd[p], th[p], s)
      /\ \A q \in Procs \ {p} :
           Cardinality(UsesOf(s)) >= Tally(cwd[p], th[p], s) + Tally(cwd[q], th[q], s)
  BY UsesAtLeast
<1> QED BY <1>1, <1>2, <1>3, <1>4

LEMMA ShortSeq ==
  ASSUME NEW A, NEW q \in Seq(A), Len(q) <= 2, q # <<>>
  PROVE  \/ q = <<Head(q)>> /\ Tail(q) = <<>>
         \/ \E b \in A : q = <<Head(q), b>> /\ Tail(q) = <<b>>
<1> DEFINE n == Len(q)
<1>1. /\ Head(q) \in A /\ Head(q) = q[1] /\ Tail(q) \in Seq(A) /\ Len(Tail(q)) = n - 1
      /\ \A i \in 1 .. Len(Tail(q)) : Tail(q)[i] = q[i + 1]
  <2>1. Head(q) = q[1]
    OBVIOUS
  <2> QED BY <2>1, HeadTailProperties
<1>2. n = 1 \/ n = 2
  <2>1. n \in Nat /\ n # 0 /\ n <= 2
    BY EmptySeq
  <2> HIDE DEF n
  <2> QED BY <2>1
<1>3. CASE n = 1
  <2>1. <<Head(q)>> \in Seq(A) /\ Len(<<Head(q)>>) = Len(q)
    BY <1>1, <1>3
  <2>2. \A i \in 1 .. Len(q) : q[i] = <<Head(q)>>[i]
    BY <1>1, <1>3
  <2>3. q = <<Head(q)>>
    BY <2>1, <2>2, SeqEqual
  <2>4. Len(Tail(q)) = 0
    BY <1>1, <1>3
  <2>5. Tail(q) = <<>>
    BY <1>1, <2>4, EmptySeq
  <2> QED BY <2>3, <2>5
<1>4. CASE n = 2
  <2> DEFINE b == q[2]
  <2>1. b \in A
    <3>1. 2 \in 1 .. Len(q)
      BY <1>4
    <3> QED BY <3>1, ElementOfSeq
  <2>2. Tail(q)[1] = b
    <3>1. 1 \in 1 .. Len(Tail(q))
      BY <1>1, <1>4
    <3> QED BY <1>1, <3>1
  <2> HIDE DEF b
  <2>3. <<Head(q), b>> \in Seq(A) /\ <<b>> \in Seq(A)
    BY <1>1, <2>1
  <2>4. Len(<<Head(q), b>>) = Len(q) /\ Len(<<b>>) = Len(Tail(q))
    BY <1>1, <1>4
  <2>5. \A i \in 1 .. Len(q) : q[i] = <<Head(q), b>>[i]
    BY <1>1, <1>4 DEF b
  <2>6. \A i \in 1 .. Len(Tail(q)) : Tail(q)[i] = <<b>>[i]
    <3>1. Len(Tail(q)) = 1
      BY <1>1, <1>4
    <3>2. \A i \in 1 .. Len(Tail(q)) : i = 1
      BY <3>1
    <3> QED BY <2>2, <3>2
  <2>7. q = <<Head(q), b>>
    BY <2>3, <2>4, <2>5, SeqEqual
  <2>8. Tail(q) = <<b>>
    BY <1>1, <2>3, <2>4, <2>6, SeqEqual
  <2> QED BY <2>1, <2>7, <2>8
<1> QED BY <1>2, <1>3, <1>4

LEMMA DropStep ==
  ASSUME Sound, NEW p \in Procs, NEW c, NEW u, Becomes(p, c, u),
         NEW s, fs' = PutDrop(fs, s),
         \A x \in Slots : Tally(c, u, x) + Is(x = s) = Tally(cwd[p], th[p], x)
  PROVE  RefsInv'
<1>1. FsShape(fs) /\ RefsNat(fs)
  BY SoundFacts
<1>2. \A x \in Slots : fs.slot[x].ref >= Tally(cwd[p], th[p], x)
  <2> TAKE x \in Slots
  <2>1. Cardinality(FilesOn(x)) \in Nat /\ Tally(cwd[p], th[p], x) \in Nat
    BY FilesOnFinite, TallyNat
  <2>2. /\ fs.slot[x].ref \in Nat
        /\ fs.slot[x].ref >= Tally(cwd[p], th[p], x) + Cardinality(FilesOn(x))
    BY RefsAtLeast
  <2> QED BY <2>1, <2>2
<1>3. FsShape(fs') /\ \A x \in Slots : fs'.slot[x].ref = IF x = s THEN fs.slot[x].ref - 1 ELSE fs.slot[x].ref
  BY <1>1 DEF PutDrop, FsShape
<1>4. \A x \in Slots : /\ fs'.slot[x].ref \in Nat
                       /\ fs'.slot[x].ref + Tally(cwd[p], th[p], x) = fs.slot[x].ref + Tally(c, u, x)
  <2> TAKE x \in Slots
  <2> DEFINE m == Tally(c, u, x)
             k == Tally(cwd[p], th[p], x)
             r == fs.slot[x].ref
  <2>1. m \in Nat /\ k \in Nat /\ r \in Nat /\ r >= k /\ m + Is(x = s) = k
    BY <1>1, <1>2, TallyNat DEF RefsNat
  <2> HIDE DEF m, k, r
  <2>2. CASE x = s
    <3>1. m + 1 = k /\ fs'.slot[x].ref = r - 1
      BY <1>3, <2>1, <2>2 DEF Is, r
    <3>2. r - 1 \in Nat /\ (r - 1) + k = r + m
      BY <2>1, <3>1
    <3> QED BY <3>1, <3>2 DEF m, k, r
  <2>3. CASE x # s
    <3>1. m = k /\ fs'.slot[x].ref = r
      BY <1>3, <2>1, <2>3 DEF Is, r
    <3> QED BY <2>1, <3>1 DEF m, k, r
  <2> QED BY <2>2, <2>3
<1>5. RefsNat(fs')
  BY <1>4 DEF RefsNat
<1> QED BY <1>3, <1>4, <1>5, CallStep DEF Becomes

LEMMA iputRefs ==
  ASSUME Sound, NEW p \in Procs, iput(p)
  PROVE  RefsInv'
<1> DEFINE t == th[p]
           u == [t EXCEPT !.pc = "drop"]
<1>1. /\ t.pc = "put" /\ UNCHANGED <<ftable, ofile, cwd>> /\ Goto(p, u)
      /\ fs' = PutBody(fs, Head(t.puts))
  BY DEF iput, Running
<1>2. /\ CallShape(t) /\ CallKeeps(t) /\ GoneHasNothing /\ FsShape(fs)
      /\ cwd[p] \in {0} \cup Slots
  BY SoundFacts
<1>3. CallShape(u)
  BY <1>2, Refit
<1>4. /\ u.pc = "drop" /\ u.ip = t.ip /\ u.dp = t.dp /\ u.old = t.old /\ u.puts = t.puts
      /\ u.files = t.files /\ u.after = t.after
      /\ u.op = t.op /\ u.par = t.par /\ u.fail = t.fail
  BY <1>2 DEF CallShape, Idle
<1>5. OneCall(p, cwd[p], u)
  BY <1>1, GotoIs
<1> HIDE DEF u
<1>6. GoesOn(u) = t.after /\ GoesOn(t) = t.after
  BY <1>1, <1>4 DEF GoesOn
<1>7. CallKeeps(u)
  BY <1>1, <1>2, <1>4, <1>6 DEF CallKeeps
<1>8. \A x \in Slots : Tally(cwd[p], u, x) = Tally(cwd[p], t, x)
  BY <1>4 DEF Tally
<1>9. Becomes(p, cwd[p], u)
  BY <1>1, <1>2, <1>3, <1>4, <1>5, <1>6, <1>7 DEF Becomes, GoneHasNothing
<1>10. Keeps(fs, fs')
  BY <1>1, <1>2, PutKeeps
<1> QED BY <1>8, <1>9, <1>10, KeepStep

LEMMA iput_dropRefs ==
  ASSUME Sound, NEW p \in Procs, iput_drop(p)
  PROVE  RefsInv'
<1> DEFINE t == th[p]
           s == Head(t.puts)
           rest == Tail(t.puts)
           v == Puts(t, rest, t.after)
           u == Ended(v)
<1>1. /\ t.pc = "drop" /\ UNCHANGED <<ftable, ofile, cwd>> /\ Goto(p, u)
      /\ fs' = PutDrop(fs, s)
  BY DEF iput_drop, Running
<1>2. /\ CallShape(t) /\ CallKeeps(t) /\ GoneHasNothing /\ cwd[p] \in {0} \cup Slots
  BY SoundFacts
<1>3. /\ GoesOn(t) = t.after /\ t.puts # <<>> /\ t.after \notin {"put", "drop"}
      /\ t.after \in {"idle", "gone"} => t.ip = 0 /\ t.dp = 0 /\ t.old = 0 /\ t.files = <<>>
  BY <1>1, <1>2 DEF CallKeeps, GoesOn
<1>4. OneCall(p, cwd[p], u)
  BY <1>1, GotoIs
<1>5. \/ t.puts = <<s>> /\ rest = <<>>
      \/ \E b \in {0} \cup Slots : t.puts = <<s, b>> /\ rest = <<b>>
  BY <1>2, <1>3, ShortSeq DEF CallShape
<1>6. ASSUME CallShape(u), CallKeeps(u), u.files = t.files, GoesOn(u) = t.after,
             \A x \in Slots : Tally(cwd[p], u, x) + Is(x = s) = Tally(cwd[p], t, x)
      PROVE  RefsInv'
  <2> HIDE DEF u
  <2>1. Becomes(p, cwd[p], u)
    BY <1>1, <1>2, <1>3, <1>4, <1>6 DEF Becomes, GoneHasNothing
  <2> QED BY <1>1, <1>6, <2>1, DropStep
<1>7. CASE t.puts = <<s>> /\ rest = <<>> /\ t.after \in {"idle", "gone"}
  <2>1. v = [t EXCEPT !.pc = t.after, !.puts = <<>>]
    BY <1>7 DEF Puts
  <2>2. v.pc = t.after
    BY <1>2, <2>1 DEF CallShape, Idle
  <2>3. u = [Idle EXCEPT !.pc = t.after]
    BY <1>7, <2>2 DEF Ended
  <2> HIDE DEF u, v
  <2>4. /\ u.pc = t.after /\ u.ip = 0 /\ u.dp = 0 /\ u.old = 0 /\ u.puts = <<>> /\ u.files = <<>>
        /\ DOMAIN u = DOMAIN Idle
    BY <2>3 DEF Idle
  <2>5. CallShape(u)
    BY <2>4 DEF CallShape
  <2>6. GoesOn(u) = t.after
    BY <1>3, <2>4 DEF GoesOn
  <2>7. CallKeeps(u)
    BY <1>3, <1>7, <2>4, <2>6 DEF CallKeeps
  <2>8. ASSUME NEW x \in Slots PROVE Tally(cwd[p], u, x) + Is(x = s) = Tally(cwd[p], t, x)
    <3>1. Tally(cwd[p], u, x) = Is(cwd[p] = x) + Is(0 = x) + Is(0 = x) + Is(0 = x)
      BY <2>4, TallyOfOne
    <3>2. Tally(cwd[p], t, x) = Is(cwd[p] = x) + Is(0 = x) + Is(0 = x) + Is(0 = x) + Is(s = x)
      BY <1>3, <1>7, TallyOfOne
    <3>3. Is(s = x) = Is(x = s) /\ {Is(cwd[p] = x), Is(0 = x), Is(s = x)} \subseteq Nat
      BY DEF Is
    <3> QED BY <3>1, <3>2, <3>3
  <2> QED BY <1>3, <1>6, <1>7, <2>4, <2>5, <2>6, <2>7, <2>8
<1>8. CASE t.puts = <<s>> /\ rest = <<>> /\ t.after \notin {"idle", "gone"}
  <2>1. v = [t EXCEPT !.pc = t.after, !.puts = <<>>]
    BY <1>8 DEF Puts
  <2>2. /\ v.pc = t.after /\ v.ip = t.ip /\ v.dp = t.dp /\ v.old = t.old /\ v.puts = <<>>
        /\ v.files = t.files /\ v.op = t.op /\ v.par = t.par /\ v.fail = t.fail
        /\ DOMAIN v = DOMAIN Idle
    BY <1>2, <2>1 DEF CallShape, Idle
  <2>3. u = v
    BY <1>8, <2>2 DEF Ended
  <2> HIDE DEF u, v
  <2>4. CallShape(u)
    <3>1. CallShape(v)
      BY <1>2, <2>2 DEF CallShape
    <3> QED BY <2>3, <3>1
  <2>5. GoesOn(u) = t.after
    BY <1>3, <2>2, <2>3 DEF GoesOn
  <2>6. CallKeeps(u)
    BY <1>2, <1>3, <1>8, <2>2, <2>3, <2>5 DEF CallKeeps
  <2>7. ASSUME NEW x \in Slots PROVE Tally(cwd[p], u, x) + Is(x = s) = Tally(cwd[p], t, x)
    <3>1. Tally(cwd[p], u, x) = Is(cwd[p] = x) + Is(t.ip = x) + Is(t.dp = x) + Is(t.old = x)
      BY <2>2, <2>3, TallyOfOne
    <3>2. Tally(cwd[p], t, x) = Is(cwd[p] = x) + Is(t.ip = x) + Is(t.dp = x) + Is(t.old = x) + Is(s = x)
      BY <1>8, TallyOfOne
    <3>3. Is(s = x) = Is(x = s)
      BY DEF Is
    <3> QED BY <3>1, <3>2, <3>3
  <2> QED BY <1>6, <2>2, <2>3, <2>4, <2>5, <2>6, <2>7
<1>9. ASSUME NEW b \in {0} \cup Slots, t.puts = <<s, b>>, rest = <<b>>
      PROVE  RefsInv'
  <2>1. IsPut(v, t, <<b>>, t.after)
    BY <1>2, <1>9, PutOne
  <2>2. u = v
    BY <2>1 DEF IsPut, Ended
  <2> HIDE DEF u, v
  <2>3. /\ CallShape(u) /\ u.pc = "put" /\ u.puts = <<b>> /\ GoesOn(u) = t.after
        /\ u.ip = t.ip /\ u.dp = t.dp /\ u.old = t.old /\ u.files = t.files
        /\ u.op = t.op /\ u.par = t.par /\ u.fail = t.fail
    BY <2>1, <2>2 DEF IsPut
  <2>4. CallKeeps(u)
    BY <1>2, <1>3, <2>3 DEF CallKeeps
  <2>5. ASSUME NEW x \in Slots PROVE Tally(cwd[p], u, x) + Is(x = s) = Tally(cwd[p], t, x)
    <3> DEFINE k == Is(cwd[p] = x) + Is(t.ip = x) + Is(t.dp = x) + Is(t.old = x)
    <3>1. Tally(cwd[p], u, x) = k + Is(b = x)
      BY <2>3, TallyOfOne
    <3>2. Tally(cwd[p], t, x) = k + (Is(s = x) + Is(b = x))
      BY <1>9, TallyOfOne
    <3>3. Is(s = x) = Is(x = s) /\ k \in Nat /\ Is(s = x) \in Nat /\ Is(b = x) \in Nat
      BY DEF Is
    <3> HIDE DEF k
    <3> QED BY <3>1, <3>2, <3>3
  <2> QED BY <1>6, <2>3, <2>4, <2>5
<1> QED BY <1>5, <1>7, <1>8, <1>9

\* Put the inode that is in dp, and go on.
LEMMA PutDpStep ==
  ASSUME Sound, NEW p \in Procs, NEW after,
         Goto(p, Puts([th[p] EXCEPT !.dp = 0], <<th[p].dp>>, after)),
         th[p].pc \notin {"put", "drop"}, UNCHANGED <<ftable, ofile, cwd>>, Keeps(fs, fs'),
         after \in {"create_end", "unlink_drop", "idle", "link_bad"}, th[p].files = <<>>,
         after \in {"create_end", "unlink_drop"} \/ th[p].ip = 0,
         after = "link_bad" \/ th[p].old = 0
  PROVE  RefsInv'
<1> DEFINE t == th[p]
           v == [t EXCEPT !.dp = 0]
           u == Puts(v, <<t.dp>>, after)
<1>1. t.puts = <<>> /\ CallShape(t) /\ cwd[p] \in {0} \cup Slots
  BY AtPc
<1>2. OneCall(p, cwd[p], u)
  BY GotoIs
<1>3. CallShape(v) /\ t.dp \in {0} \cup Slots
  <2>1. 0 \in {0} \cup Slots /\ t.dp \in {0} \cup Slots
    BY <1>1 DEF CallShape
  <2> QED BY <1>1, <2>1, Refit
<1>4. /\ v.ip = t.ip /\ v.dp = 0 /\ v.old = t.old /\ v.files = t.files
  BY <1>1 DEF CallShape, Idle
<1> HIDE DEF v
<1>5. IsPut(u, v, <<t.dp>>, after)
  BY <1>3, PutOne
<1> HIDE DEF u
<1>6. /\ CallShape(u) /\ u.files = t.files /\ GoesOn(u) = after
      /\ u.puts = <<t.dp>> /\ u.pc = "put" /\ u.ip = t.ip /\ u.dp = 0 /\ u.old = t.old
  BY <1>4, <1>5 DEF IsPut
<1>7. CallKeeps(u)
  BY <1>6 DEF CallKeeps
<1>8. ASSUME NEW x \in Slots PROVE Tally(cwd[p], u, x) = Tally(cwd[p], t, x)
  <2>1. Tally(cwd[p], u, x) = Is(cwd[p] = x) + Is(t.ip = x) + Is(0 = x) + Is(t.old = x) + Is(t.dp = x)
    BY <1>6, TallyOfOne
  <2>2. Tally(cwd[p], t, x) = Is(cwd[p] = x) + Is(t.ip = x) + Is(t.dp = x) + Is(t.old = x)
    BY <1>1, TallyOfOne
  <2>3. Is(0 = x) = 0 /\ {Is(cwd[p] = x), Is(t.ip = x), Is(t.dp = x), Is(t.old = x)} \subseteq Nat
    BY NoneIs DEF Is
  <2> QED BY <2>1, <2>2, <2>3
<1>9. Becomes(p, cwd[p], u)
  BY <1>1, <1>2, <1>6, <1>7 DEF Becomes
<1> QED BY <1>8, <1>9, KeepStep

\* An operation under the lock of its inode.
LEMMA UnderLock ==
  ASSUME Sound, NEW s
  PROVE  /\ Keeps(fs, fs) /\ FsShape(fs) /\ RefsNat(fs)
         /\ Keeps(fs, Loaded(fs, s)) /\ FsShape(Loaded(fs, s)) /\ RefsNat(Loaded(fs, s))
         /\ \A d : Keeps(fs, Unlock(fs, d)) /\ Keeps(fs, Unlock(Loaded(fs, s), d))
<1>1. FsShape(fs) /\ RefsNat(fs)
  BY SoundFacts
<1>2. Keeps(fs, Loaded(fs, s))
  BY <1>1, LoadedKeeps
<1>3. FsShape(Loaded(fs, s)) /\ RefsNat(Loaded(fs, s))
  BY <1>1, <1>2, KeepsNat DEF Keeps
<1>4. \A d : Keeps(fs, Unlock(fs, d)) /\ Keeps(Loaded(fs, s), Unlock(Loaded(fs, s), d))
  BY <1>1, <1>3, SlotKeeps
<1>5. \A d : Keeps(fs, Unlock(Loaded(fs, s), d))
  BY <1>2, <1>4, KeepsKeeps
<1>6. Keeps(fs, fs)
  BY <1>1 DEF Keeps
<1> QED BY <1>1, <1>2, <1>3, <1>4, <1>5, <1>6

LEMMA execRefs ==
  ASSUME Sound, NEW p \in Procs, exec(p)
  PROVE  RefsInv'
<1>1. /\ th[p].pc = "exec" /\ UNCHANGED <<ftable, ofile, cwd>> /\ fs' = Loaded(fs, th[p].ip)
      /\ Goto(p, Puts([th[p] EXCEPT !.ip = 0], <<th[p].ip>>, "idle"))
  BY DEF exec, Running
<1>2. th[p].files = <<>> /\ th[p].dp = 0 /\ th[p].old = 0
  BY <1>1, AtPc DEF CallKeeps
<1>3. Keeps(fs, fs')
  BY <1>1, UnderLock
<1> QED BY <1>1, <1>2, <1>3, PutIpStep

LEMMA unlink_dropRefs ==
  ASSUME Sound, NEW p \in Procs, unlink_drop(p)
  PROVE  RefsInv'
<1> DEFINE s == th[p].ip
           n == fs.slot[s].core.nlink - 1
           g == [fs EXCEPT !.slot[s].core.nlink = n]
           h == iupdate(g, s)
<1>1. /\ th[p].pc = "unlink_drop" /\ UNCHANGED <<ftable, ofile, cwd>> /\ fs' = Unlock(h, s)
      /\ Goto(p, Puts([th[p] EXCEPT !.ip = 0], <<th[p].ip>>, "idle"))
  BY DEF unlink_drop, Running
<1>2. th[p].files = <<>> /\ th[p].dp = 0 /\ th[p].old = 0
  BY <1>1, AtPc DEF CallKeeps
<1>3. Keeps(fs, g)
  BY UnderLock, CoreKeeps
<1> HIDE DEF n, g
<1>4. Keeps(g, h)
  BY <1>3, UpdateKeeps DEF Keeps
<1> HIDE DEF h
<1>5. Keeps(h, Unlock(h, s))
  BY <1>4, SlotKeeps DEF Keeps
<1>6. Keeps(fs, fs')
  BY <1>1, <1>3, <1>4, <1>5, KeepsKeeps
<1> QED BY <1>1, <1>2, <1>6, PutIpStep

LEMMA unlink_badRefs ==
  ASSUME Sound, NEW p \in Procs, unlink_bad(p)
  PROVE  RefsInv'
<1>1. /\ th[p].pc = "unlink_bad" /\ UNCHANGED <<ftable, ofile, cwd>> /\ fs' = Unlock(fs, th[p].dp)
      /\ Goto(p, Puts([th[p] EXCEPT !.dp = 0], <<th[p].dp>>, "idle"))
  BY DEF unlink_bad, Running
<1>2. th[p].files = <<>> /\ th[p].ip = 0 /\ th[p].old = 0
  BY <1>1, AtPc DEF CallKeeps
<1>3. Keeps(fs, fs')
  BY <1>1, UnderLock
<1> QED BY <1>1, <1>2, <1>3, PutDpStep

LEMMA link_existsRefs ==
  ASSUME Sound, NEW p \in Procs, link_exists(p)
  PROVE  RefsInv'
<1>1. /\ th[p].pc = "link_exists" /\ UNCHANGED <<ftable, ofile, cwd>> /\ fs' = Unlock(fs, th[p].dp)
      /\ Goto(p, Puts([th[p] EXCEPT !.dp = 0], <<th[p].dp>>, "link_bad"))
  BY DEF link_exists, Running
<1>2. th[p].files = <<>> /\ th[p].ip = 0
  BY <1>1, AtPc DEF CallKeeps
<1>3. Keeps(fs, fs')
  BY <1>1, UnderLock
<1> QED BY <1>1, <1>2, <1>3, PutDpStep

LEMMA create_newRefs ==
  ASSUME Sound, NEW p \in Procs, create_new(p)
  PROVE  RefsInv'
<1> DEFINE s == th[p].ip
           d == th[p].dp
           f == Loaded(fs, s)
           type == TypeOf(th[p].op)
           name == th[p].name
           g == NewInode(f, s, d, name, type)
           h == Lock(g, s, p)
<1>1. /\ th[p].pc = "create_new" /\ UNCHANGED <<ftable, ofile, cwd>> /\ fs' = Unlock(h, d)
      /\ Goto(p, Puts([th[p] EXCEPT !.dp = 0], <<th[p].dp>>, "create_end"))
  BY DEF create_new, Running
<1>2. th[p].files = <<>> /\ th[p].old = 0
  BY <1>1, AtPc DEF CallKeeps
<1>3. Keeps(fs, f) /\ FsShape(f)
  BY UnderLock
<1> HIDE DEF f, type, name
<1>4. Keeps(f, g) /\ FsShape(g)
  BY <1>3, NewInodeKeeps DEF Keeps
<1> HIDE DEF g
<1>5. Keeps(g, h) /\ FsShape(h)
  BY <1>4, SlotKeeps, KeepsShape
<1> HIDE DEF h
<1>6. Keeps(h, Unlock(h, d))
  BY <1>5, SlotKeeps
<1>7. Keeps(fs, fs')
  BY <1>1, <1>3, <1>4, <1>5, <1>6, KeepsKeeps
<1> QED BY <1>1, <1>2, <1>7, PutDpStep

LEMMA unlink_ipRefs ==
  ASSUME Sound, NEW p \in Procs, unlink_ip(p)
  PROVE  RefsInv'
<1> SUFFICES ASSUME fs'.panic = "none" PROVE RefsInv'
  BY DEF RefsInv
<1> DEFINE t == th[p]
           s == t.ip
           d == t.dp
           f == Loaded(fs, s)
           m == "unlink: nlink < 1"
           g == writei(f, d, t.n, Zeroed[1])
           n == g.slot[d].core.nlink - 1
           k == [g EXCEPT !.slot[d].core.nlink = n]
           h == IF f.slot[s].core.type = "dir" THEN iupdate(k, d) ELSE g
<1>1. /\ t.pc = "unlink_ip" /\ UNCHANGED <<ftable, ofile, cwd>>
  BY DEF unlink_ip, Running
<1>2. th[p].files = <<>> /\ th[p].old = 0
  BY <1>1, AtPc DEF CallKeeps
<1>3. \/ fs' = f /\ f.panic # "none"
      \/ fs' = Panic(f, m)
      \/ fs' = f /\ Goto(p, Puts([t EXCEPT !.ip = 0], <<s>>, "unlink_bad"))
      \/ fs' = Unlock(Lock(h, s, p), d) /\ Goto(p, Puts([t EXCEPT !.dp = 0], <<d>>, "unlink_drop"))
  BY DEF unlink_ip
<1>4. Keeps(fs, f) /\ FsShape(f)
  BY UnderLock
<1> HIDE DEF f
<1>5. fs' # Panic(f, m)
  BY <1>4, PanicKeeps
<1>6. CASE fs' = f /\ Goto(p, Puts([t EXCEPT !.ip = 0], <<s>>, "unlink_bad"))
  BY <1>1, <1>2, <1>4, <1>6, PutIpStep
<1>7. CASE fs' = Unlock(Lock(h, s, p), d) /\ Goto(p, Puts([t EXCEPT !.dp = 0], <<d>>, "unlink_drop"))
  <2>1. Keeps(f, g) /\ FsShape(g)
    BY <1>4, WriteKeeps, KeepsShape
  <2> HIDE DEF g, n
  <2>2. Keeps(g, k) /\ FsShape(k)
    BY <2>1, CoreKeeps, KeepsShape
  <2>3. Keeps(k, iupdate(k, d))
    BY <2>2, UpdateKeeps
  <2> HIDE DEF k
  <2>4. Keeps(fs, h) /\ FsShape(h)
    BY <1>4, <2>1, <2>2, <2>3, KeepsKeeps DEF Keeps
  <2> HIDE DEF h
  <2> DEFINE a == Lock(h, s, p)
  <2>5. Keeps(h, a) /\ FsShape(a)
    BY <2>4, SlotKeeps, KeepsShape
  <2> HIDE DEF a
  <2>6. Keeps(a, Unlock(a, d))
    BY <2>5, SlotKeeps
  <2>7. Keeps(fs, fs')
    BY <1>7, <2>4, <2>5, <2>6, KeepsKeeps DEF a
  <2> QED BY <1>1, <1>2, <1>7, <2>7, PutDpStep
<1> QED BY <1>3, <1>5, <1>6, <1>7

LEMMA sys_chdirRefs ==
  ASSUME Sound, NEW p \in Procs, sys_chdir(p)
  PROVE  RefsInv'
<1> DEFINE t == th[p]
           s == t.ip
           v == [t EXCEPT !.ip = 0]
           u == Puts(v, <<cwd[p]>>, "idle")
<1>1. /\ t.pc = "chdir" /\ UNCHANGED <<ftable, ofile>> /\ fs' = Loaded(fs, s)
      /\ \/ Goto(p, Puts([t EXCEPT !.ip = 0], <<s>>, "idle")) /\ UNCHANGED cwd
         \/ Goto(p, u) /\ cwd' = [cwd EXCEPT ![p] = s]
  BY DEF sys_chdir, Running
<1>2. /\ t.puts = <<>> /\ CallShape(t) /\ CallKeeps(t) /\ cwd[p] \in {0} \cup Slots
      /\ GoesOn(t) = "chdir"
  BY <1>1, AtPc
<1>3. t.files = <<>> /\ t.dp = 0 /\ t.old = 0 /\ s \in {0} \cup Slots
  BY <1>2 DEF CallKeeps, CallShape
<1>4. Keeps(fs, fs')
  BY <1>1, UnderLock
<1>5. CASE Goto(p, Puts([t EXCEPT !.ip = 0], <<s>>, "idle")) /\ UNCHANGED cwd
  BY <1>1, <1>3, <1>4, <1>5, PutIpStep
<1>6. CASE Goto(p, u) /\ cwd' = [cwd EXCEPT ![p] = s]
  <2>1. CallShape(v)
    <3>1. 0 \in {0} \cup Slots
      OBVIOUS
    <3> QED BY <1>2, <3>1, Refit
  <2>2. /\ v.ip = 0 /\ v.dp = 0 /\ v.old = 0 /\ v.files = <<>>
    BY <1>2, <1>3 DEF CallShape, Idle
  <2>3. OneCall(p, s, u)
    BY <1>3, <1>6, GotoIs
  <2> HIDE DEF v
  <2>4. IsPut(u, v, <<cwd[p]>>, "idle")
    BY <1>2, <2>1, PutOne
  <2> HIDE DEF u
  <2>5. /\ CallShape(u) /\ u.files = <<>> /\ GoesOn(u) = "idle"
        /\ u.puts = <<cwd[p]>> /\ u.pc = "put" /\ u.ip = 0 /\ u.dp = 0 /\ u.old = 0
    BY <2>2, <2>4 DEF IsPut
  <2>6. CallKeeps(u)
    BY <2>5 DEF CallKeeps
  <2>7. ASSUME NEW x \in Slots PROVE Tally(s, u, x) = Tally(cwd[p], t, x)
    <3>1. Tally(s, u, x) = Is(s = x) + Is(0 = x) + Is(0 = x) + Is(0 = x) + Is(cwd[p] = x)
      BY <2>5, TallyOfOne
    <3>2. Tally(cwd[p], t, x) = Is(cwd[p] = x) + Is(s = x) + Is(0 = x) + Is(0 = x)
      BY <1>2, <1>3, TallyOfOne
    <3>3. Is(0 = x) = 0 /\ {Is(cwd[p] = x), Is(s = x)} \subseteq Nat
      BY NoneIs DEF Is
    <3> QED BY <3>1, <3>2, <3>3
  <2>8. Becomes(p, s, u)
    BY <1>1, <1>3, <2>3, <2>5, <2>6 DEF Becomes
  <2> QED BY <1>4, <2>7, <2>8, KeepStep
<1> QED BY <1>1, <1>5, <1>6

LEMMA link_badRefs ==
  ASSUME Sound, NEW p \in Procs, link_bad(p)
  PROVE  RefsInv'
<1> DEFINE t == th[p]
           s == t.old
           n == fs.slot[s].core.nlink - 1
           g == [fs EXCEPT !.slot[s].core.nlink = n]
           v == [t EXCEPT !.old = 0]
           u == Puts(v, <<s>>, "idle")
<1>1. /\ t.pc = "link_bad" /\ UNCHANGED <<ftable, ofile, cwd>> /\ fs' = iupdate(g, s)
      /\ Goto(p, u)
  BY DEF link_bad, Running
<1>2. /\ t.puts = <<>> /\ CallShape(t) /\ CallKeeps(t) /\ cwd[p] \in {0} \cup Slots
      /\ GoesOn(t) = "link_bad"
  BY <1>1, AtPc
<1>3. t.files = <<>> /\ t.dp = 0 /\ t.ip = 0 /\ s \in {0} \cup Slots
  BY <1>2 DEF CallKeeps, CallShape
<1>4. Keeps(fs, g) /\ FsShape(g)
  BY UnderLock, CoreKeeps, KeepsShape
<1> HIDE DEF n, g
<1>5. Keeps(g, iupdate(g, s))
  BY <1>4, UpdateKeeps
<1>6. Keeps(fs, fs')
  BY <1>1, <1>4, <1>5, KeepsKeeps
<1>7. CallShape(v)
  <2>1. 0 \in {0} \cup Slots
    OBVIOUS
  <2> QED BY <1>2, <2>1, Refit
<1>8. /\ v.ip = 0 /\ v.dp = 0 /\ v.old = 0 /\ v.files = <<>>
  BY <1>2, <1>3 DEF CallShape, Idle
<1>9. OneCall(p, cwd[p], u)
  BY <1>1, GotoIs
<1> HIDE DEF v
<1>10. IsPut(u, v, <<s>>, "idle")
  BY <1>3, <1>7, PutOne
<1> HIDE DEF u
<1>11. /\ CallShape(u) /\ u.files = <<>> /\ GoesOn(u) = "idle"
       /\ u.puts = <<s>> /\ u.pc = "put" /\ u.ip = 0 /\ u.dp = 0 /\ u.old = 0
  BY <1>8, <1>10 DEF IsPut
<1>12. CallKeeps(u)
  BY <1>11 DEF CallKeeps
<1>13. ASSUME NEW x \in Slots PROVE Tally(cwd[p], u, x) = Tally(cwd[p], t, x)
  <2>1. Tally(cwd[p], u, x) = Is(cwd[p] = x) + Is(0 = x) + Is(0 = x) + Is(0 = x) + Is(s = x)
    BY <1>11, TallyOfOne
  <2>2. Tally(cwd[p], t, x) = Is(cwd[p] = x) + Is(0 = x) + Is(0 = x) + Is(s = x)
    BY <1>2, <1>3, TallyOfOne
  <2>3. Is(0 = x) = 0 /\ {Is(cwd[p] = x), Is(s = x)} \subseteq Nat
    BY NoneIs DEF Is
  <2> QED BY <2>1, <2>2, <2>3
<1>14. Becomes(p, cwd[p], u)
  BY <1>1, <1>2, <1>3, <1>9, <1>11, <1>12 DEF Becomes
<1> QED BY <1>6, <1>13, <1>14, KeepStep

\* A call takes the slot k and keeps what it has in dp, without putting anything.
LEMMA TakeAnother ==
  ASSUME Sound, NEW p \in Procs, NEW k, Takes(fs, fs', k), fs'.panic = "none",
         UNCHANGED <<ftable, ofile, cwd>>, NEW u, Goto(p, u),
         th[p].pc \in {"create", "unlink"},
         k \in {0} \cup Slots => CallShape(u),
         u.pc \in {"create_new", "unlink_ip"}, u.puts = <<>>, u.files = th[p].files,
         u.ip = k, u.dp = th[p].ip, u.old = th[p].old
  PROVE  RefsInv'
<1> DEFINE t == th[p]
<1>1. /\ t.puts = <<>> /\ CallShape(t) /\ CallKeeps(t) /\ cwd[p] \in {0} \cup Slots
      /\ GoesOn(t) = t.pc
  BY AtPc
<1>2. t.files = <<>> /\ t.dp = 0 /\ t.old = 0
  BY <1>1 DEF CallKeeps
<1>3. k \in {0} \cup Slots
  BY DEF Takes
<1>4. CallShape(u) /\ OneCall(p, cwd[p], u)
  BY <1>3, GotoIs
<1>5. GoesOn(u) = u.pc
  BY DEF GoesOn
<1>6. CallKeeps(u)
  BY <1>2, <1>5 DEF CallKeeps
<1>7. ASSUME NEW x \in Slots PROVE Tally(cwd[p], u, x) = Tally(cwd[p], t, x) + Is(x = k)
  <2>1. Tally(cwd[p], u, x) = Is(cwd[p] = x) + Is(k = x) + Is(t.ip = x) + Is(0 = x)
    BY <1>2, TallyOfOne
  <2>2. Tally(cwd[p], t, x) = Is(cwd[p] = x) + Is(t.ip = x) + Is(0 = x) + Is(0 = x)
    BY <1>1, <1>2, TallyOfOne
  <2>3. /\ Is(0 = x) = 0 /\ Is(k = x) = Is(x = k)
        /\ {Is(cwd[p] = x), Is(t.ip = x), Is(k = x)} \subseteq Nat
    BY NoneIs DEF Is
  <2> QED BY <2>1, <2>2, <2>3
<1>8. Becomes(p, cwd[p], u)
  BY <1>1, <1>2, <1>4, <1>5, <1>6 DEF Becomes
<1> QED BY <1>7, <1>8, TakeStep

LEMMA sys_unlinkRefs ==
  ASSUME Sound, NEW p \in Procs, sys_unlink(p)
  PROVE  RefsInv'
<1> SUFFICES ASSUME fs'.panic = "none" PROVE RefsInv'
  BY DEF RefsInv
<1> DEFINE t == th[p]
           d == t.ip
           f == Loaded(fs, d)
           off == Offset(f, d, t.name)
           i == InumAt(f, d, off)
           k == SlotOf(f, i)
           u == [t EXCEPT !.pc = "unlink_ip", !.dp = d, !.n = off, !.ip = k]
<1>1. /\ t.pc = "unlink" /\ UNCHANGED <<ftable, ofile, cwd>>
      /\ \/ fs' = f /\ Goto(p, Puts([t EXCEPT !.ip = 0], <<d>>, "idle"))
         \/ fs' = Lock(iget(f, i), d, p) /\ Goto(p, u)
  BY DEF sys_unlink, Running
<1>2. /\ t.puts = <<>> /\ CallShape(t) /\ CallKeeps(t) /\ GoesOn(t) = "unlink"
  BY <1>1, AtPc
<1>3. t.files = <<>> /\ t.dp = 0 /\ t.old = 0
  BY <1>2 DEF CallKeeps
<1>4. Keeps(fs, f) /\ FsShape(f) /\ RefsNat(f)
  BY UnderLock
<1> HIDE DEF f, off, i
<1>5. CASE fs' = f /\ Goto(p, Puts([t EXCEPT !.ip = 0], <<d>>, "idle"))
  BY <1>1, <1>3, <1>4, <1>5, PutIpStep
<1>6. CASE fs' = Lock(iget(f, i), d, p) /\ Goto(p, u)
  <2> DEFINE g == iget(f, i)
  <2>1. Takes(f, g, k) /\ FsShape(g)
    BY <1>4, GetTakes DEF Takes
  <2> HIDE DEF g, k
  <2>2. Keeps(g, Lock(g, d, p))
    BY <2>1, SlotKeeps
  <2>3. Takes(fs, fs', k)
    BY <1>4, <1>6, <2>1, <2>2, KeepsTakes, TakesKeeps DEF g
  <2>4. /\ u.pc = "unlink_ip" /\ u.ip = k /\ u.dp = d /\ u.old = t.old /\ u.puts = t.puts
        /\ u.files = t.files
        /\ k \in {0} \cup Slots => CallShape(u)
    BY <1>2 DEF CallShape, Idle
  <2> HIDE DEF u
  <2> QED BY <1>1, <1>2, <1>6, <2>3, <2>4, TakeAnother
<1> QED BY <1>1, <1>5, <1>6

\* Put the directory that is in ip, and take the slot k instead.
LEMMA TakeInstead ==
  ASSUME Sound, NEW p \in Procs, NEW k, Takes(fs, fs', k), fs'.panic = "none",
         UNCHANGED <<ftable, ofile, cwd>>,
         Goto(p, Puts([th[p] EXCEPT !.ip = k], <<th[p].ip>>, "create_found")),
         th[p].pc = "create"
  PROVE  RefsInv'
<1> DEFINE t == th[p]
           v == [t EXCEPT !.ip = k]
           u == Puts(v, <<t.ip>>, "create_found")
<1>1. /\ t.puts = <<>> /\ CallShape(t) /\ CallKeeps(t) /\ cwd[p] \in {0} \cup Slots
      /\ GoesOn(t) = "create"
  BY AtPc
<1>2. t.files = <<>> /\ t.dp = 0 /\ t.old = 0 /\ t.ip \in {0} \cup Slots
  BY <1>1 DEF CallKeeps, CallShape
<1>3. k \in {0} \cup Slots
  BY DEF Takes
<1>4. CallShape(v) /\ OneCall(p, cwd[p], u)
  BY <1>1, <1>3, Refit, GotoIs
<1>5. v.ip = k /\ v.dp = 0 /\ v.old = 0 /\ v.files = <<>>
  BY <1>1, <1>2 DEF CallShape, Idle
<1> HIDE DEF v
<1>6. IsPut(u, v, <<t.ip>>, "create_found")
  BY <1>2, <1>4, PutOne
<1> HIDE DEF u
<1>7. /\ CallShape(u) /\ u.files = <<>> /\ GoesOn(u) = "create_found"
      /\ u.puts = <<t.ip>> /\ u.pc = "put" /\ u.ip = k /\ u.dp = 0 /\ u.old = 0
  BY <1>5, <1>6 DEF IsPut
<1>8. CallKeeps(u)
  BY <1>7 DEF CallKeeps
<1>9. ASSUME NEW x \in Slots PROVE Tally(cwd[p], u, x) = Tally(cwd[p], t, x) + Is(x = k)
  <2>1. Tally(cwd[p], u, x) = Is(cwd[p] = x) + Is(k = x) + Is(0 = x) + Is(0 = x) + Is(t.ip = x)
    BY <1>7, TallyOfOne
  <2>2. Tally(cwd[p], t, x) = Is(cwd[p] = x) + Is(t.ip = x) + Is(0 = x) + Is(0 = x)
    BY <1>1, <1>2, TallyOfOne
  <2>3. /\ Is(0 = x) = 0 /\ Is(k = x) = Is(x = k)
        /\ {Is(cwd[p] = x), Is(t.ip = x), Is(k = x)} \subseteq Nat
    BY NoneIs DEF Is
  <2> QED BY <2>1, <2>2, <2>3
<1>10. Becomes(p, cwd[p], u)
  BY <1>1, <1>2, <1>4, <1>7, <1>8 DEF Becomes
<1> QED BY <1>9, <1>10, TakeStep

LEMMA createRefs ==
  ASSUME Sound, NEW p \in Procs, create(p)
  PROVE  RefsInv'
<1> SUFFICES ASSUME fs'.panic = "none" PROVE RefsInv'
  BY DEF RefsInv
<1> DEFINE t == th[p]
           d == t.ip
           f == Loaded(fs, d)
           off == Offset(f, d, t.name)
           i == InumAt(f, d, off)
           g == ialloc(f, TypeOf(t.op))
           k == SlotOf(f, Min(FreeInums(f)))
           u == [t EXCEPT !.pc = "create_new", !.dp = d, !.ip = k]
<1>1. /\ t.pc = "create" /\ UNCHANGED <<ftable, ofile, cwd>>
      /\ \/ /\ fs' = iget(f, i)
            /\ Goto(p, Puts([t EXCEPT !.ip = SlotOf(f, i)], <<d>>, "create_found"))
         \/ /\ fs' = Lock(g, d, p)
            /\ Goto(p, IF g.panic # "none" THEN t ELSE u)
  BY DEF create, Running
<1>2. /\ t.puts = <<>> /\ CallShape(t) /\ CallKeeps(t) /\ GoesOn(t) = "create"
  BY <1>1, AtPc
<1>3. Keeps(fs, f) /\ FsShape(f) /\ RefsNat(f)
  BY UnderLock
<1> HIDE DEF f, off, i
<1>4. CASE /\ fs' = iget(f, i)
           /\ Goto(p, Puts([t EXCEPT !.ip = SlotOf(f, i)], <<d>>, "create_found"))
  <2>1. Takes(f, iget(f, i), SlotOf(f, i))
    BY <1>3, GetTakes
  <2>2. Takes(fs, fs', SlotOf(f, i))
    BY <1>3, <1>4, <2>1, KeepsTakes
  <2> QED BY <1>1, <1>4, <2>2, TakeInstead
<1>5. CASE /\ fs' = Lock(g, d, p)
           /\ Goto(p, IF g.panic # "none" THEN t ELSE u)
  <2>1. Takes(f, g, k) /\ FsShape(g)
    BY <1>3, AllocTakes DEF Takes
  <2> HIDE DEF g, k
  <2>2. Keeps(g, Lock(g, d, p))
    BY <2>1, SlotKeeps
  <2>3. Takes(fs, fs', k) /\ g.panic = "none"
    BY <1>3, <1>5, <2>1, <2>2, KeepsTakes, TakesKeeps DEF Keeps
  <2>4. /\ u.pc = "create_new" /\ u.ip = k /\ u.dp = d /\ u.old = t.old /\ u.puts = t.puts
        /\ u.files = t.files
        /\ k \in {0} \cup Slots => CallShape(u)
    BY <1>2 DEF CallShape, Idle
  <2>5. Goto(p, u)
    BY <1>5, <2>3
  <2> HIDE DEF u
  <2> QED BY <1>1, <1>2, <2>3, <2>4, <2>5, TakeAnother
<1> QED BY <1>1, <1>4, <1>5

\* A walk sets out from the slot k; what was in ip stays in old.
LEMMA StartWalk ==
  ASSUME Sound, NEW p \in Procs, NEW k, Takes(fs, fs', k), fs'.panic = "none",
         UNCHANGED <<ftable, ofile, cwd>>, NEW u, Goto(p, u),
         th[p].pc \in {"idle", "link"},
         k \in {0} \cup Slots => CallShape(u),
         u.pc = "walk", u.puts = <<>>, u.files = <<>>, u.ip = k, u.dp = 0, u.old = th[p].ip,
         u.op \in ByPath, u.fail \in {"idle", "link_bad"},
         u.old # 0 => u.par /\ u.fail = "link_bad"
  PROVE  RefsInv'
<1> DEFINE t == th[p]
<1>1. /\ t.puts = <<>> /\ CallShape(t) /\ CallKeeps(t) /\ cwd[p] \in {0} \cup Slots
      /\ GoesOn(t) = t.pc
  BY AtPc
<1>2. t.files = <<>> /\ t.dp = 0 /\ t.old = 0
  BY <1>1 DEF CallKeeps
<1>3. CallShape(u) /\ OneCall(p, cwd[p], u)
  BY GotoIs DEF Takes
<1>4. GoesOn(u) = "walk"
  BY DEF GoesOn
<1>5. CallKeeps(u)
  BY <1>4 DEF CallKeeps
<1>6. ASSUME NEW x \in Slots PROVE Tally(cwd[p], u, x) = Tally(cwd[p], t, x) + Is(x = k)
  <2>1. Tally(cwd[p], u, x) = Is(cwd[p] = x) + Is(k = x) + Is(0 = x) + Is(t.ip = x)
    BY TallyOfOne
  <2>2. Tally(cwd[p], t, x) = Is(cwd[p] = x) + Is(t.ip = x) + Is(0 = x) + Is(0 = x)
    BY <1>1, <1>2, TallyOfOne
  <2>3. /\ Is(0 = x) = 0 /\ Is(k = x) = Is(x = k)
        /\ {Is(cwd[p] = x), Is(t.ip = x), Is(k = x)} \subseteq Nat
    BY NoneIs DEF Is
  <2> QED BY <2>1, <2>2, <2>3
<1>7. Becomes(p, cwd[p], u)
  BY <1>1, <1>2, <1>3, <1>4, <1>5 DEF Becomes
<1> QED BY <1>6, <1>7, TakeStep

LEMMA BeginRefs ==
  ASSUME Sound, NEW p \in Procs, NEW call, Begin(p, call)
  PROVE  RefsInv'
<1> SUFFICES ASSUME fs'.panic = "none" PROVE RefsInv'
  BY DEF RefsInv
<1> DEFINE k == StartIp(fs, p, call.path)
           par == call.op \in {"create", "mkdir", "mknod", "unlink"}
           rest == Rest(call.path)
           u == [Idle EXCEPT !.pc = "walk", !.op = call.op, !.path = rest,
                             !.new = call.new, !.n = call.n, !.ip = k, !.par = par]
<1>1. /\ th[p].pc = "idle" /\ UNCHANGED <<ftable, ofile, cwd>> /\ call.op \in ByPath
      /\ fs' = StartFs(fs, p, call.path) /\ Goto(p, u)
  BY DEF Begin, Running
<1>2. th[p].ip = 0
  BY <1>1, AtPc DEF CallKeeps
<1>3. Takes(fs, fs', k)
  BY <1>1, SoundFacts, StartTakes
<1> HIDE DEF k, par, rest
<1>4. /\ u.pc = "walk" /\ u.op = call.op /\ u.ip = k /\ u.dp = 0 /\ u.old = 0
      /\ u.puts = <<>> /\ u.files = <<>> /\ u.fail = "idle" /\ DOMAIN u = DOMAIN Idle
  BY DEF Idle
<1> HIDE DEF u
<1>5. k \in {0} \cup Slots => CallShape(u)
  BY <1>4 DEF CallShape
<1> QED BY <1>1, <1>2, <1>3, <1>4, <1>5, StartWalk

LEMMA sys_linkRefs ==
  ASSUME Sound, NEW p \in Procs, sys_link(p)
  PROVE  RefsInv'
<1> SUFFICES ASSUME fs'.panic = "none" PROVE RefsInv'
  BY DEF RefsInv
<1> DEFINE t == th[p]
           s == t.ip
           f == Loaded(fs, s)
           n == f.slot[s].core.nlink + 1
           e == [f EXCEPT !.slot[s].core.nlink = n]
           g == iupdate(e, s)
           k == StartIp(g, p, t.new)
           rest == Rest(t.new)
           u == [t EXCEPT !.pc = "walk", !.path = rest, !.par = TRUE,
                          !.old = s, !.ip = k, !.fail = "link_bad"]
<1>1. /\ t.pc = "link" /\ UNCHANGED <<ftable, ofile, cwd>>
      /\ \/ fs' = f /\ Goto(p, Puts([t EXCEPT !.ip = 0], <<s>>, "idle"))
         \/ fs' = StartFs(g, p, t.new) /\ Goto(p, u)
  BY DEF sys_link, Running
<1>2. /\ t.puts = <<>> /\ CallShape(t) /\ CallKeeps(t) /\ GoesOn(t) = "link"
      /\ cwd[p] \in {0} \cup Slots
  BY <1>1, AtPc
<1>3. t.files = <<>> /\ t.dp = 0 /\ t.old = 0 /\ t.op \in ByPath
  BY <1>2 DEF CallKeeps
<1>4. Keeps(fs, f) /\ FsShape(f)
  BY UnderLock
<1> HIDE DEF f
<1>5. CASE fs' = f /\ Goto(p, Puts([t EXCEPT !.ip = 0], <<s>>, "idle"))
  BY <1>1, <1>3, <1>4, <1>5, PutIpStep
<1>6. CASE fs' = StartFs(g, p, t.new) /\ Goto(p, u)
  <2>1. Keeps(f, e) /\ FsShape(e)
    BY <1>4, CoreKeeps, KeepsShape
  <2> HIDE DEF e, n
  <2>2. Keeps(e, g)
    BY <2>1, UpdateKeeps
  <2> HIDE DEF g
  <2>3. Keeps(fs, g) /\ FsShape(g)
    BY <1>4, <2>1, <2>2, KeepsKeeps, KeepsShape
  <2>4. RefsNat(g)
    BY <2>3, KeepsNat, SoundFacts
  <2>5. Takes(g, StartFs(g, p, t.new), k)
    BY <1>2, <2>3, <2>4, StartTakes
  <2>6. Takes(fs, fs', k)
    BY <1>6, <2>3, <2>5, KeepsTakes
  <2> HIDE DEF k, rest
  <2>7. /\ u.pc = "walk" /\ u.op = t.op /\ u.ip = k /\ u.dp = t.dp /\ u.old = s
        /\ u.puts = t.puts /\ u.files = t.files /\ u.fail = "link_bad" /\ u.par
        /\ DOMAIN u = DOMAIN Idle
    BY <1>2 DEF CallShape, Idle
  <2> HIDE DEF u
  <2>8. k \in {0} \cup Slots => CallShape(u)
    BY <1>2, <2>7 DEF CallShape
  <2> QED BY <1>1, <1>2, <1>3, <1>6, <2>6, <2>7, <2>8, StartWalk
<1> QED BY <1>1, <1>5, <1>6

LEMMA PutTwo ==
  ASSUME NEW t, CallShape(t), NEW a \in {0} \cup Slots, NEW b \in {0} \cup Slots, NEW after
  PROVE  IsPut(Puts(t, <<a, b>>, after), t, <<a, b>>, after)
<1> DEFINE v == [t EXCEPT !.pc = "put", !.puts = <<a, b>>, !.after = after]
<1>1. Puts(t, <<a, b>>, after) = v
  BY DEF Puts
<1>2. /\ v.pc = "put" /\ v.after = after /\ v.puts = <<a, b>>
      /\ v.ip = t.ip /\ v.dp = t.dp /\ v.old = t.old /\ v.files = t.files
      /\ v.op = t.op /\ v.par = t.par /\ v.fail = t.fail
  BY DEF CallShape, Idle
<1>3. DOMAIN v = DOMAIN Idle
  BY DEF CallShape
<1>4. <<a, b>> \in Seq({0} \cup Slots) /\ Len(<<a, b>>) <= 2
  OBVIOUS
<1>5. CallShape(v)
  <2> HIDE DEF v
  <2> QED BY <1>2, <1>3, <1>4 DEF CallShape
<1>6. GoesOn(v) = after
  <2> HIDE DEF v
  <2> QED BY <1>2 DEF GoesOn
<1> HIDE DEF v
<1> QED BY <1>1, <1>2, <1>5, <1>6 DEF IsPut

LEMMA link2Refs ==
  ASSUME Sound, NEW p \in Procs, link2(p)
  PROVE  RefsInv'
<1> SUFFICES ASSUME fs'.panic = "none" PROVE RefsInv'
  BY DEF RefsInv
<1> DEFINE t == th[p]
           d == t.ip
           old == t.old
           f == Loaded(fs, d)
           off == Offset(f, d, t.name)
           i == InumAt(f, d, off)
           k == SlotOf(f, i)
           v == [t EXCEPT !.ip = 0, !.dp = d]
           u == Puts(v, <<k>>, "link_exists")
           w == [t EXCEPT !.ip = 0, !.old = 0]
           z == Puts(w, <<d, old>>, "idle")
           inum == f.slot[old].inum
<1>1. /\ t.pc = "link2" /\ UNCHANGED <<ftable, ofile, cwd>>
      /\ \/ fs' = Lock(iget(f, i), d, p) /\ Goto(p, u)
         \/ fs' = AddEntry(f, d, t.name, inum) /\ Goto(p, z)
  BY DEF link2, Running
<1>2. /\ t.puts = <<>> /\ CallShape(t) /\ CallKeeps(t) /\ GoesOn(t) = "link2"
      /\ cwd[p] \in {0} \cup Slots
  BY <1>1, AtPc
<1>3. /\ t.files = <<>> /\ t.dp = 0 /\ d \in {0} \cup Slots /\ old \in {0} \cup Slots
  BY <1>2 DEF CallKeeps, CallShape
<1>4. Keeps(fs, f) /\ FsShape(f) /\ RefsNat(f)
  BY UnderLock
<1> HIDE DEF f, off, i
<1>5. CASE fs' = Lock(iget(f, i), d, p) /\ Goto(p, u)
  <2> DEFINE g == iget(f, i)
  <2>1. Takes(f, g, k) /\ FsShape(g)
    BY <1>4, GetTakes DEF Takes
  <2> HIDE DEF g, k
  <2>2. Keeps(g, Lock(g, d, p))
    BY <2>1, SlotKeeps
  <2>3. Takes(fs, fs', k)
    BY <1>4, <1>5, <2>1, <2>2, KeepsTakes, TakesKeeps DEF g
  <2>4. CallShape(v) /\ v.ip = 0 /\ v.dp = d /\ v.old = old /\ v.files = <<>>
    BY <1>2, <1>3 DEF CallShape, Idle
  <2>5. k \in {0} \cup Slots /\ OneCall(p, cwd[p], u)
    BY <1>1, <1>5, <2>3, GotoIs DEF Takes
  <2> HIDE DEF v
  <2>6. IsPut(u, v, <<k>>, "link_exists")
    BY <2>4, <2>5, PutOne
  <2> HIDE DEF u
  <2>7. /\ CallShape(u) /\ u.files = <<>> /\ GoesOn(u) = "link_exists"
        /\ u.puts = <<k>> /\ u.pc = "put" /\ u.ip = 0 /\ u.dp = d /\ u.old = old
    BY <2>4, <2>6 DEF IsPut
  <2>8. CallKeeps(u)
    BY <2>7 DEF CallKeeps
  <2>9. ASSUME NEW x \in Slots PROVE Tally(cwd[p], u, x) = Tally(cwd[p], t, x) + Is(x = k)
    <3>1. Tally(cwd[p], u, x) = Is(cwd[p] = x) + Is(0 = x) + Is(d = x) + Is(old = x) + Is(k = x)
      BY <2>7, TallyOfOne
    <3>2. Tally(cwd[p], t, x) = Is(cwd[p] = x) + Is(d = x) + Is(0 = x) + Is(old = x)
      BY <1>2, <1>3, TallyOfOne
    <3>3. /\ Is(0 = x) = 0 /\ Is(k = x) = Is(x = k)
          /\ {Is(cwd[p] = x), Is(d = x), Is(old = x), Is(k = x)} \subseteq Nat
      BY NoneIs DEF Is
    <3> QED BY <3>1, <3>2, <3>3
  <2>10. Becomes(p, cwd[p], u)
    BY <1>1, <1>2, <1>3, <2>5, <2>7, <2>8 DEF Becomes
  <2> QED BY <2>3, <2>9, <2>10, TakeStep
<1>6. CASE fs' = AddEntry(f, d, t.name, inum) /\ Goto(p, z)
  <2> HIDE DEF inum
  <2>1. Keeps(fs, fs')
    BY <1>4, <1>6, EntryKeeps, KeepsKeeps
  <2>2. CallShape(w) /\ w.ip = 0 /\ w.dp = 0 /\ w.old = 0 /\ w.files = <<>>
    BY <1>2, <1>3 DEF CallShape, Idle
  <2>3. OneCall(p, cwd[p], z)
    BY <1>1, <1>6, GotoIs
  <2> HIDE DEF w
  <2>4. IsPut(z, w, <<d, old>>, "idle")
    BY <1>3, <2>2, PutTwo
  <2> HIDE DEF z
  <2>5. /\ CallShape(z) /\ z.files = <<>> /\ GoesOn(z) = "idle"
        /\ z.puts = <<d, old>> /\ z.pc = "put" /\ z.ip = 0 /\ z.dp = 0 /\ z.old = 0
    BY <2>2, <2>4 DEF IsPut
  <2>6. CallKeeps(z)
    BY <2>5 DEF CallKeeps
  <2>7. ASSUME NEW x \in Slots PROVE Tally(cwd[p], z, x) = Tally(cwd[p], t, x)
    <3>1. Tally(cwd[p], z, x) = Is(cwd[p] = x) + Is(0 = x) + Is(0 = x) + Is(0 = x) + (Is(d = x) + Is(old = x))
      BY <2>5, TallyOfOne
    <3>2. Tally(cwd[p], t, x) = Is(cwd[p] = x) + Is(d = x) + Is(0 = x) + Is(old = x)
      BY <1>2, <1>3, TallyOfOne
    <3>3. /\ Is(0 = x) = 0
          /\ {Is(cwd[p] = x), Is(d = x), Is(old = x)} \subseteq Nat
      BY NoneIs DEF Is
    <3> QED BY <3>1, <3>2, <3>3
  <2>8. Becomes(p, cwd[p], z)
    BY <1>1, <1>2, <1>3, <2>3, <2>5, <2>6 DEF Becomes
  <2> QED BY <2>1, <2>7, <2>8, KeepStep
<1> QED BY <1>1, <1>5, <1>6

-----------------------------------------------------------------------------
(* What a step does to the files and the descriptors *)

LEMMA TablesFinite ==
  IsFiniteSet(1 .. NFILE) /\ IsFiniteSet(1 .. NOFILE) /\ IsFiniteSet(1 .. 2) /\ IsFiniteSet(Procs)
<1>1. 1 \in Int /\ 2 \in Int /\ NFILE \in Int /\ NOFILE \in Int
  BY SizesAssumption
<1> QED BY <1>1, FS_Interval, SizesAssumption

\* One file of the table changes.
LEMMA FilesOnChange ==
  ASSUME NEW i \in 1 .. NFILE, \A j \in (1 .. NFILE) \ {i} : ftable'[j] = ftable[j],
         NEW x
  PROVE  Cardinality(FilesOn(x)') + Is(ftable[i].type = "inode" /\ ftable[i].ip = x)
           = Cardinality(FilesOn(x)) + Is(ftable'[i].type = "inode" /\ ftable'[i].ip = x)
<1> DEFINE S == FilesOn(x)
           T == FilesOn(x)'
<1>1. /\ IsFiniteSet(S)
      /\ \A j : j # i => (j \in S <=> j \in T)
      /\ i \in S <=> ftable[i].type = "inode" /\ ftable[i].ip = x
      /\ i \in T <=> ftable'[i].type = "inode" /\ ftable'[i].ip = x
  BY FilesOnFinite DEF FilesOn
<1> HIDE DEF S, T
<1>2. Cardinality(T) + Is(i \in S) = Cardinality(S) + Is(i \in T)
  BY <1>1, OneMember
<1>3. Is(i \in S) = Is(ftable[i].type = "inode" /\ ftable[i].ip = x)
  BY <1>1 DEF Is
<1>4. Is(i \in T) = Is(ftable'[i].type = "inode" /\ ftable'[i].ip = x)
  BY <1>1 DEF Is
<1> QED BY <1>2, <1>3, <1>4 DEF S, T

\* One descriptor of p changes.
LEMMA FdsChange ==
  ASSUME NEW p \in Procs, NEW d \in 1 .. NOFILE,
         \A q \in Procs : \A e \in 1 .. NOFILE : <<q, e>> # <<p, d>> => ofile'[q][e] = ofile[q][e],
         NEW i
  PROVE  Cardinality(FdsOf(i)') + Is(ofile[p][d] = i) = Cardinality(FdsOf(i)) + Is(ofile'[p][d] = i)
<1> DEFINE K == 1 .. NOFILE
           P == Procs \X K
           S == FdsOf(i)
           T == FdsOf(i)'
           m == <<p, d>>
<1>1. IsFiniteSet(S)
  <2>1. IsFiniteSet(P) /\ S \subseteq P
    BY TablesFinite, FS_Product DEF FdsOf
  <2> QED BY <2>1, FS_Subset
<1>2. /\ \A x : x # m => (x \in S <=> x \in T)
      /\ m \in S <=> ofile[p][d] = i
      /\ m \in T <=> ofile'[p][d] = i
  BY DEF FdsOf
<1> HIDE DEF S, T, P, m
<1>3. Cardinality(T) + Is(m \in S) = Cardinality(S) + Is(m \in T)
  BY <1>1, <1>2, OneMember
<1>4. Is(m \in S) = Is(ofile[p][d] = i) /\ Is(m \in T) = Is(ofile'[p][d] = i)
  BY <1>2 DEF Is
<1> QED BY <1>3, <1>4 DEF S, T

\* The files that the call of p is making a pipe of change.
LEMMA PipesChange ==
  ASSUME NEW p \in Procs, CallShape(th[p]), CallShape(th'[p]),
         \A q \in Procs \ {p} : th'[q].files = th[q].files, NEW i
  PROVE  Cardinality(PipesOf(i)') + SeqTally(th[p].files, i)
           = Cardinality(PipesOf(i)) + SeqTally(th'[p].files, i)
<1> DEFINE K == 1 .. 2
           S == PipesOf(i)
           T == PipesOf(i)'
<1>1. /\ S \in SUBSET (Procs \X K) /\ T \in SUBSET (Procs \X K)
      /\ \A q \in Procs \ {p} : \A k \in K : <<q, k>> \in S <=> <<q, k>> \in T
      /\ IsFiniteSet(Procs) /\ IsFiniteSet(K)
  BY TablesFinite DEF PipesOf
<1>2. /\ Row(S, K, p) = {n \in 1 .. 2 : n <= Len(th[p].files) /\ th[p].files[n] = i}
      /\ Row(T, K, p) = {n \in 1 .. 2 : n <= Len(th'[p].files) /\ th'[p].files[n] = i}
  BY DEF PipesOf, Row
<1>3. /\ th[p].files \in Seq(1 .. NFILE) /\ Len(th[p].files) <= 2
      /\ th'[p].files \in Seq(1 .. NFILE) /\ Len(th'[p].files) <= 2
  BY Zenon DEF CallShape
<1> HIDE DEF S, T, K
<1>4. Cardinality(Row(S, K, p)) = SeqTally(th[p].files, i)
  BY <1>2, <1>3, TallyOfFiles, Zenon
<1>5. Cardinality(Row(T, K, p)) = SeqTally(th'[p].files, i)
  BY <1>2, <1>3, TallyOfFiles, Zenon
<1>6. Cardinality(T) + Cardinality(Row(S, K, p)) = Cardinality(S) + Cardinality(Row(T, K, p))
  BY <1>1, OneRow
<1> QED BY <1>4, <1>5, <1>6 DEF S, T

\* A file without references is in no descriptor and in no call.
LEMMA FileUsed ==
  ASSUME Sound, NEW i \in 1 .. NFILE
  PROVE  /\ ftable[i] \in Files /\ ftable[i].ref \in Nat
         /\ \A q \in Procs : \A d \in 1 .. NOFILE : ofile[q][d] = i => ftable[i].ref >= 1
         /\ \A q \in Procs : \A n \in DOMAIN th[q].files : th[q].files[n] = i => ftable[i].ref >= 1
<1>1. ftable[i].ref = Cardinality(FdsOf(i)) + Cardinality(PipesOf(i))
  BY SoundFacts DEF Sound, RefsCount
<1>2. ftable[i] \in Files /\ ftable[i].ref \in Nat
  BY SoundFacts DEF TablesShape, Files
<1>3. Cardinality(FdsOf(i)) \in Nat /\ Cardinality(PipesOf(i)) \in Nat
  BY DescriptorsFinite
<1>4. IsFiniteSet(FdsOf(i)) /\ IsFiniteSet(PipesOf(i))
  <2>1. IsFiniteSet(Procs \X (1 .. NOFILE)) /\ IsFiniteSet(Procs \X (1 .. 2))
    BY TablesFinite, FS_Product
  <2>2. FdsOf(i) \subseteq Procs \X (1 .. NOFILE) /\ PipesOf(i) \subseteq Procs \X (1 .. 2)
    BY DEF FdsOf, PipesOf
  <2> QED BY <2>1, <2>2, FS_Subset
<1>5. /\ Cardinality(FdsOf(i)) = 0 => FdsOf(i) = {}
      /\ Cardinality(PipesOf(i)) = 0 => PipesOf(i) = {}
  BY <1>4, FS_EmptySet
<1>6. ftable[i].ref = 0 => FdsOf(i) = {} /\ PipesOf(i) = {}
  BY <1>1, <1>3, <1>5
<1>7. ASSUME NEW q \in Procs, NEW d \in 1 .. NOFILE, ofile[q][d] = i
      PROVE  ftable[i].ref >= 1
  <2>1. <<q, d>> \in FdsOf(i)
    BY <1>7 DEF FdsOf
  <2> QED BY <1>2, <1>6, <2>1
<1>8. ASSUME NEW q \in Procs, NEW n \in DOMAIN th[q].files, th[q].files[n] = i
      PROVE  ftable[i].ref >= 1
  <2>1. th[q].files \in Seq(1 .. NFILE) /\ Len(th[q].files) <= 2
    BY SoundFacts DEF CallShape
  <2>2. n \in 1 .. 2 /\ n <= Len(th[q].files)
    BY <2>1
  <2>3. <<q, n>> \in PipesOf(i)
    BY <1>8, <2>2 DEF PipesOf
  <2> QED BY <1>2, <1>6, <2>3
<1> QED BY <1>2, <1>7, <1>8

\* A step of p that changes files and its own descriptors, but no count of
\* a slot.
LEMMA FileStep ==
  ASSUME Sound, NEW p \in Procs, NEW u, OneCall(p, cwd[p], u),
         CallShape(u), CallKeeps(u), GoesOn(u) # "gone", Keeps(fs, fs'),
         ftable' \in [1 .. NFILE -> Files], FilesClean',
         \A j \in 1 .. NFILE : ftable'[j].type = "inode" => ftable[j].type = "inode" \/ ftable[j].ref = 0,
         \A n \in DOMAIN u.files : ftable'[u.files[n]].type # "inode",
         ofile' \in [Procs -> [1 .. NOFILE -> 0 .. NFILE]],
         \A q \in Procs \ {p} : ofile'[q] = ofile[q],
         \A x \in Slots : Tally(cwd[p], th[p], x) + Cardinality(FilesOn(x))
                            = Tally(cwd[p], u, x) + Cardinality(FilesOn(x)'),
         FilesBalanced
  PROVE  RefsInv'
<1>1. RefsNat(fs) /\ TablesShape /\ PipesApart /\ GoneHasNothing /\ cwd[p] \in {0} \cup Slots
  BY SoundFacts
<1>2. FsShape(fs') /\ RefsNat(fs')
  BY <1>1, KeepsNat DEF Keeps
<1>3. TablesShape'
  BY DEF TablesShape, OneCall
<1>4. PipesApart'
  <2> SUFFICES ASSUME NEW q \in Procs, NEW n \in DOMAIN th'[q].files
               PROVE  ftable'[th'[q].files[n]].type # "inode"
    BY DEF PipesApart
  <2>1. CASE q = p
    BY <2>1 DEF OneCall
  <2>2. CASE q # p
    <3>1. th'[q] = th[q] /\ n \in DOMAIN th[q].files
      BY <2>2 DEF OneCall
    <3>2. th[q].files \in Seq(1 .. NFILE)
      BY SoundFacts DEF CallShape
    <3> DEFINE j == th[q].files[n]
    <3>3. j \in 1 .. NFILE
      <4> DEFINE files == th[q].files
      <4>1. files \in Seq(1 .. NFILE) /\ n \in DOMAIN files
        BY <3>1, <3>2
      <4> HIDE DEF files
      <4>2. files[n] \in 1 .. NFILE
        BY <4>1, Zenon, ElementOfSeq, LenProperties
      <4> QED BY <4>2 DEF files
    <3>4. ftable[j].type # "inode"
      BY <1>1, <3>1 DEF PipesApart
    <3>5. ftable[j].ref >= 1
      BY <3>1, <3>3, FileUsed
    <3>6. ftable[j].ref # 0
      BY <3>5
    <3> QED BY <3>1, <3>3, <3>4, <3>6
  <2> QED BY <2>1, <2>2
<1>5. GoneHasNothing'
  BY <1>1 DEF GoneHasNothing, OneCall
<1>6. Balanced(p, cwd[p], u)
  <2> SUFFICES ASSUME NEW x \in Slots
               PROVE  fs'.slot[x].ref + Tally(cwd[p], th[p], x) + Cardinality(FilesOn(x))
                        = fs.slot[x].ref + Tally(cwd[p], u, x) + Cardinality(FilesOn(x)')
    BY DEF Balanced
  <2> DEFINE a == Tally(cwd[p], th[p], x)
             b == Tally(cwd[p], u, x)
             m == Cardinality(FilesOn(x))
             n == Cardinality(FilesOn(x)')
             r == fs.slot[x].ref
  <2>1. a + m = b + n /\ fs'.slot[x].ref = r
    BY DEF Keeps
  <2>2. a \in Nat /\ b \in Nat /\ m \in Nat /\ n \in Nat /\ r \in Nat
    BY <1>1, TallyNat, FilesOnFinite DEF RefsNat
  <2> HIDE DEF a, b, m, n, r
  <2>3. r + a + m = r + b + n
    BY <2>1, <2>2
  <2> QED BY <2>1, <2>3 DEF a, b, m, n, r
<1> QED BY <1>1, <1>2, <1>3, <1>4, <1>5, <1>6, TableStep

LEMMA TallyIdle ==
  /\ CallShape(Idle) /\ CallKeeps(Idle) /\ GoesOn(Idle) = "idle" /\ Idle.files = <<>>
  /\ \A c : \A x \in Slots : Tally(c, Idle, x) = Is(c = x)
<1>1. /\ Idle.pc = "idle" /\ Idle.puts = <<>> /\ Idle.files = <<>> /\ Idle.ip = 0 /\ Idle.dp = 0
      /\ Idle.old = 0
  BY DEF Idle
<1>2. CallShape(Idle)
  BY <1>1 DEF CallShape
<1>3. GoesOn(Idle) = "idle"
  BY <1>1 DEF GoesOn
<1>4. CallKeeps(Idle)
  BY <1>1, <1>3 DEF CallKeeps
<1>5. ASSUME NEW c, NEW x \in Slots PROVE Tally(c, Idle, x) = Is(c = x)
  <2>1. Tally(c, Idle, x) = Is(c = x) + Is(0 = x) + Is(0 = x) + Is(0 = x)
    BY <1>1, TallyOfOne
  <2>2. Is(0 = x) = 0 /\ Is(c = x) \in Nat
    BY NoneIs DEF Is
  <2> QED BY <2>1, <2>2
<1> QED BY <1>1, <1>2, <1>3, <1>4, <1>5

LEMMA FreeOnes ==
  ASSUME Sound
  PROVE  /\ FreeFiles # {} => Min(FreeFiles) \in 1 .. NFILE /\ ftable[Min(FreeFiles)].ref = 0
         /\ \A p \in Procs : FreeFds(p) # {} =>
              Min(FreeFds(p)) \in 1 .. NOFILE /\ ofile[p][Min(FreeFds(p))] = 0
<1>1. FreeFiles \subseteq Nat /\ \A p : FreeFds(p) \subseteq Nat
  BY SizesAssumption DEF FreeFiles, FreeFds
<1>2. FreeFiles # {} => Min(FreeFiles) \in FreeFiles
  BY <1>1, LeastIn
<1>3. \A p : FreeFds(p) # {} => Min(FreeFds(p)) \in FreeFds(p)
  BY <1>1, LeastIn
<1> QED BY <1>2, <1>3 DEF FreeFiles, FreeFds

\* What closing one reference to the file i does to it.
LEMMA Closed ==
  ASSUME Sound, NEW i \in 1 .. NFILE, ftable[i].ref >= 1, ftable' = fileclose(ftable, i)
  PROVE  /\ ftable' \in [1 .. NFILE -> Files] /\ FilesClean'
         /\ \A j \in (1 .. NFILE) \ {i} : ftable'[j] = ftable[j]
         /\ ftable'[i].ref = ftable[i].ref - 1
         /\ ftable[i].ref > 1 => ftable'[i].type = ftable[i].type /\ ftable'[i].ip = ftable[i].ip
         /\ ~(ftable[i].ref > 1) => ftable'[i].type = "none" /\ ftable'[i].ip = 0
<1>1. /\ ftable \in [1 .. NFILE -> Files] /\ FilesClean /\ ftable[i].ref \in Nat
  BY SoundFacts, FileUsed DEF TablesShape
<1>2. CASE ftable[i].ref > 1
  <2> DEFINE r == ftable[i].ref - 1
             g == [ftable EXCEPT ![i].ref = r]
  <2>1. ftable' = g /\ r \in Nat /\ r # 0
    BY <1>1, <1>2 DEF fileclose
  <2> HIDE DEF r
  <2>2. g \in [1 .. NFILE -> Files]
    BY <1>1, <2>1 DEF Files
  <2>3. /\ g[i].ref = r /\ g[i].type = ftable[i].type /\ g[i].ip = ftable[i].ip
        /\ \A j \in (1 .. NFILE) \ {i} : g[j] = ftable[j]
    BY <1>1 DEF Files
  <2> HIDE DEF g
  <2>4. FilesClean'
    BY <1>1, <2>1, <2>3 DEF FilesClean
  <2> QED BY <1>2, <2>1, <2>2, <2>3, <2>4 DEF r
<1>3. CASE ~(ftable[i].ref > 1)
  <2>1. ftable' = [ftable EXCEPT ![i] = NoFile] /\ ftable[i].ref = 1
    BY <1>1, <1>3 DEF fileclose
  <2>2. NoFile \in Files /\ NoFile.ref = 0 /\ NoFile.type = "none" /\ NoFile.ip = 0
    BY DEF NoFile, Files
  <2>3. ftable' \in [1 .. NFILE -> Files] /\ ftable'[i] = NoFile
        /\ \A j \in (1 .. NFILE) \ {i} : ftable'[j] = ftable[j]
    BY <1>1, <2>1, <2>2
  <2>4. FilesClean'
    BY <1>1, <2>2, <2>3 DEF FilesClean
  <2> QED BY <1>3, <2>1, <2>2, <2>3, <2>4
<1> QED BY <1>2, <1>3

\* The end of sys_open().
LEMMA OpenTailRefs ==
  ASSUME Sound, NEW p \in Procs, NEW f, Keeps(fs, f), OpenTail(p, f, th[p], th[p].ip),
         th[p].pc \in {"open", "create_found", "create_end"}, UNCHANGED cwd
  PROVE  RefsInv'
<1> DEFINE t == th[p]
           s == t.ip
           i == Min(FreeFiles)
           d == Min(FreeFds(p))
           readable == t.n # O_WRONLY
           writable == t.n # O_RDONLY
           e == [ref |-> 1, type |-> "inode", ip |-> s, off |-> 0,
                 readable |-> readable, writable |-> writable]
<1>1. fs' = Unlock(f, s) /\ Keeps(fs, fs')
  <2>1. fs' = Unlock(f, s)
    BY DEF OpenTail
  <2>2. FsShape(f)
    BY DEF Keeps
  <2> HIDE DEF s
  <2>3. Keeps(f, Unlock(f, s))
    BY <2>2, SlotKeeps
  <2> QED BY <2>1, <2>3, KeepsKeeps
<1>2. /\ t.puts = <<>> /\ CallShape(t) /\ CallKeeps(t) /\ GoesOn(t) = t.pc
  BY AtPc
<1>3. t.files = <<>> /\ t.dp = 0 /\ t.old = 0 /\ s \in {0} \cup Slots
  BY <1>2 DEF CallKeeps, CallShape
<1>4. CASE FreeFiles = {} \/ FreeFds(p) = {}
  <2>1. Goto(p, Puts([t EXCEPT !.ip = 0], <<s>>, "idle")) /\ UNCHANGED <<ftable, ofile>>
    BY <1>4 DEF OpenTail
  <2> QED BY <1>1, <1>3, <2>1, PutIpStep
<1>5. CASE FreeFiles # {} /\ FreeFds(p) # {}
  <2>1. /\ ftable' = [ftable EXCEPT ![i] = e]
        /\ ofile' = [ofile EXCEPT ![p][d] = i] /\ Goto(p, Idle)
    BY <1>5 DEF OpenTail
  <2>2. /\ i \in 1 .. NFILE /\ ftable[i].ref = 0 /\ d \in 1 .. NOFILE /\ ofile[p][d] = 0
    BY <1>5, FreeOnes
  <2> HIDE DEF i, d, readable, writable
  <2>3. /\ TablesShape /\ FilesClean
    BY SoundFacts
  <2>4. e \in Files /\ e.ref = 1 /\ e.type = "inode" /\ e.ip = s
    BY <1>3 DEF Files, readable, writable
  <2> HIDE DEF e
  <2>5. /\ ftable' \in [1 .. NFILE -> Files] /\ ftable'[i] = e
        /\ \A j \in (1 .. NFILE) \ {i} : ftable'[j] = ftable[j]
    BY <2>1, <2>2, <2>3, <2>4 DEF TablesShape
  <2>6. /\ ofile' \in [Procs -> [1 .. NOFILE -> 0 .. NFILE]] /\ ofile'[p][d] = i
        /\ \A q \in Procs \ {p} : ofile'[q] = ofile[q]
        /\ \A c \in (1 .. NOFILE) \ {d} : ofile'[p][c] = ofile[p][c]
    <3>1. i \in 0 .. NFILE
      BY <2>2
    <3> QED BY <2>1, <2>2, <2>3, <3>1 DEF TablesShape
  <2>7. OneCall(p, cwd[p], Idle)
    BY <2>1, GotoIs
  <2>8. FilesClean'
    BY <2>3, <2>4, <2>5 DEF FilesClean
  <2>9. \A j \in 1 .. NFILE : ftable'[j].type = "inode" => ftable[j].type = "inode" \/ ftable[j].ref = 0
    BY <2>2, <2>5
  <2>10. ftable[i].type = "none"
    BY <2>2, <2>3 DEF FilesClean
  <2>11. ASSUME NEW x \in Slots
         PROVE  Tally(cwd[p], t, x) + Cardinality(FilesOn(x))
                  = Tally(cwd[p], Idle, x) + Cardinality(FilesOn(x)')
    <3>1. Tally(cwd[p], t, x) = Is(cwd[p] = x) + Is(s = x) + Is(0 = x) + Is(0 = x)
      BY <1>2, <1>3, TallyOfOne
    <3>2. Tally(cwd[p], Idle, x) = Is(cwd[p] = x)
      BY TallyIdle
    <3>3. Cardinality(FilesOn(x)') + Is(ftable[i].type = "inode" /\ ftable[i].ip = x)
            = Cardinality(FilesOn(x)) + Is(ftable'[i].type = "inode" /\ ftable'[i].ip = x)
      BY <2>2, <2>5, FilesOnChange
    <3>4. /\ Is(ftable[i].type = "inode" /\ ftable[i].ip = x) = 0
          /\ Is(ftable'[i].type = "inode" /\ ftable'[i].ip = x) = Is(s = x)
      BY <2>4, <2>5, <2>10 DEF Is
    <3>5. /\ Is(0 = x) = 0 /\ Is(cwd[p] = x) \in Nat /\ Is(s = x) \in Nat
          /\ Cardinality(FilesOn(x)) \in Nat /\ Cardinality(FilesOn(x)') \in Nat
      BY NoneIs, FilesOnFinite DEF Is
    <3> QED BY <3>1, <3>2, <3>3, <3>4, <3>5
  <2>12. ASSUME NEW j \in 1 .. NFILE
         PROVE  ftable'[j].ref + Cardinality(FdsOf(j)) + Cardinality(PipesOf(j))
                  = ftable[j].ref + Cardinality(FdsOf(j)') + Cardinality(PipesOf(j)')
    <3>1. Cardinality(FdsOf(j)') + Is(ofile[p][d] = j) = Cardinality(FdsOf(j)) + Is(ofile'[p][d] = j)
      BY <2>2, <2>6, FdsChange
    <3>2. Is(ofile[p][d] = j) = 0 /\ Is(ofile'[p][d] = j) = Is(i = j)
      BY <2>2, <2>6 DEF Is
    <3>3. PipesOf(j)' = PipesOf(j)
      <4>1. \A q \in Procs : th'[q].files = th[q].files
        BY <1>3, <2>7, TallyIdle DEF OneCall
      <4> QED BY <4>1 DEF PipesOf
    <3>4. ftable'[j].ref = ftable[j].ref + Is(i = j) /\ ftable[j].ref \in Nat /\ Is(i = j) \in Nat
      BY <2>2, <2>4, <2>5, FileUsed DEF Is
    <3>5. /\ Cardinality(FdsOf(j)) \in Nat /\ Cardinality(FdsOf(j)') \in Nat
          /\ Cardinality(PipesOf(j)) \in Nat
      BY DescriptorsFinite
    <3> QED BY <3>1, <3>2, <3>3, <3>4, <3>5
  <2>13. FilesBalanced
    BY <2>12 DEF FilesBalanced
  <2>14. \A n \in DOMAIN Idle.files : ftable'[Idle.files[n]].type # "inode"
    BY TallyIdle
  <2>15. GoesOn(Idle) # "gone"
    BY TallyIdle
  <2> QED BY <1>1, <2>5, <2>6, <2>7, <2>8, <2>9, <2>11, <2>13, <2>14, <2>15, TallyIdle, FileStep
<1> QED BY <1>4, <1>5

LEMMA sys_openRefs ==
  ASSUME Sound, NEW p \in Procs, sys_open(p)
  PROVE  RefsInv'
<1> DEFINE f == Loaded(fs, th[p].ip)
<1>1. /\ th[p].pc = "open" /\ UNCHANGED cwd
      /\ \/ /\ fs' = f /\ UNCHANGED <<ftable, ofile>>
            /\ Goto(p, Puts([th[p] EXCEPT !.ip = 0], <<th[p].ip>>, "idle"))
         \/ OpenTail(p, f, th[p], th[p].ip)
  BY DEF sys_open, Running
<1>2. th[p].files = <<>> /\ th[p].dp = 0 /\ th[p].old = 0
  BY <1>1, AtPc DEF CallKeeps
<1>3. Keeps(fs, f)
  BY UnderLock
<1> HIDE DEF f
<1>4. CASE /\ fs' = f /\ UNCHANGED <<ftable, ofile>>
           /\ Goto(p, Puts([th[p] EXCEPT !.ip = 0], <<th[p].ip>>, "idle"))
  BY <1>1, <1>2, <1>3, <1>4, PutIpStep
<1>5. CASE OpenTail(p, f, th[p], th[p].ip)
  BY <1>1, <1>3, <1>5, OpenTailRefs
<1> QED BY <1>1, <1>4, <1>5

LEMMA create_foundRefs ==
  ASSUME Sound, NEW p \in Procs, create_found(p)
  PROVE  RefsInv'
<1> DEFINE f == Loaded(fs, th[p].ip)
<1>1. /\ th[p].pc = "create_found" /\ UNCHANGED cwd
      /\ \/ /\ fs' = f /\ UNCHANGED <<ftable, ofile>>
            /\ Goto(p, Puts([th[p] EXCEPT !.ip = 0], <<th[p].ip>>, "idle"))
         \/ OpenTail(p, f, th[p], th[p].ip)
  BY DEF create_found, Running
<1>2. th[p].files = <<>> /\ th[p].dp = 0 /\ th[p].old = 0
  BY <1>1, AtPc DEF CallKeeps
<1>3. Keeps(fs, f)
  BY UnderLock
<1> HIDE DEF f
<1>4. CASE /\ fs' = f /\ UNCHANGED <<ftable, ofile>>
           /\ Goto(p, Puts([th[p] EXCEPT !.ip = 0], <<th[p].ip>>, "idle"))
  BY <1>1, <1>2, <1>3, <1>4, PutIpStep
<1>5. CASE OpenTail(p, f, th[p], th[p].ip)
  BY <1>1, <1>3, <1>5, OpenTailRefs
<1> QED BY <1>1, <1>4, <1>5

LEMMA create_endRefs ==
  ASSUME Sound, NEW p \in Procs, create_end(p)
  PROVE  RefsInv'
<1>1. /\ th[p].pc = "create_end" /\ UNCHANGED cwd
      /\ \/ /\ fs' = Unlock(fs, th[p].ip) /\ UNCHANGED <<ftable, ofile>>
            /\ Goto(p, Puts([th[p] EXCEPT !.ip = 0], <<th[p].ip>>, "idle"))
         \/ OpenTail(p, fs, th[p], th[p].ip)
  BY DEF create_end, Running
<1>2. th[p].files = <<>> /\ th[p].dp = 0 /\ th[p].old = 0
  BY <1>1, AtPc DEF CallKeeps
<1>3. Keeps(fs, fs) /\ Keeps(fs, Unlock(fs, th[p].ip))
  BY UnderLock
<1>4. CASE /\ fs' = Unlock(fs, th[p].ip) /\ UNCHANGED <<ftable, ofile>>
           /\ Goto(p, Puts([th[p] EXCEPT !.ip = 0], <<th[p].ip>>, "idle"))
  BY <1>1, <1>2, <1>3, <1>4, PutIpStep
<1>5. CASE OpenTail(p, fs, th[p], th[p].ip)
  BY <1>1, <1>3, <1>5, OpenTailRefs
<1> QED BY <1>1, <1>4, <1>5

-----------------------------------------------------------------------------
(* The calls on descriptors *)

LEMMA FdRange ==
  ASSUME Sound, NEW p \in Procs, NEW d \in 1 .. NOFILE
  PROVE  ofile[p][d] \in 0 .. NFILE /\ (ofile[p][d] # 0 => ofile[p][d] \in 1 .. NFILE)
<1>1. ofile[p][d] \in 0 .. NFILE
  BY SoundFacts DEF TablesShape
<1> QED BY <1>1

LEMMA sys_dupRefs ==
  ASSUME Sound, NEW p \in Procs, NEW c \in 1 .. NOFILE, sys_dup(p, c)
  PROVE  RefsInv'
<1> DEFINE t == th[p]
           i == ofile[p][c]
           d == Min(FreeFds(p))
           r == ftable[i].ref + 1
<1>1. /\ t.pc = "idle" /\ i # 0 /\ FreeFds(p) # {} /\ UNCHANGED <<fs, cwd, th>>
      /\ ofile' = [ofile EXCEPT ![p][d] = i] /\ ftable' = [ftable EXCEPT ![i].ref = r]
  BY DEF sys_dup, ByFd, Running, filedup
<1>2. d \in 1 .. NOFILE /\ ofile[p][d] = 0
  BY <1>1, FreeOnes
<1>3. TablesShape /\ FilesClean /\ PipesApart
  BY SoundFacts
<1>4. i \in 1 .. NFILE
  <2>1. i \in 0 .. NFILE
    BY <1>3 DEF TablesShape
  <2> QED BY <1>1, <2>1
<1>5. r \in Nat /\ r # 0 /\ r = ftable[i].ref + 1 /\ ftable[i].ref \in Nat
  BY <1>4, FileUsed
<1> HIDE DEF i, d, r
<1>6. /\ ftable' \in [1 .. NFILE -> Files]
      /\ ftable'[i].ref = r /\ ftable'[i].type = ftable[i].type /\ ftable'[i].ip = ftable[i].ip
      /\ \A j \in (1 .. NFILE) \ {i} : ftable'[j] = ftable[j]
  BY <1>1, <1>3, <1>4, <1>5 DEF TablesShape, Files
<1>7. /\ ofile' \in [Procs -> [1 .. NOFILE -> 0 .. NFILE]] /\ ofile'[p][d] = i
      /\ \A q \in Procs \ {p} : ofile'[q] = ofile[q]
      /\ \A e \in (1 .. NOFILE) \ {d} : ofile'[p][e] = ofile[p][e]
  <2>1. i \in 0 .. NFILE
    BY <1>4
  <2> QED BY <1>1, <1>2, <1>3, <2>1 DEF TablesShape
<1>8. FilesClean'
  BY <1>3, <1>4, <1>5, <1>6 DEF FilesClean
<1>9. /\ CallShape(t) /\ CallKeeps(t) /\ GoesOn(t) = "idle" /\ cwd[p] \in {0} \cup Slots
  BY <1>1, AtPc
<1>10. OneCall(p, cwd[p], t)
  BY <1>1, <1>3 DEF OneCall, TablesShape
<1>11. \A j \in 1 .. NFILE : ftable'[j].type = ftable[j].type /\ ftable'[j].ip = ftable[j].ip
  BY <1>6
<1>12. \A x : FilesOn(x)' = FilesOn(x)
  BY <1>11 DEF FilesOn
<1>13. ASSUME NEW j \in 1 .. NFILE
       PROVE  ftable'[j].ref + Cardinality(FdsOf(j)) + Cardinality(PipesOf(j))
                = ftable[j].ref + Cardinality(FdsOf(j)') + Cardinality(PipesOf(j)')
  <2>1. Cardinality(FdsOf(j)') + Is(ofile[p][d] = j) = Cardinality(FdsOf(j)) + Is(ofile'[p][d] = j)
    BY <1>2, <1>7, FdsChange
  <2>2. Is(ofile[p][d] = j) = 0 /\ Is(ofile'[p][d] = j) = Is(i = j)
    BY <1>2, <1>7 DEF Is
  <2>3. PipesOf(j)' = PipesOf(j)
    BY <1>1 DEF PipesOf
  <2>4. ftable'[j].ref = ftable[j].ref + Is(i = j) /\ ftable[j].ref \in Nat /\ Is(i = j) \in Nat
    BY <1>4, <1>5, <1>6, FileUsed DEF Is
  <2>5. /\ Cardinality(FdsOf(j)) \in Nat /\ Cardinality(FdsOf(j)') \in Nat
        /\ Cardinality(PipesOf(j)) \in Nat
    BY DescriptorsFinite
  <2> QED BY <2>1, <2>2, <2>3, <2>4, <2>5
<1>14. FilesBalanced
  BY <1>13 DEF FilesBalanced
<1>15. t.files = <<>> /\ GoesOn(t) # "gone"
  BY <1>9 DEF CallKeeps
<1>16. \A n \in DOMAIN t.files : ftable'[t.files[n]].type # "inode"
  BY <1>15
<1>17. Keeps(fs, fs')
  BY <1>1, SoundFacts DEF Keeps
<1> QED BY <1>6, <1>7, <1>8, <1>9, <1>10, <1>11, <1>12, <1>14, <1>15, <1>16, <1>17, FileStep

\* A descriptor of p gives up its file: what sys_close() and exit() do.
LEMMA CloseStep ==
  ASSUME Sound, NEW p \in Procs, NEW d \in 1 .. NOFILE, ofile[p][d] # 0,
         ofile' = [ofile EXCEPT ![p][d] = 0], ftable' = fileclose(ftable, ofile[p][d]),
         UNCHANGED <<fs, cwd>>, th[p].pc \in {"idle", "exit"},
         NEW u, CallShape(u), CallKeeps(u), GoesOn(u) # "gone", u.files = <<>>,
         OneCall(p, cwd[p], u),
         \A x \in Slots :
           Tally(cwd[p], u, x)
             = Is(cwd[p] = x) + IF ftable[ofile[p][d]].ref > 1 THEN 0 ELSE Is(ftable[ofile[p][d]].ip = x)
  PROVE  RefsInv'
<1> DEFINE t == th[p]
           i == ofile[p][d]
<1>1. TablesShape /\ FilesClean
  BY SoundFacts
<1>2. i \in 1 .. NFILE
  BY FdRange
<1> HIDE DEF i
<1>3. ftable[i].ref >= 1 /\ ftable[i].ref \in Nat /\ ftable[i] \in Files
  BY <1>2, FileUsed DEF i
<1>4. /\ ftable' \in [1 .. NFILE -> Files] /\ FilesClean'
      /\ \A j \in (1 .. NFILE) \ {i} : ftable'[j] = ftable[j]
      /\ ftable'[i].ref = ftable[i].ref - 1
      /\ ftable[i].ref > 1 => ftable'[i].type = ftable[i].type /\ ftable'[i].ip = ftable[i].ip
      /\ ~(ftable[i].ref > 1) => ftable'[i].type = "none" /\ ftable'[i].ip = 0
  BY <1>2, <1>3, Closed DEF i
<1>5. /\ ofile' \in [Procs -> [1 .. NOFILE -> 0 .. NFILE]] /\ ofile'[p][d] = 0
      /\ \A q \in Procs \ {p} : ofile'[q] = ofile[q]
      /\ \A e \in (1 .. NOFILE) \ {d} : ofile'[p][e] = ofile[p][e]
  <2>1. 0 \in 0 .. NFILE
    BY SizesAssumption
  <2> QED BY <1>1, <2>1 DEF TablesShape
<1>6. /\ t.puts = <<>> /\ CallKeeps(t) /\ GoesOn(t) = t.pc
  BY AtPc
<1>7. t.ip = 0 /\ t.dp = 0 /\ t.old = 0 /\ t.files = <<>>
  BY <1>6 DEF CallKeeps
<1>8. \A j \in 1 .. NFILE : ftable'[j].type = "inode" => ftable[j].type = "inode" \/ ftable[j].ref = 0
  BY <1>4
<1>9. ASSUME NEW x \in Slots
      PROVE  Tally(cwd[p], t, x) + Cardinality(FilesOn(x))
               = Tally(cwd[p], u, x) + Cardinality(FilesOn(x)')
  <2>1. Tally(cwd[p], t, x) = Is(cwd[p] = x) + Is(0 = x) + Is(0 = x) + Is(0 = x)
    BY <1>6, <1>7, TallyOfOne
  <2>2. Cardinality(FilesOn(x)') + Is(ftable[i].type = "inode" /\ ftable[i].ip = x)
          = Cardinality(FilesOn(x)) + Is(ftable'[i].type = "inode" /\ ftable'[i].ip = x)
    BY <1>2, <1>4, FilesOnChange
  <2>3. /\ Is(0 = x) = 0 /\ Is(cwd[p] = x) \in Nat
        /\ Cardinality(FilesOn(x)) \in Nat /\ Cardinality(FilesOn(x)') \in Nat
    BY NoneIs, FilesOnFinite DEF Is
  <2>4. CASE ftable[i].ref > 1
    <3>1. Cardinality(FilesOn(x)') = Cardinality(FilesOn(x))
      <4> DEFINE k == Is(ftable[i].type = "inode" /\ ftable[i].ip = x)
      <4>1. k \in Nat /\ Is(ftable'[i].type = "inode" /\ ftable'[i].ip = x) = k
        BY <1>4, <2>4 DEF Is
      <4> HIDE DEF k
      <4>2. Cardinality(FilesOn(x)') + k = Cardinality(FilesOn(x)) + k
        BY <2>2, <4>1 DEF k
      <4> QED BY <2>3, <4>1, <4>2
    <3>2. Tally(cwd[p], u, x) = Is(cwd[p] = x) + 0
      BY <2>4 DEF i
    <3> QED BY <2>1, <2>3, <3>1, <3>2
  <2>5. CASE ~(ftable[i].ref > 1)
    <3>1. Is(ftable'[i].type = "inode" /\ ftable'[i].ip = x) = 0
      BY <1>4, <2>5 DEF Is
    <3>2. Is(ftable[i].type = "inode" /\ ftable[i].ip = x) = Is(ftable[i].ip = x)
      <4>1. CASE ftable[i].type = "inode"
        BY <4>1 DEF Is
      <4>2. CASE ftable[i].type # "inode"
        <5>1. ftable[i].ip = 0 /\ x # 0
          BY <1>1, <1>2, <4>2 DEF FilesClean, Slots
        <5> QED BY <4>2, <5>1 DEF Is
      <4> QED BY <4>1, <4>2
    <3>3. Is(ftable[i].ip = x) \in Nat
      BY DEF Is
    <3>4. Tally(cwd[p], u, x) = Is(cwd[p] = x) + Is(ftable[i].ip = x)
      BY <2>5 DEF i
    <3> QED BY <2>1, <2>2, <2>3, <3>1, <3>2, <3>3, <3>4
  <2> QED BY <2>4, <2>5
<1>10. ASSUME NEW j \in 1 .. NFILE
       PROVE  ftable'[j].ref + Cardinality(FdsOf(j)) + Cardinality(PipesOf(j))
                = ftable[j].ref + Cardinality(FdsOf(j)') + Cardinality(PipesOf(j)')
  <2>1. Cardinality(FdsOf(j)') + Is(ofile[p][d] = j) = Cardinality(FdsOf(j)) + Is(ofile'[p][d] = j)
    <3>1. \A q \in Procs : \A e \in 1 .. NOFILE : <<q, e>> # <<p, d>> => ofile'[q][e] = ofile[q][e]
      BY <1>5
    <3> QED BY <3>1, FdsChange
  <2>2. Is(ofile[p][d] = j) = Is(i = j) /\ Is(ofile'[p][d] = j) = 0
    <3>1. j # 0
      OBVIOUS
    <3> QED BY <1>5, <3>1 DEF Is, i
  <2>3. PipesOf(j)' = PipesOf(j)
    <3>1. \A q \in Procs : th'[q].files = th[q].files
      BY <1>7 DEF OneCall
    <3> QED BY <3>1 DEF PipesOf
  <2>4. /\ ftable'[j].ref + Is(i = j) = ftable[j].ref
        /\ ftable[j].ref \in Nat /\ ftable'[j].ref \in Nat /\ Is(i = j) \in Nat
    <3>1. CASE j = i
      BY <1>3, <1>4, <3>1 DEF Is
    <3>2. CASE j # i
      <4>1. ftable'[j] = ftable[j] /\ ftable[j].ref \in Nat /\ Is(i = j) = 0
        BY <1>4, <3>2, FileUsed DEF Is
      <4> QED BY <4>1
    <3> QED BY <3>1, <3>2
  <2>5. /\ Cardinality(FdsOf(j)) \in Nat /\ Cardinality(FdsOf(j)') \in Nat
        /\ Cardinality(PipesOf(j)) \in Nat
    BY DescriptorsFinite
  <2>6. Cardinality(FdsOf(j)') + Is(i = j) = Cardinality(FdsOf(j)) + 0
    BY <2>1, <2>2
  <2> QED BY <2>3, <2>4, <2>5, <2>6
<1>11. FilesBalanced
  BY <1>10 DEF FilesBalanced
<1>12. \A n \in DOMAIN u.files : ftable'[u.files[n]].type # "inode"
  OBVIOUS
<1>13. Keeps(fs, fs')
  BY SoundFacts DEF Keeps
<1> QED BY <1>4, <1>5, <1>8, <1>9, <1>11, <1>12, <1>13, FileStep

\* A call that has nothing but one slot to put.
IsPutOnly(u, a, after) ==
  /\ CallShape(u) /\ CallKeeps(u) /\ GoesOn(u) = after /\ u.files = <<>>
  /\ \A c : \A x \in Slots : Tally(c, u, x) = Is(c = x) + Is(a = x)

LEMMA PutOnly ==
  ASSUME NEW t, CallShape(t), t.ip = 0, t.dp = 0, t.old = 0, t.files = <<>>,
         NEW a \in {0} \cup Slots, NEW after \in {"idle", "exit", "gone"}
  PROVE  IsPutOnly(Puts(t, <<a>>, after), a, after)
<1> DEFINE u == Puts(t, <<a>>, after)
<1>1. IsPut(u, t, <<a>>, after)
  BY PutOne
<1> HIDE DEF u
<1>2. /\ CallShape(u) /\ u.files = <<>> /\ GoesOn(u) = after
      /\ u.puts = <<a>> /\ u.pc = "put" /\ u.ip = 0 /\ u.dp = 0 /\ u.old = 0
  BY <1>1 DEF IsPut
<1>3. CallKeeps(u)
  BY <1>2 DEF CallKeeps
<1>4. ASSUME NEW c, NEW x \in Slots PROVE Tally(c, u, x) = Is(c = x) + Is(a = x)
  <2>1. Tally(c, u, x) = Is(c = x) + Is(0 = x) + Is(0 = x) + Is(0 = x) + Is(a = x)
    BY <1>2, TallyOfOne
  <2>2. Is(0 = x) = 0 /\ Is(c = x) \in Nat /\ Is(a = x) \in Nat
    BY NoneIs DEF Is
  <2> QED BY <2>1, <2>2
<1>5. IsPutOnly(u, a, after)
  BY <1>2, <1>3, <1>4 DEF IsPutOnly
<1> QED BY <1>5 DEF u

LEMMA TallyNone ==
  ASSUME NEW t, CallShape(t), t.ip = 0, t.dp = 0, t.old = 0, t.puts = <<>>
  PROVE  \A c : \A x \in Slots : Tally(c, t, x) = Is(c = x)
<1> TAKE c
<1> TAKE x \in Slots
<1>1. Tally(c, t, x) = Is(c = x) + Is(0 = x) + Is(0 = x) + Is(0 = x)
  BY TallyOfOne
<1>2. Is(0 = x) = 0 /\ Is(c = x) \in Nat
  BY NoneIs DEF Is
<1> QED BY <1>1, <1>2

\* The two ways that closing a descriptor goes on.
LEMMA CloseGoesOn ==
  ASSUME Sound, NEW p \in Procs, NEW d \in 1 .. NOFILE, ofile[p][d] # 0,
         ofile' = [ofile EXCEPT ![p][d] = 0], ftable' = fileclose(ftable, ofile[p][d]),
         UNCHANGED <<fs, cwd>>, th[p].pc \in {"idle", "exit"},
         NEW t, CallShape(t), t.ip = 0, t.dp = 0, t.old = 0, t.files = <<>>,
         IF ftable[ofile[p][d]].ref > 1 \/ ftable[ofile[p][d]].type = "pipe" THEN UNCHANGED th
         ELSE Goto(p, Puts(t, <<ftable[ofile[p][d]].ip>>, th[p].pc))
  PROVE  RefsInv'
<1> DEFINE i == ofile[p][d]
           ip == ftable[i].ip
<1>1. i \in 1 .. NFILE /\ ftable[i] \in Files
  BY FdRange, FileUsed
<1>2. ip \in {0} \cup Slots
  BY <1>1 DEF Files
<1>3. TablesShape /\ FilesClean
  BY SoundFacts
<1>4. /\ th[p].puts = <<>> /\ CallShape(th[p]) /\ CallKeeps(th[p]) /\ GoesOn(th[p]) = th[p].pc
  BY AtPc
<1>5. th[p].ip = 0 /\ th[p].dp = 0 /\ th[p].old = 0 /\ th[p].files = <<>>
  BY <1>4 DEF CallKeeps
<1>6. CASE UNCHANGED th /\ (ftable[i].ref > 1 \/ ftable[i].type = "pipe")
  <2>1. OneCall(p, cwd[p], th[p])
    BY <1>3, <1>6 DEF OneCall, TablesShape
  <2>2. ASSUME NEW x \in Slots
        PROVE  Tally(cwd[p], th[p], x) = Is(cwd[p] = x) + IF ftable[i].ref > 1 THEN 0 ELSE Is(ip = x)
    <3>1. Tally(cwd[p], th[p], x) = Is(cwd[p] = x)
      BY <1>4, <1>5, TallyNone
    <3>2. ~(ftable[i].ref > 1) => ip = 0
      BY <1>1, <1>3, <1>6 DEF FilesClean
    <3>3. Is(0 = x) = 0 /\ Is(cwd[p] = x) \in Nat
      BY NoneIs DEF Is
    <3> QED BY <3>1, <3>2, <3>3
  <2>3. GoesOn(th[p]) # "gone"
    BY <1>4
  <2> QED BY <1>4, <1>5, <2>1, <2>2, <2>3, CloseStep
<1>7. CASE Goto(p, Puts(t, <<ip>>, th[p].pc)) /\ ~(ftable[i].ref > 1)
  <2> DEFINE u == Puts(t, <<ip>>, th[p].pc)
  <2>1. OneCall(p, cwd[p], u)
    BY <1>7, GotoIs
  <2>2. IsPutOnly(u, ip, th[p].pc)
    BY <1>2, PutOnly
  <2> HIDE DEF u
  <2>3. /\ CallShape(u) /\ CallKeeps(u) /\ GoesOn(u) = th[p].pc /\ u.files = <<>>
        /\ \A x \in Slots : Tally(cwd[p], u, x) = Is(cwd[p] = x) + Is(ip = x)
    BY <2>2 DEF IsPutOnly
  <2>4. \A x \in Slots : Tally(cwd[p], u, x) = Is(cwd[p] = x) + IF ftable[i].ref > 1 THEN 0 ELSE Is(ip = x)
    BY <1>7, <2>3
  <2>5. GoesOn(u) # "gone"
    BY <2>3
  <2> QED BY <2>1, <2>3, <2>4, <2>5, CloseStep
<1> QED BY <1>6, <1>7

LEMMA sys_closeRefs ==
  ASSUME Sound, NEW p \in Procs, NEW d \in 1 .. NOFILE, sys_close(p, d)
  PROVE  RefsInv'
<1> DEFINE t == [Idle EXCEPT !.op = "close"]
<1>1. /\ th[p].pc = "idle" /\ ofile[p][d] # 0
      /\ ofile' = [ofile EXCEPT ![p][d] = 0] /\ ftable' = fileclose(ftable, ofile[p][d])
      /\ UNCHANGED <<fs, cwd>>
      /\ IF ftable[ofile[p][d]].ref > 1 \/ ftable[ofile[p][d]].type = "pipe" THEN UNCHANGED th
         ELSE Goto(p, Puts(t, <<ftable[ofile[p][d]].ip>>, th[p].pc))
  BY DEF sys_close, ByFd, Running
<1>2. t.ip = 0 /\ t.dp = 0 /\ t.old = 0 /\ t.files = <<>> /\ CallShape(t)
  BY TallyIdle DEF Idle, CallShape
<1> HIDE DEF t
<1> QED BY <1>1, <1>2, CloseGoesOn

LEMMA exit_closeRefs ==
  ASSUME Sound, NEW p \in Procs, exit_close(p)
  PROVE  RefsInv'
<1> DEFINE t == th[p]
           used == {d \in 1 .. NOFILE : ofile[p][d] # 0}
           d == Min(used)
           u == Puts(t, <<cwd[p]>>, "gone")
<1>1. t.pc = "exit" /\ UNCHANGED fs
  BY DEF exit_close, Running
<1>2. /\ t.puts = <<>> /\ CallShape(t) /\ CallKeeps(t) /\ GoesOn(t) = "exit"
      /\ cwd[p] \in {0} \cup Slots
  BY <1>1, AtPc
<1>3. t.ip = 0 /\ t.dp = 0 /\ t.old = 0 /\ t.files = <<>>
  BY <1>2 DEF CallKeeps
<1>4. CASE used = {}
  <2>1. Goto(p, u) /\ cwd' = [cwd EXCEPT ![p] = 0] /\ UNCHANGED <<ftable, ofile>>
    BY <1>4 DEF exit_close
  <2>2. OneCall(p, 0, u) /\ 0 \in {0} \cup Slots
    BY <2>1, GotoIs
  <2>3. IsPutOnly(u, cwd[p], "gone")
    BY <1>2, <1>3, PutOnly
  <2>4. \A e \in 1 .. NOFILE : ofile[p][e] = 0
    BY <1>4
  <2> HIDE DEF u
  <2>5. Becomes(p, 0, u)
    BY <1>3, <2>1, <2>2, <2>3, <2>4 DEF Becomes, IsPutOnly
  <2>6. ASSUME NEW x \in Slots PROVE Tally(0, u, x) = Tally(cwd[p], t, x)
    <3>1. Tally(0, u, x) = Is(0 = x) + Is(cwd[p] = x)
      BY <2>3 DEF IsPutOnly
    <3>2. Tally(cwd[p], t, x) = Is(cwd[p] = x)
      BY <1>2, <1>3, TallyNone
    <3>3. Is(0 = x) = 0 /\ Is(cwd[p] = x) \in Nat
      BY NoneIs DEF Is
    <3> QED BY <3>1, <3>2, <3>3
  <2>7. Keeps(fs, fs')
    BY <1>1, SoundFacts DEF Keeps
  <2> QED BY <2>5, <2>6, <2>7, KeepStep
<1>5. CASE used # {}
  <2>1. /\ ofile' = [ofile EXCEPT ![p][d] = 0] /\ ftable' = fileclose(ftable, ofile[p][d])
        /\ UNCHANGED <<fs, cwd>>
        /\ IF ftable[ofile[p][d]].ref > 1 \/ ftable[ofile[p][d]].type = "pipe" THEN UNCHANGED th
           ELSE Goto(p, Puts(t, <<ftable[ofile[p][d]].ip>>, t.pc))
    BY <1>1, <1>5 DEF exit_close
  <2>2. used \subseteq Nat
    BY SizesAssumption
  <2>3. d \in 1 .. NOFILE /\ ofile[p][d] # 0
    <3> HIDE DEF d
    <3>1. d \in used
      BY <1>5, <2>2, LeastIn DEF d
    <3> QED BY <3>1
  <2> HIDE DEF d, used
  <2> QED BY <1>1, <1>2, <1>3, <2>1, <2>3, CloseGoesOn
<1> QED BY <1>4, <1>5

\* The offset of one file at most changes.
ReadOn ==
  \/ ftable' = ftable
  \/ \E i, off : /\ ftable' = [ftable EXCEPT ![i].off = off]
                 /\ i \in 1 .. NFILE => off \in Nat

QuietCall(p, u) ==
  /\ Goto(p, u) \/ (u = th[p] /\ UNCHANGED th)
  /\ UNCHANGED <<ofile, cwd>>
  /\ th[p].pc \in {"idle", "write"} /\ u.pc \in {"idle", "write", "exit", "pipe"}
  /\ CallShape(u) /\ u.ip = 0 /\ u.dp = 0 /\ u.old = 0 /\ u.puts = <<>> /\ u.files = <<>>

\* A step that only goes on to a call without references, or takes one unit
\* of a file further.
LEMMA QuietStep ==
  ASSUME Sound, NEW p \in Procs, NEW u, QuietCall(p, u), Keeps(fs, fs'), ReadOn
  PROVE  RefsInv'
<1>1. TablesShape /\ FilesClean /\ PipesApart
  BY SoundFacts
<1>0. /\ Goto(p, u) \/ (u = th[p] /\ UNCHANGED th)
      /\ UNCHANGED <<ofile, cwd>>
      /\ th[p].pc \in {"idle", "write"} /\ u.pc \in {"idle", "write", "exit", "pipe"}
      /\ CallShape(u) /\ u.ip = 0 /\ u.dp = 0 /\ u.old = 0 /\ u.puts = <<>> /\ u.files = <<>>
  BY DEF QuietCall
<1>2. /\ th[p].puts = <<>> /\ CallShape(th[p]) /\ CallKeeps(th[p]) /\ GoesOn(th[p]) = th[p].pc
  BY <1>0, AtPc
<1>3. th[p].ip = 0 /\ th[p].dp = 0 /\ th[p].old = 0 /\ th[p].files = <<>>
  BY <1>0, <1>2 DEF CallKeeps
<1>4. OneCall(p, cwd[p], u)
  BY <1>0, <1>1, GotoIs DEF OneCall, TablesShape
<1>5. GoesOn(u) = u.pc
  BY <1>0 DEF GoesOn
<1>6. CallKeeps(u)
  BY <1>0, <1>5 DEF CallKeeps
<1>7. /\ ftable' \in [1 .. NFILE -> Files]
      /\ \A j \in 1 .. NFILE : /\ ftable'[j].ref = ftable[j].ref /\ ftable'[j].type = ftable[j].type
                               /\ ftable'[j].ip = ftable[j].ip
  <2>1. CASE ftable' = ftable
    BY <1>1, <2>1 DEF TablesShape
  <2>2. ASSUME NEW i, NEW off, ftable' = [ftable EXCEPT ![i].off = off],
               i \in 1 .. NFILE => off \in Nat
        PROVE  /\ ftable' \in [1 .. NFILE -> Files]
               /\ \A j \in 1 .. NFILE : /\ ftable'[j].ref = ftable[j].ref /\ ftable'[j].type = ftable[j].type
                                        /\ ftable'[j].ip = ftable[j].ip
    <3>1. CASE i \in 1 .. NFILE
      BY <1>1, <2>2, <3>1 DEF TablesShape, Files
    <3>2. CASE i \notin 1 .. NFILE
      BY <1>1, <2>2, <3>2 DEF TablesShape
    <3> QED BY <3>1, <3>2
  <2> QED BY <2>1, <2>2 DEF ReadOn
<1>8. FilesClean'
  BY <1>1, <1>7 DEF FilesClean
<1>9. \A x : FilesOn(x)' = FilesOn(x)
  BY <1>7 DEF FilesOn
<1>10. \A j : FdsOf(j)' = FdsOf(j) /\ PipesOf(j)' = PipesOf(j)
  <2>1. \A q \in Procs : th'[q].files = th[q].files
    BY <1>0, <1>3, <1>4 DEF OneCall
  <2> QED BY <1>0, <2>1 DEF FdsOf, PipesOf
<1>11. FilesBalanced
  BY <1>7, <1>10 DEF FilesBalanced
<1>12. \A x \in Slots : Tally(cwd[p], u, x) = Tally(cwd[p], th[p], x)
  BY <1>0, <1>2, <1>3, TallyNone
<1>13. \A n \in DOMAIN u.files : ftable'[u.files[n]].type # "inode"
  BY <1>0
<1>14. GoesOn(u) # "gone"
  BY <1>0, <1>5
<1>15. ofile' \in [Procs -> [1 .. NOFILE -> 0 .. NFILE]]
  BY <1>0, <1>1 DEF TablesShape
<1> QED BY <1>0, <1>4, <1>6, <1>7, <1>8, <1>9, <1>11, <1>12, <1>13, <1>14, <1>15, FileStep

LEMMA IdleWith ==
  /\ \A op, pc, d, n : CallShape([Idle EXCEPT !.pc = pc, !.op = op, !.fd = d, !.n = n])
  /\ \A op, pc : CallShape([Idle EXCEPT !.pc = pc, !.op = op])
<1>1. ASSUME NEW op, NEW pc, NEW d, NEW n
      PROVE  CallShape([Idle EXCEPT !.pc = pc, !.op = op, !.fd = d, !.n = n])
  BY TallyIdle DEF Idle, CallShape
<1>2. ASSUME NEW op, NEW pc
      PROVE  CallShape([Idle EXCEPT !.pc = pc, !.op = op])
  BY TallyIdle DEF Idle, CallShape
<1> QED BY <1>1, <1>2

LEMMA exitRefs ==
  ASSUME Sound, NEW p \in Procs, exit(p)
  PROVE  RefsInv'
<1> DEFINE u == [Idle EXCEPT !.pc = "exit", !.op = "exit"]
<1>1. th[p].pc = "idle" /\ Goto(p, u) /\ UNCHANGED <<fs, ftable, ofile, cwd>>
  BY DEF exit, Running
<1>2. /\ CallShape(u) /\ u.pc = "exit" /\ u.ip = 0 /\ u.dp = 0 /\ u.old = 0 /\ u.puts = <<>>
      /\ u.files = <<>>
  BY IdleWith DEF Idle
<1>3. Keeps(fs, fs')
  BY <1>1, SoundFacts DEF Keeps
<1> HIDE DEF u
<1>4. ReadOn
  BY <1>1 DEF ReadOn
<1>5. QuietCall(p, u)
  BY <1>1, <1>2 DEF QuietCall
<1> QED BY <1>3, <1>4, <1>5, QuietStep

LEMMA sys_pipeRefs ==
  ASSUME Sound, NEW p \in Procs, sys_pipe(p)
  PROVE  RefsInv'
<1> DEFINE u == [Idle EXCEPT !.pc = "pipe", !.op = "pipe"]
<1>1. th[p].pc = "idle" /\ Goto(p, u) /\ UNCHANGED <<fs, ftable, ofile, cwd>>
  BY DEF sys_pipe, Running
<1>2. /\ CallShape(u) /\ u.pc = "pipe" /\ u.ip = 0 /\ u.dp = 0 /\ u.old = 0 /\ u.puts = <<>>
      /\ u.files = <<>>
  BY IdleWith DEF Idle
<1>3. Keeps(fs, fs')
  BY <1>1, SoundFacts DEF Keeps
<1> HIDE DEF u
<1>4. ReadOn
  BY <1>1 DEF ReadOn
<1>5. QuietCall(p, u)
  BY <1>1, <1>2 DEF QuietCall
<1> QED BY <1>3, <1>4, <1>5, QuietStep

LEMMA sys_writeRefs ==
  ASSUME Sound, NEW p \in Procs, NEW d, sys_write(p, d)
  PROVE  RefsInv'
<1>1. PICK k \in program :
        Goto(p, [Idle EXCEPT !.pc = "write", !.op = "write", !.fd = d, !.n = k.n])
  BY DEF sys_write
<1> DEFINE n == k.n
           u == [Idle EXCEPT !.pc = "write", !.op = "write", !.fd = d, !.n = n]
<1>2. th[p].pc = "idle" /\ Goto(p, u) /\ UNCHANGED <<fs, ftable, ofile, cwd>>
  BY <1>1 DEF sys_write, ByFd, Running
<1> HIDE DEF n
<1>3. /\ CallShape(u) /\ u.pc = "write" /\ u.ip = 0 /\ u.dp = 0 /\ u.old = 0 /\ u.puts = <<>>
      /\ u.files = <<>>
  BY IdleWith DEF Idle
<1>4. Keeps(fs, fs')
  BY <1>2, SoundFacts DEF Keeps
<1> HIDE DEF u
<1>5. ReadOn
  BY <1>2 DEF ReadOn
<1>6. QuietCall(p, u)
  BY <1>2, <1>3 DEF QuietCall
<1> QED BY <1>4, <1>5, <1>6, QuietStep

\* A call that stays as it is.
LEMMA StayStep ==
  ASSUME Sound, NEW p \in Procs, UNCHANGED <<ofile, cwd, th>>, th[p].pc = "idle", Keeps(fs, fs'),
         ReadOn
  PROVE  RefsInv'
<1>1. /\ th[p].puts = <<>> /\ CallShape(th[p]) /\ CallKeeps(th[p]) /\ GoesOn(th[p]) = "idle"
  BY AtPc
<1>2. th[p].ip = 0 /\ th[p].dp = 0 /\ th[p].old = 0 /\ th[p].files = <<>>
  BY <1>1 DEF CallKeeps
<1>3. QuietCall(p, th[p])
  BY <1>1, <1>2 DEF QuietCall
<1> QED BY <1>3, QuietStep

LEMMA sys_readRefs ==
  ASSUME Sound, NEW p \in Procs, NEW d \in 1 .. NOFILE, sys_read(p, d)
  PROVE  RefsInv'
<1> DEFINE i == ofile[p][d]
           off == ftable[i].off + 1
           f == Loaded(fs, ftable[i].ip)
<1>1. /\ th[p].pc = "idle" /\ UNCHANGED <<ofile, cwd, th>> /\ fs' = f
      /\ ftable' = ftable \/ ftable' = [ftable EXCEPT ![i].off = off]
  BY DEF sys_read, ByFd, Running
<1>2. Keeps(fs, f)
  BY UnderLock
<1>3. i \in 1 .. NFILE => off \in Nat
  BY FileUsed DEF Files
<1> HIDE DEF i, off, f
<1>4. ReadOn
  BY <1>1, <1>3 DEF ReadOn
<1> QED BY <1>1, <1>2, <1>4, StayStep

LEMMA sys_fstatRefs ==
  ASSUME Sound, NEW p \in Procs, NEW d \in 1 .. NOFILE, sys_fstat(p, d)
  PROVE  RefsInv'
<1>1. /\ th[p].pc = "idle" /\ UNCHANGED <<ftable, ofile, cwd, th>>
      /\ fs' = Loaded(fs, ftable[ofile[p][d]].ip)
  BY DEF sys_fstat, ByFd, Running
<1>2. Keeps(fs, fs')
  BY <1>1, UnderLock
<1>3. ReadOn
  BY <1>1 DEF ReadOn
<1> QED BY <1>1, <1>2, <1>3, StayStep

LEMMA filewriteRefs ==
  ASSUME Sound, NEW p \in Procs, filewrite(p)
  PROVE  RefsInv'
<1> DEFINE t == th[p]
           i == ofile[p][t.fd]
           s == ftable[i].ip
           f == Loaded(fs, s)
           at == ftable[i].off
           off == at + 1
           n == t.n - 1
           u == [t EXCEPT !.n = n]
<1>1. /\ t.pc = "write" /\ UNCHANGED <<ofile, cwd>>
      /\ fs' = f \/ fs' = writei(f, s, at, "data")
      /\ ftable' = ftable \/ ftable' = [ftable EXCEPT ![i].off = off]
      /\ Goto(p, Idle) \/ Goto(p, u)
  BY DEF filewrite, Running
<1>2. Keeps(fs, f) /\ FsShape(f)
  BY UnderLock
<1>3. i \in 1 .. NFILE => off \in Nat
  BY FileUsed DEF Files
<1> HIDE DEF i, s, f, at, off
<1>4. Keeps(fs, fs')
  BY <1>1, <1>2, WriteKeeps, KeepsKeeps
<1>5. /\ t.puts = <<>> /\ CallShape(t) /\ CallKeeps(t) /\ GoesOn(t) = "write"
  BY <1>1, AtPc
<1>6. t.ip = 0 /\ t.dp = 0 /\ t.old = 0 /\ t.files = <<>>
  BY <1>5 DEF CallKeeps
<1>7. /\ CallShape(u) /\ u.pc = "write" /\ u.ip = 0 /\ u.dp = 0 /\ u.old = 0 /\ u.puts = <<>>
      /\ u.files = <<>>
  <2> HIDE DEF n
  <2> QED BY <1>1, <1>5, <1>6, Refit DEF CallShape, Idle
<1>8. /\ CallShape(Idle) /\ Idle.pc = "idle" /\ Idle.ip = 0 /\ Idle.dp = 0 /\ Idle.old = 0
      /\ Idle.puts = <<>> /\ Idle.files = <<>>
  BY TallyIdle DEF Idle
<1> HIDE DEF u
<1>9. ReadOn
  BY <1>1, <1>3 DEF ReadOn
<1>10. CASE Goto(p, Idle)
  <2>1. QuietCall(p, Idle)
    BY <1>1, <1>8, <1>10 DEF QuietCall
  <2> QED BY <1>4, <1>9, <2>1, QuietStep
<1>11. CASE Goto(p, u)
  <2>1. QuietCall(p, u)
    BY <1>1, <1>7, <1>11 DEF QuietCall
  <2> QED BY <1>4, <1>9, <2>1, QuietStep
<1> QED BY <1>1, <1>10, <1>11

-----------------------------------------------------------------------------
(* Pipes *)

LEMMA SeqTallyOf ==
  /\ \A x : SeqTally(<<>>, x) = 0
  /\ \A a, x : SeqTally(<<a>>, x) = Is(a = x)
  /\ \A a, b, x : SeqTally(<<a, b>>, x) = Is(a = x) + Is(b = x)
BY DEF SeqTally, Is

\* A step of a call that is making a pipe.
LEMMA PipeStep ==
  ASSUME Sound, NEW p \in Procs, NEW u, Goto(p, u), UNCHANGED <<fs, cwd>>,
         th[p].pc \in {"pipe", "pipe_fds", "pipe_bad"}, u.pc \in {"pipe", "pipe_fds", "pipe_bad", "idle"},
         CallShape(u), u.ip = 0, u.dp = 0, u.old = 0, u.puts = <<>>,
         u.pc = "idle" => u.files = <<>>, u.pc = "pipe_fds" => Len(u.files) = 2,
         ftable' \in [1 .. NFILE -> Files], FilesClean',
         \A j \in 1 .. NFILE : /\ ftable'[j].type = "inode" <=> ftable[j].type = "inode"
                               /\ ftable[j].type = "inode" => ftable'[j].ip = ftable[j].ip,
         \A n \in DOMAIN u.files : ftable'[u.files[n]].type # "inode",
         ofile' \in [Procs -> [1 .. NOFILE -> 0 .. NFILE]],
         \A q \in Procs \ {p} : ofile'[q] = ofile[q],
         \A j \in 1 .. NFILE :
           ftable'[j].ref + Cardinality(FdsOf(j)) + SeqTally(th[p].files, j)
             = ftable[j].ref + Cardinality(FdsOf(j)') + SeqTally(u.files, j)
  PROVE  RefsInv'
<1>1. /\ th[p].puts = <<>> /\ CallShape(th[p]) /\ CallKeeps(th[p]) /\ GoesOn(th[p]) = th[p].pc
  BY AtPc
<1>2. th[p].ip = 0 /\ th[p].dp = 0 /\ th[p].old = 0
  BY <1>1 DEF CallKeeps
<1>3. OneCall(p, cwd[p], u)
  BY GotoIs
<1>4. GoesOn(u) = u.pc
  BY DEF GoesOn
<1>5. CallKeeps(u)
  BY <1>4 DEF CallKeeps
<1>6. \A x : FilesOn(x)' = FilesOn(x)
  BY DEF FilesOn
<1>7. \A x \in Slots : Tally(cwd[p], u, x) = Tally(cwd[p], th[p], x)
  BY <1>1, <1>2, TallyNone
<1>8. ASSUME NEW j \in 1 .. NFILE
      PROVE  ftable'[j].ref + Cardinality(FdsOf(j)) + Cardinality(PipesOf(j))
               = ftable[j].ref + Cardinality(FdsOf(j)') + Cardinality(PipesOf(j)')
  <2>1. Cardinality(PipesOf(j)') + SeqTally(th[p].files, j) = Cardinality(PipesOf(j)) + SeqTally(u.files, j)
    <3>1. th'[p] = u /\ \A q \in Procs \ {p} : th'[q].files = th[q].files
      BY <1>3 DEF OneCall
    <3>2. Cardinality(PipesOf(j)') + SeqTally(th[p].files, j)
            = Cardinality(PipesOf(j)) + SeqTally(th'[p].files, j)
      BY <1>1, <3>1, PipesChange
    <3> QED BY <3>1, <3>2
  <2>2. ftable'[j].ref + Cardinality(FdsOf(j)) + SeqTally(th[p].files, j)
          = ftable[j].ref + Cardinality(FdsOf(j)') + SeqTally(u.files, j)
    OBVIOUS
  <2> DEFINE r1 == ftable[j].ref
             r2 == ftable'[j].ref
             f1 == Cardinality(FdsOf(j))
             f2 == Cardinality(FdsOf(j)')
             p1 == Cardinality(PipesOf(j))
             p2 == Cardinality(PipesOf(j)')
             t1 == SeqTally(th[p].files, j)
             t2 == SeqTally(u.files, j)
  <2>3. r1 \in Nat /\ r2 \in Nat
    BY FileUsed DEF Files
  <2>4. f1 \in Nat /\ f2 \in Nat /\ p1 \in Nat /\ p2 \in Nat
    BY DescriptorsFinite
  <2>5. t1 \in Nat /\ t2 \in Nat
    BY TallyNat
  <2> HIDE DEF r1, r2, f1, f2, p1, p2, t1, t2
  <2>6. p2 + t1 = p1 + t2 /\ r2 + f1 + t1 = r1 + f2 + t2
    BY <2>1, <2>2 DEF r1, r2, f1, f2, p1, p2, t1, t2
  <2>7. r2 + f1 + p1 = r1 + f2 + p2
    BY <2>3, <2>4, <2>5, <2>6
  <2> QED BY <2>7 DEF r1, r2, f1, f2, p1, p2
<1>9. FilesBalanced
  BY <1>8 DEF FilesBalanced
<1>10. GoesOn(u) # "gone"
  BY <1>4
<1>11. Keeps(fs, fs')
  BY SoundFacts DEF Keeps
<1>12. \A j \in 1 .. NFILE : ftable'[j].type = "inode" => ftable[j].type = "inode" \/ ftable[j].ref = 0
  OBVIOUS
<1>13. \A x \in Slots : Tally(cwd[p], th[p], x) + Cardinality(FilesOn(x))
                          = Tally(cwd[p], u, x) + Cardinality(FilesOn(x)')
  BY <1>6, <1>7
<1> QED BY <1>3, <1>5, <1>9, <1>10, <1>11, <1>12, <1>13, FileStep

LEMMA PipeCall ==
  ASSUME Sound, NEW p \in Procs, th[p].pc \in {"pipe", "pipe_fds", "pipe_bad"}
  PROVE  /\ CallShape(th[p]) /\ th[p].puts = <<>> /\ th[p].ip = 0 /\ th[p].dp = 0 /\ th[p].old = 0
         /\ th[p].files \in Seq(1 .. NFILE) /\ Len(th[p].files) \in 0 .. 2
         /\ th[p].pc = "pipe_fds" => Len(th[p].files) = 2
         /\ \A n \in DOMAIN th[p].files : /\ th[p].files[n] \in 1 .. NFILE
                                          /\ ftable[th[p].files[n]].type # "inode"
                                          /\ ftable[th[p].files[n]].ref >= 1
<1> DEFINE files == th[p].files
<1>1. CallShape(th[p]) /\ CallKeeps(th[p]) /\ th[p].puts = <<>> /\ GoesOn(th[p]) = th[p].pc
  BY AtPc
<1>2. /\ th[p].ip = 0 /\ th[p].dp = 0 /\ th[p].old = 0
      /\ th[p].pc = "pipe_fds" => Len(files) = 2
  BY <1>1 DEF CallKeeps
<1>3. files \in Seq(1 .. NFILE) /\ Len(files) <= 2
  BY <1>1, Zenon DEF CallShape
<1>4. ASSUME NEW n \in DOMAIN files
      PROVE  files[n] \in 1 .. NFILE /\ ftable[files[n]].type # "inode" /\ ftable[files[n]].ref >= 1
  <2>1. files[n] \in 1 .. NFILE
    <3> HIDE DEF files
    <3> QED BY <1>3, <1>4, Zenon, ElementOfSeq, LenProperties
  <2>2. ftable[files[n]].ref >= 1
    BY <2>1, FileUsed
  <2>3. ftable[files[n]].type # "inode"
    BY SoundFacts DEF PipesApart
  <2> QED BY <2>1, <2>2, <2>3
<1> HIDE DEF files
<1>5. Len(files) \in 0 .. 2
  <2> DEFINE n == Len(files)
  <2>1. n \in Nat /\ n <= 2
    BY <1>3, LenProperties
  <2> HIDE DEF n
  <2>2. n \in 0 .. 2
    BY <2>1
  <2> QED BY <2>2 DEF n
<1> QED BY <1>1, <1>2, <1>3, <1>4, <1>5 DEF files

\* The call of p only moves on: no table changes.
LEMMA PipeMoves ==
  ASSUME Sound, NEW p \in Procs, NEW pc \in {"pipe_fds", "pipe_bad"},
         Goto(p, [th[p] EXCEPT !.pc = pc]), UNCHANGED <<fs, ftable, ofile, cwd>>,
         th[p].pc \in {"pipe", "pipe_fds"}, pc = "pipe_fds" => Len(th[p].files) = 2
  PROVE  RefsInv'
<1> DEFINE t == th[p]
           u == [t EXCEPT !.pc = pc]
<1>1. /\ CallShape(t) /\ t.puts = <<>> /\ t.ip = 0 /\ t.dp = 0 /\ t.old = 0
      /\ \A n \in DOMAIN t.files : ftable[t.files[n]].type # "inode"
  BY PipeCall
<1>2. /\ CallShape(u) /\ u.pc = pc /\ u.files = t.files
      /\ u.ip = t.ip /\ u.dp = t.dp /\ u.old = t.old /\ u.puts = t.puts
  BY <1>1 DEF CallShape, Idle
<1> HIDE DEF u
<1>3. /\ ftable' \in [1 .. NFILE -> Files] /\ FilesClean'
      /\ ofile' \in [Procs -> [1 .. NOFILE -> 0 .. NFILE]]
  BY SoundFacts DEF TablesShape, FilesClean
<1>4. \A j : FdsOf(j)' = FdsOf(j)
  BY DEF FdsOf
<1>5. \A j \in 1 .. NFILE :
        ftable'[j].ref + Cardinality(FdsOf(j)) + SeqTally(t.files, j)
          = ftable[j].ref + Cardinality(FdsOf(j)') + SeqTally(u.files, j)
  BY <1>2, <1>4
<1>6. /\ u.pc \in {"pipe", "pipe_fds", "pipe_bad", "idle"}
      /\ u.pc = "idle" => u.files = <<>>
      /\ u.pc = "pipe_fds" => Len(u.files) = 2
      /\ t.pc \in {"pipe", "pipe_fds", "pipe_bad"}
      /\ Goto(p, u)
  BY <1>2 DEF u
<1> QED BY <1>1, <1>2, <1>3, <1>5, <1>6, PipeStep

LEMMA pipe_fileRefs ==
  ASSUME Sound, NEW p \in Procs, pipe_file(p)
  PROVE  RefsInv'
<1> DEFINE t == th[p]
           i == Min(FreeFiles)
           files == Append(t.files, i)
           u == [t EXCEPT !.files = files]
<1>1. /\ t.pc = "pipe" /\ Len(t.files) < 2 /\ UNCHANGED <<fs, ofile, cwd>>
      /\ \/ Goto(p, [t EXCEPT !.pc = "pipe_bad"]) /\ UNCHANGED ftable
         \/ FreeFiles # {} /\ Goto(p, u) /\ ftable' = [ftable EXCEPT ![i].ref = 1]
  BY DEF pipe_file, Running
<1>2. /\ CallShape(t) /\ t.puts = <<>> /\ t.ip = 0 /\ t.dp = 0 /\ t.old = 0
      /\ t.files \in Seq(1 .. NFILE) /\ Len(t.files) \in 0 .. 2
      /\ \A n \in DOMAIN t.files : t.files[n] \in 1 .. NFILE /\ ftable[t.files[n]].type # "inode"
  BY <1>1, PipeCall
<1>3. CASE Goto(p, [t EXCEPT !.pc = "pipe_bad"]) /\ UNCHANGED ftable
  BY <1>1, <1>3, PipeMoves
<1>4. CASE FreeFiles # {} /\ Goto(p, u) /\ ftable' = [ftable EXCEPT ![i].ref = 1]
  <2>1. i \in 1 .. NFILE /\ ftable[i].ref = 0
    BY <1>4, FreeOnes
  <2> HIDE DEF i
  <2>2. TablesShape /\ FilesClean
    BY SoundFacts
  <2>3. /\ files \in Seq(1 .. NFILE) /\ Len(files) = Len(t.files) + 1 /\ Len(files) <= 2
        /\ files[Len(t.files) + 1] = i /\ \A n \in 1 .. Len(t.files) : files[n] = t.files[n]
    <3> DEFINE q == t.files
    <3>1. q \in Seq(1 .. NFILE) /\ Len(q) \in 0 .. 2 /\ Len(q) < 2
      BY <1>1, <1>2
    <3> HIDE DEF q
    <3>2. /\ Append(q, i) \in Seq(1 .. NFILE) /\ Len(Append(q, i)) = Len(q) + 1
          /\ Append(q, i)[Len(q) + 1] = i /\ \A n \in 1 .. Len(q) : Append(q, i)[n] = q[n]
      BY <2>1, <3>1, AppendProperties
    <3> QED BY <3>1, <3>2 DEF q
  <2> HIDE DEF files
  <2>4. \A j : SeqTally(files, j) = SeqTally(t.files, j) + Is(i = j)
    <3> TAKE j
    <3> DEFINE m == Len(t.files)
    <3>0. m = 0 \/ m = 1
      <4>1. m \in 0 .. 2 /\ m < 2
        BY <1>1, <1>2
      <4> HIDE DEF m
      <4> QED BY <4>1
    <3>1. CASE Len(t.files) = 0
      BY <2>3, <3>1 DEF SeqTally, Is
    <3>2. CASE Len(t.files) = 1
      BY <2>3, <3>2 DEF SeqTally, Is
    <3> QED BY <3>0, <3>1, <3>2
  <2>5. /\ CallShape(u) /\ u.pc = "pipe" /\ u.files = files
        /\ u.ip = 0 /\ u.dp = 0 /\ u.old = 0 /\ u.puts = <<>>
    BY <1>1, <1>2, <2>3 DEF CallShape, Idle
  <2> HIDE DEF u
  <2>6. /\ ftable' \in [1 .. NFILE -> Files]
        /\ ftable'[i].ref = 1 /\ ftable'[i].type = ftable[i].type /\ ftable'[i].ip = ftable[i].ip
        /\ \A j \in (1 .. NFILE) \ {i} : ftable'[j] = ftable[j]
    BY <1>4, <2>1, <2>2 DEF TablesShape, Files
  <2>7. FilesClean'
    BY <2>1, <2>2, <2>6 DEF FilesClean
  <2>8. \A j \in 1 .. NFILE : ftable'[j].type = ftable[j].type /\ ftable'[j].ip = ftable[j].ip
    BY <2>6
  <2>9. ftable[i].type = "none"
    BY <2>1, <2>2 DEF FilesClean
  <2>10. ASSUME NEW n \in DOMAIN files PROVE ftable'[files[n]].type # "inode"
    <3>1. n \in 1 .. Len(t.files) + 1
      BY <2>3
    <3>2. CASE n \in 1 .. Len(t.files)
      <4>1. n \in DOMAIN t.files /\ files[n] = t.files[n]
        BY <1>2, <2>3, <3>2
      <4>2. t.files[n] \in 1 .. NFILE /\ ftable[t.files[n]].type # "inode"
        BY <1>2, <4>1
      <4> QED BY <2>8, <4>1, <4>2
    <3>3. CASE n = Len(t.files) + 1
      BY <2>1, <2>3, <2>8, <2>9, <3>3
    <3>4. Len(t.files) \in Nat
      BY <1>2
    <3> QED BY <3>1, <3>2, <3>3, <3>4
  <2>11. ASSUME NEW j \in 1 .. NFILE
         PROVE  ftable'[j].ref + Cardinality(FdsOf(j)) + SeqTally(t.files, j)
                  = ftable[j].ref + Cardinality(FdsOf(j)') + SeqTally(files, j)
    <3>1. FdsOf(j)' = FdsOf(j)
      BY <1>1 DEF FdsOf
    <3>2. ftable'[j].ref = ftable[j].ref + Is(i = j)
      BY <2>1, <2>6, FileUsed DEF Is
    <3> DEFINE m == Is(i = j)
               k == SeqTally(t.files, j)
               c == Cardinality(FdsOf(j))
               r == ftable[j].ref
    <3>3. m \in Nat /\ k \in Nat /\ c \in Nat /\ r \in Nat
      BY TallyNat, DescriptorsFinite, FileUsed DEF Is
    <3>4. /\ ftable'[j].ref = r + m /\ SeqTally(files, j) = k + m
          /\ Cardinality(FdsOf(j)') = c
      BY <2>4, <3>1, <3>2
    <3> HIDE DEF m, k, c, r
    <3>5. ftable'[j].ref + c + k = r + Cardinality(FdsOf(j)') + SeqTally(files, j)
      BY <3>3, <3>4
    <3> QED BY <3>5 DEF m, k, c, r
  <2>12. ofile' \in [Procs -> [1 .. NOFILE -> 0 .. NFILE]] /\ \A q \in Procs \ {p} : ofile'[q] = ofile[q]
    BY <1>1, <2>2 DEF TablesShape
  <2>13. /\ t.pc \in {"pipe", "pipe_fds", "pipe_bad"} /\ u.pc \in {"pipe", "pipe_fds", "pipe_bad", "idle"}
         /\ u.pc = "idle" => u.files = <<>>
         /\ u.pc = "pipe_fds" => Len(u.files) = 2
    BY <1>1, <2>5
  <2>14. /\ \A n \in DOMAIN u.files : ftable'[u.files[n]].type # "inode"
         /\ \A j \in 1 .. NFILE : ftable'[j].ref + Cardinality(FdsOf(j)) + SeqTally(t.files, j)
                                    = ftable[j].ref + Cardinality(FdsOf(j)') + SeqTally(u.files, j)
    BY <2>5, <2>10, <2>11
  <2>15. \A j \in 1 .. NFILE : /\ ftable'[j].type = "inode" <=> ftable[j].type = "inode"
                               /\ ftable[j].type = "inode" => ftable'[j].ip = ftable[j].ip
    BY <2>8
  <2> QED BY <1>1, <1>4, <2>5, <2>6, <2>7, <2>12, <2>13, <2>14, <2>15, PipeStep
<1> QED BY <1>1, <1>3, <1>4

LEMMA pipeallocRefs ==
  ASSUME Sound, NEW p \in Procs, pipealloc(p)
  PROVE  RefsInv'
<1> DEFINE t == th[p]
           a == t.files[1]
           b == t.files[2]
           u == [t EXCEPT !.pc = "pipe_fds"]
           g == [ftable EXCEPT ![a] = [@ EXCEPT !.type = "pipe", !.readable = TRUE],
                               ![b] = [@ EXCEPT !.type = "pipe", !.writable = TRUE]]
<1>1. /\ t.pc = "pipe" /\ Len(t.files) = 2 /\ UNCHANGED <<fs, ofile, cwd>>
      /\ \/ Goto(p, [t EXCEPT !.pc = "pipe_bad"]) /\ UNCHANGED ftable
         \/ Goto(p, u) /\ ftable' = g
  BY DEF pipealloc, Running
<1>2. /\ CallShape(t) /\ t.puts = <<>> /\ t.ip = 0 /\ t.dp = 0 /\ t.old = 0
      /\ t.files \in Seq(1 .. NFILE)
      /\ \A n \in DOMAIN t.files : /\ t.files[n] \in 1 .. NFILE
                                   /\ ftable[t.files[n]].type # "inode"
                                   /\ ftable[t.files[n]].ref >= 1
  BY <1>1, PipeCall
<1>3. CASE Goto(p, [t EXCEPT !.pc = "pipe_bad"]) /\ UNCHANGED ftable
  BY <1>1, <1>3, PipeMoves
<1>4. CASE Goto(p, u) /\ ftable' = g
  <2>1. /\ a \in 1 .. NFILE /\ ftable[a].type # "inode" /\ ftable[a].ref >= 1
        /\ b \in 1 .. NFILE /\ ftable[b].type # "inode" /\ ftable[b].ref >= 1
    <3>1. 1 \in DOMAIN t.files /\ 2 \in DOMAIN t.files
      BY <1>1, <1>2
    <3> QED BY <1>2, <3>1
  <2>2. TablesShape /\ FilesClean
    BY SoundFacts
  <2>3. /\ CallShape(u) /\ u.pc = "pipe_fds" /\ u.files = t.files
        /\ u.ip = 0 /\ u.dp = 0 /\ u.old = 0 /\ u.puts = <<>>
    BY <1>2 DEF CallShape, Idle
  <2> HIDE DEF a, b, u
  <2>4. g \in [1 .. NFILE -> Files]
    <3>1. ftable \in [1 .. NFILE -> Files]
      BY <2>2 DEF TablesShape
    <3> QED BY <2>1, <3>1 DEF Files
  <2>5. \A j \in 1 .. NFILE : /\ g[j].ref = ftable[j].ref /\ g[j].ip = ftable[j].ip
                              /\ g[j].type = IF j = a \/ j = b THEN "pipe" ELSE ftable[j].type
    <3>1. ftable \in [1 .. NFILE -> Files]
      BY <2>2 DEF TablesShape
    <3> QED BY <2>1, <3>1 DEF Files
  <2> HIDE DEF g
  <2>6. FilesClean'
    <3> SUFFICES ASSUME NEW j \in 1 .. NFILE
                 PROVE  /\ g[j].ref = 0 => g[j].type = "none"
                        /\ g[j].type # "inode" => g[j].ip = 0
      BY <1>4 DEF FilesClean
    <3>1. /\ ftable[j].ref = 0 => ftable[j].type = "none"
          /\ ftable[j].type # "inode" => ftable[j].ip = 0
      BY <2>2 DEF FilesClean
    <3>2. g[j].ref = 0 => j # a /\ j # b
      BY <2>1, <2>5
    <3> QED BY <2>1, <2>5, <3>1, <3>2
  <2>7. \A j \in 1 .. NFILE : /\ ftable'[j].type = "inode" <=> ftable[j].type = "inode"
                              /\ ftable[j].type = "inode" => ftable'[j].ip = ftable[j].ip
    BY <1>4, <2>1, <2>5
  <2>8. \A n \in DOMAIN u.files : ftable'[u.files[n]].type # "inode"
    BY <1>2, <2>3, <2>7
  <2>9. \A j \in 1 .. NFILE :
          ftable'[j].ref + Cardinality(FdsOf(j)) + SeqTally(t.files, j)
            = ftable[j].ref + Cardinality(FdsOf(j)') + SeqTally(u.files, j)
    <3>1. \A j : FdsOf(j)' = FdsOf(j)
      BY <1>1 DEF FdsOf
    <3>2. \A j \in 1 .. NFILE : ftable'[j].ref = ftable[j].ref
      BY <1>4, <2>5
    <3> QED BY <2>3, <3>1, <3>2
  <2>10. ofile' \in [Procs -> [1 .. NOFILE -> 0 .. NFILE]] /\ \A q \in Procs \ {p} : ofile'[q] = ofile[q]
    BY <1>1, <2>2 DEF TablesShape
  <2>11. /\ t.pc \in {"pipe", "pipe_fds", "pipe_bad"} /\ u.pc \in {"pipe", "pipe_fds", "pipe_bad", "idle"}
         /\ u.pc = "idle" => u.files = <<>>
         /\ u.pc = "pipe_fds" => Len(u.files) = 2
    BY <1>1, <2>3
  <2>12. Goto(p, u) /\ ftable' \in [1 .. NFILE -> Files]
    BY <1>4, <2>4
  <2> QED BY <1>1, <2>3, <2>6, <2>7, <2>8, <2>9, <2>10, <2>11, <2>12, PipeStep
<1> QED BY <1>1, <1>3, <1>4

LEMMA pipe_badRefs ==
  ASSUME Sound, NEW p \in Procs, pipe_bad(p)
  PROVE  RefsInv'
<1> DEFINE t == th[p]
           i == Head(t.files)
           files == Tail(t.files)
           u == [t EXCEPT !.files = files]
<1>1. /\ t.pc = "pipe_bad" /\ UNCHANGED <<fs, ofile, cwd>>
      /\ \/ t.files = <<>> /\ Goto(p, Idle) /\ UNCHANGED ftable
         \/ t.files # <<>> /\ Goto(p, u) /\ ftable' = fileclose(ftable, i)
  BY DEF pipe_bad, Running
<1>2. /\ CallShape(t) /\ t.puts = <<>> /\ t.ip = 0 /\ t.dp = 0 /\ t.old = 0
      /\ t.files \in Seq(1 .. NFILE) /\ Len(t.files) \in 0 .. 2
      /\ \A n \in DOMAIN t.files : /\ t.files[n] \in 1 .. NFILE
                                   /\ ftable[t.files[n]].type # "inode"
                                   /\ ftable[t.files[n]].ref >= 1
  BY <1>1, PipeCall
<1>3. /\ TablesShape /\ FilesClean
      /\ ofile' \in [Procs -> [1 .. NOFILE -> 0 .. NFILE]] /\ \A q \in Procs \ {p} : ofile'[q] = ofile[q]
  BY <1>1, SoundFacts DEF TablesShape
<1>4. \A j : FdsOf(j)' = FdsOf(j)
  BY <1>1 DEF FdsOf
<1>5. CASE t.files = <<>> /\ Goto(p, Idle) /\ UNCHANGED ftable
  <2>1. /\ CallShape(Idle) /\ Idle.pc = "idle" /\ Idle.files = t.files
        /\ Idle.ip = 0 /\ Idle.dp = 0 /\ Idle.old = 0 /\ Idle.puts = <<>>
    BY <1>5, TallyIdle DEF Idle
  <2>2. ftable' \in [1 .. NFILE -> Files] /\ FilesClean'
    BY <1>3, <1>5 DEF TablesShape, FilesClean
  <2>3. \A j \in 1 .. NFILE :
          ftable'[j].ref + Cardinality(FdsOf(j)) + SeqTally(t.files, j)
            = ftable[j].ref + Cardinality(FdsOf(j)') + SeqTally(Idle.files, j)
    BY <1>4, <1>5, <2>1
  <2>4. /\ t.pc \in {"pipe", "pipe_fds", "pipe_bad"} /\ Idle.pc \in {"pipe", "pipe_fds", "pipe_bad", "idle"}
        /\ Idle.pc = "idle" => Idle.files = <<>>
        /\ Idle.pc = "pipe_fds" => Len(Idle.files) = 2
        /\ \A n \in DOMAIN Idle.files : ftable'[Idle.files[n]].type # "inode"
    BY <1>1, <1>5, <2>1
  <2>5. Goto(p, Idle) /\ UNCHANGED <<fs, cwd>>
        /\ \A j \in 1 .. NFILE : /\ ftable'[j].type = "inode" <=> ftable[j].type = "inode"
                                 /\ ftable[j].type = "inode" => ftable'[j].ip = ftable[j].ip
    BY <1>1, <1>5
  <2> QED BY <1>3, <2>1, <2>2, <2>3, <2>4, <2>5, PipeStep
<1>6. CASE t.files # <<>> /\ Goto(p, u) /\ ftable' = fileclose(ftable, i)
  <2>1. \/ t.files = <<i>> /\ files = <<>>
        \/ \E b \in 1 .. NFILE : t.files = <<i, b>> /\ files = <<b>>
    <3> DEFINE q == t.files
               A == 1 .. NFILE
    <3>1. q \in Seq(A) /\ Len(q) <= 2 /\ q # <<>>
      BY <1>2, <1>6
    <3> HIDE DEF q, A
    <3>2. \/ q = <<Head(q)>> /\ Tail(q) = <<>>
          \/ \E b \in A : q = <<Head(q), b>> /\ Tail(q) = <<b>>
      BY <3>1, ShortSeq
    <3> QED BY <3>2 DEF q, A
  <2> HIDE DEF i, files
  <2>2. i \in 1 .. NFILE /\ ftable[i].type # "inode" /\ ftable[i].ref >= 1
    <3>1. t.files[1] = i /\ 1 \in DOMAIN t.files
      BY <2>1
    <3> QED BY <1>2, <3>1
  <2>3. /\ files \in Seq(1 .. NFILE) /\ Len(files) <= 2
        /\ \A n \in DOMAIN files : files[n] \in 1 .. NFILE /\ ftable[files[n]].type # "inode"
    <3>1. CASE files = <<>>
      BY <3>1
    <3>2. ASSUME NEW b \in 1 .. NFILE, t.files = <<i, b>>, files = <<b>>
          PROVE  /\ files \in Seq(1 .. NFILE) /\ Len(files) <= 2
                 /\ \A n \in DOMAIN files : files[n] \in 1 .. NFILE /\ ftable[files[n]].type # "inode"
      <4>1. t.files[2] = b /\ 2 \in DOMAIN t.files
        BY <3>2
      <4>2. ftable[b].type # "inode"
        BY <1>2, <4>1
      <4> QED BY <3>2, <4>2
    <3> QED BY <2>1, <3>1, <3>2
  <2>4. \A j : SeqTally(t.files, j) = Is(i = j) + SeqTally(files, j)
    <3> TAKE j
    <3>0. \A x \in 1 .. NFILE : Is(x = j) \in Nat
      BY DEF Is
    <3>1. CASE t.files = <<i>> /\ files = <<>>
      BY <2>2, <3>0, <3>1, SeqTallyOf
    <3>2. ASSUME NEW b \in 1 .. NFILE, t.files = <<i, b>>, files = <<b>>
          PROVE  SeqTally(t.files, j) = Is(i = j) + SeqTally(files, j)
      BY <3>2, SeqTallyOf
    <3> QED BY <2>1, <3>1, <3>2
  <2>5. /\ CallShape(u) /\ u.pc = "pipe_bad" /\ u.files = files
        /\ u.ip = 0 /\ u.dp = 0 /\ u.old = 0 /\ u.puts = <<>>
    BY <1>1, <1>2, <2>3 DEF CallShape, Idle
  <2> HIDE DEF u
  <2>6. /\ ftable' \in [1 .. NFILE -> Files] /\ FilesClean'
        /\ \A j \in (1 .. NFILE) \ {i} : ftable'[j] = ftable[j]
        /\ ftable'[i].ref = ftable[i].ref - 1
        /\ ftable[i].ref > 1 => ftable'[i].type = ftable[i].type /\ ftable'[i].ip = ftable[i].ip
        /\ ~(ftable[i].ref > 1) => ftable'[i].type = "none" /\ ftable'[i].ip = 0
    BY <1>6, <2>2, Closed
  <2>7. ftable'[i].type # "inode"
    BY <2>2, <2>6
  <2>8. \A j \in 1 .. NFILE : /\ ftable'[j].type = "inode" <=> ftable[j].type = "inode"
                              /\ ftable[j].type = "inode" => ftable'[j].ip = ftable[j].ip
    BY <2>2, <2>6, <2>7
  <2>9. ASSUME NEW j \in 1 .. NFILE
        PROVE  ftable'[j].ref + Cardinality(FdsOf(j)) + SeqTally(t.files, j)
                 = ftable[j].ref + Cardinality(FdsOf(j)') + SeqTally(files, j)
    <3>1. ftable[i].ref \in Nat /\ ftable[j].ref \in Nat
      BY <2>2, FileUsed
    <3>2. ftable'[j].ref = ftable[j].ref - Is(i = j)
      <4>1. CASE j = i
        BY <2>6, <4>1 DEF Is
      <4>2. CASE j # i
        <5>1. ftable'[j].ref = ftable[j].ref /\ Is(i = j) = 0
          BY <2>6, <4>2 DEF Is
        <5> QED BY <3>1, <5>1
      <4> QED BY <4>1, <4>2
    <3> DEFINE m == Is(i = j)
               k == SeqTally(files, j)
               c == Cardinality(FdsOf(j))
               r == ftable[j].ref
    <3>3. m \in Nat /\ k \in Nat /\ c \in Nat /\ r \in Nat
      BY <3>1, TallyNat, DescriptorsFinite DEF Is
    <3>4. /\ ftable'[j].ref = r - m /\ SeqTally(t.files, j) = m + k
          /\ Cardinality(FdsOf(j)') = c
      BY <1>4, <2>4, <3>2
    <3> HIDE DEF m, k, c, r
    <3>5. ftable'[j].ref + c + SeqTally(t.files, j) = r + Cardinality(FdsOf(j)') + k
      BY <3>3, <3>4
    <3> QED BY <3>5 DEF m, k, c, r
  <2>10. /\ t.pc \in {"pipe", "pipe_fds", "pipe_bad"} /\ u.pc \in {"pipe", "pipe_fds", "pipe_bad", "idle"}
         /\ u.pc = "idle" => u.files = <<>>
         /\ u.pc = "pipe_fds" => Len(u.files) = 2
    BY <1>1, <2>5
  <2>11. /\ \A n \in DOMAIN u.files : ftable'[u.files[n]].type # "inode"
         /\ \A j \in 1 .. NFILE : ftable'[j].ref + Cardinality(FdsOf(j)) + SeqTally(t.files, j)
                                    = ftable[j].ref + Cardinality(FdsOf(j)') + SeqTally(u.files, j)
    BY <2>3, <2>5, <2>8, <2>9
  <2> QED BY <1>1, <1>3, <1>6, <2>5, <2>6, <2>8, <2>10, <2>11, PipeStep
<1> QED BY <1>1, <1>5, <1>6

LEMMA pipe_fdsRefs ==
  ASSUME Sound, NEW p \in Procs, pipe_fds(p)
  PROVE  RefsInv'
<1> DEFINE t == th[p]
           F == FreeFds(p)
           d == Min(F)
           e == Min(F \ {d})
           a == t.files[1]
           b == t.files[2]
<1>1. /\ t.pc = "pipe_fds" /\ UNCHANGED <<fs, ftable, cwd>>
      /\ \/ Goto(p, [t EXCEPT !.pc = "pipe_bad"]) /\ UNCHANGED ofile
         \/ /\ ~(Cardinality(F) < 2) /\ Goto(p, Idle)
            /\ ofile' = [ofile EXCEPT ![p][d] = a, ![p][e] = b]
  BY DEF pipe_fds, Running
<1>2. /\ CallShape(t) /\ t.puts = <<>> /\ t.ip = 0 /\ t.dp = 0 /\ t.old = 0
      /\ t.files \in Seq(1 .. NFILE) /\ Len(t.files) = 2
      /\ \A n \in DOMAIN t.files : t.files[n] \in 1 .. NFILE /\ ftable[t.files[n]].type # "inode"
  BY <1>1, PipeCall
<1>3. CASE Goto(p, [t EXCEPT !.pc = "pipe_bad"]) /\ UNCHANGED ofile
  BY <1>1, <1>3, PipeMoves
<1>4. CASE /\ ~(Cardinality(F) < 2) /\ Goto(p, Idle)
           /\ ofile' = [ofile EXCEPT ![p][d] = a, ![p][e] = b]
  <2>1. F \subseteq Nat
    BY SizesAssumption DEF FreeFds
  <2>2. F # {} /\ F \ {d} # {}
    <3>1. Cardinality({}) = 0 /\ Cardinality({d}) = 1
      BY FS_EmptySet, FS_Singleton
    <3>2. F # {}
      <4>1. SUFFICES ASSUME F = {} PROVE FALSE
        OBVIOUS
      <4>2. Cardinality(F) = 0
        BY <3>1, <4>1
      <4> QED BY <1>4, <4>2
    <3>3. F # {d}
      <4> HIDE DEF d
      <4>1. SUFFICES ASSUME F = {d} PROVE FALSE
        OBVIOUS
      <4>2. Cardinality(F) = 1
        BY <3>1, <4>1
      <4> QED BY <1>4, <4>2
    <3> HIDE DEF d, F
    <3> QED BY <3>2, <3>3
  <2>3. d \in F /\ e \in F \ {d}
    <3>1. d \in F
      BY <2>1, <2>2, LeastIn
    <3>2. F \ {d} \subseteq Nat
      BY <2>1
    <3>3. e \in F \ {d}
      BY <2>2, <3>2, LeastIn
    <3> QED BY <3>1, <3>3
  <2> HIDE DEF d, e, a, b
  <2>4. /\ d \in 1 .. NOFILE /\ ofile[p][d] = 0 /\ e \in 1 .. NOFILE /\ ofile[p][e] = 0 /\ d # e
    BY <2>3 DEF FreeFds
  <2>5. a \in 1 .. NFILE /\ b \in 1 .. NFILE /\ t.files = <<a, b>>
    <3>1. 1 \in DOMAIN t.files /\ 2 \in DOMAIN t.files
      BY <1>2
    <3> QED BY <1>2, <3>1 DEF a, b
  <2>6. TablesShape /\ FilesClean
    BY SoundFacts
  <2>7. /\ ofile' \in [Procs -> [1 .. NOFILE -> 0 .. NFILE]]
        /\ \A q \in Procs \ {p} : ofile'[q] = ofile[q]
        /\ ofile'[p][d] = a /\ ofile'[p][e] = b
        /\ \A c \in (1 .. NOFILE) \ {d, e} : ofile'[p][c] = ofile[p][c]
    <3>1. a \in 0 .. NFILE /\ b \in 0 .. NFILE
      BY <2>5
    <3> QED BY <1>4, <2>4, <2>6, <3>1 DEF TablesShape
  <2>8. ASSUME NEW j \in 1 .. NFILE
        PROVE  Cardinality(FdsOf(j)') = Cardinality(FdsOf(j)) + (Is(a = j) + Is(b = j))
    <3> DEFINE P == Procs \X (1 .. NOFILE)
               S == FdsOf(j)
               T == FdsOf(j)'
               x == <<p, d>>
               y == <<p, e>>
               M == {z \in P : z # y /\ z \in T}
    <3>1. /\ IsFiniteSet(S) /\ S \subseteq P /\ T \subseteq P
      <4>1. IsFiniteSet(P) /\ S \subseteq P
        BY TablesFinite, FS_Product DEF FdsOf
      <4> QED BY <4>1, FS_Subset DEF FdsOf
    <3>2. /\ x \notin S /\ y \notin S /\ y \notin M /\ x # y
          /\ x \in M <=> a = j
          /\ y \in T <=> b = j
      BY <2>4, <2>5, <2>7 DEF FdsOf
    <3>3. \A z \in P : z # x /\ z # y => (z \in S <=> z \in T)
      BY <2>7 DEF FdsOf
    <3> HIDE DEF P, S, T, x, y
    <3>4. \A z : z # x => (z \in S <=> z \in M)
      BY <3>1, <3>2, <3>3
    <3>5. \A z : z # y => (z \in M <=> z \in T)
      BY <3>1
    <3> HIDE DEF M
    <3>6. /\ IsFiniteSet(M) /\ Cardinality(S) \in Nat /\ Cardinality(M) \in Nat
          /\ Cardinality(M) + Is(x \in S) = Cardinality(S) + Is(x \in M)
      BY <3>1, <3>4, OneMember
    <3>7. /\ Cardinality(T) \in Nat
          /\ Cardinality(T) + Is(y \in M) = Cardinality(M) + Is(y \in T)
      BY <3>5, <3>6, OneMember
    <3>8. /\ Is(x \in S) = 0 /\ Is(y \in M) = 0 /\ Is(x \in M) = Is(a = j) /\ Is(y \in T) = Is(b = j)
          /\ Is(a = j) \in Nat /\ Is(b = j) \in Nat
      BY <3>2 DEF Is
    <3>9. Cardinality(T) = Cardinality(S) + (Is(a = j) + Is(b = j))
      BY <3>6, <3>7, <3>8
    <3> QED BY <3>9 DEF S, T
  <2>9. /\ CallShape(Idle) /\ Idle.pc = "idle" /\ Idle.files = <<>>
        /\ Idle.ip = 0 /\ Idle.dp = 0 /\ Idle.old = 0 /\ Idle.puts = <<>>
    BY TallyIdle DEF Idle
  <2>10. ASSUME NEW j \in 1 .. NFILE
         PROVE  ftable'[j].ref + Cardinality(FdsOf(j)) + SeqTally(t.files, j)
                  = ftable[j].ref + Cardinality(FdsOf(j)') + SeqTally(Idle.files, j)
    <3> DEFINE m == Is(a = j) + Is(b = j)
               c == Cardinality(FdsOf(j))
               r == ftable[j].ref
    <3>1. m \in Nat /\ c \in Nat /\ r \in Nat
      BY DescriptorsFinite, FileUsed DEF Is
    <3>2. /\ ftable'[j].ref = r /\ SeqTally(t.files, j) = m /\ SeqTally(Idle.files, j) = 0
          /\ Cardinality(FdsOf(j)') = c + m
      BY <1>1, <2>5, <2>8, <2>9, SeqTallyOf
    <3> HIDE DEF m, c, r
    <3>3. ftable'[j].ref + c + SeqTally(t.files, j)
            = r + Cardinality(FdsOf(j)') + SeqTally(Idle.files, j)
      BY <3>1, <3>2
    <3> QED BY <3>3 DEF c, r
  <2>11. ftable' \in [1 .. NFILE -> Files] /\ FilesClean'
    BY <1>1, <2>6 DEF TablesShape, FilesClean
  <2>12. /\ t.pc \in {"pipe", "pipe_fds", "pipe_bad"} /\ Idle.pc \in {"pipe", "pipe_fds", "pipe_bad", "idle"}
         /\ Idle.pc = "idle" => Idle.files = <<>>
         /\ Idle.pc = "pipe_fds" => Len(Idle.files) = 2
         /\ \A n \in DOMAIN Idle.files : ftable'[Idle.files[n]].type # "inode"
    BY <1>1, <2>9
  <2>13. Goto(p, Idle) /\ UNCHANGED <<fs, cwd>>
         /\ \A j \in 1 .. NFILE : /\ ftable'[j].type = "inode" <=> ftable[j].type = "inode"
                                  /\ ftable[j].type = "inode" => ftable'[j].ip = ftable[j].ip
    BY <1>1, <1>4
  <2> QED BY <2>7, <2>9, <2>10, <2>11, <2>12, <2>13, PipeStep
<1> QED BY <1>1, <1>3, <1>4

-----------------------------------------------------------------------------
(* fork *)

\* The descriptors of q change.
LEMMA FdRowChange ==
  ASSUME NEW q \in Procs, \A o \in Procs \ {q} : ofile'[o] = ofile[o], NEW i
  PROVE  Cardinality(FdsOf(i)') + Cardinality(Row(FdsOf(i), 1 .. NOFILE, q))
           = Cardinality(FdsOf(i)) + Cardinality(Row(FdsOf(i)', 1 .. NOFILE, q))
<1> DEFINE K == 1 .. NOFILE
           S == FdsOf(i)
           T == FdsOf(i)'
<1>1. /\ S \in SUBSET (Procs \X K) /\ T \in SUBSET (Procs \X K)
      /\ \A o \in Procs \ {q} : \A k \in K : <<o, k>> \in S <=> <<o, k>> \in T
      /\ IsFiniteSet(Procs) /\ IsFiniteSet(K)
  BY TablesFinite DEF FdsOf
<1> HIDE DEF S, T, K
<1>2. Cardinality(T) + Cardinality(Row(S, K, q)) = Cardinality(S) + Cardinality(Row(T, K, q))
  BY <1>1, OneRow
<1> QED BY <1>2 DEF S, T, K

LEMMA forkRefs ==
  ASSUME Sound, NEW p \in Procs, NEW q \in Procs, fork(p, q)
  PROVE  RefsInv'
<1> DEFINE fds(i) == {d \in 1 .. NOFILE : ofile[p][d] = i}
           c == cwd[p]
<1>1. /\ th[p].pc = "idle" /\ th[q].pc = "gone" /\ ofile' = [ofile EXCEPT ![q] = ofile[p]]
      /\ ftable' = [i \in 1 .. NFILE |-> [ftable[i] EXCEPT !.ref = @ + Cardinality(fds(i))]]
      /\ fs' = idup(fs, c) /\ cwd' = [cwd EXCEPT ![q] = c] /\ Goto(q, Idle)
  BY DEF fork, Running
<1>2. /\ TablesShape /\ FilesClean /\ PipesApart /\ GoneHasNothing /\ FsShape(fs) /\ RefsNat(fs)
      /\ c \in {0} \cup Slots
  BY SoundFacts
<1>3. /\ th[q].puts = <<>> /\ GoesOn(th[q]) = "gone" /\ CallShape(th[q]) /\ CallKeeps(th[q])
      /\ th[q].ip = 0 /\ th[q].dp = 0 /\ th[q].old = 0 /\ th[q].files = <<>>
  <2>1. /\ th[q].puts = <<>> /\ GoesOn(th[q]) = "gone" /\ CallShape(th[q]) /\ CallKeeps(th[q])
    BY <1>1, AtPc
  <2> QED BY <2>1 DEF CallKeeps
<1>4. cwd[q] = 0 /\ \A d \in 1 .. NOFILE : ofile[q][d] = 0
  BY <1>2, <1>3 DEF GoneHasNothing
<1>5. OneCall(q, c, Idle)
  BY <1>1, <1>2, GotoIs
<1>6. \A i : Cardinality(fds(i)) \in Nat
  <2>1. \A i : IsFiniteSet(fds(i))
    BY TablesFinite, FS_Subset
  <2> QED BY <2>1, FS_CardinalityType
<1>7. ASSUME NEW i \in 1 .. NFILE
      PROVE  /\ ftable'[i] \in Files /\ ftable'[i].ref = ftable[i].ref + Cardinality(fds(i))
             /\ ftable'[i].type = ftable[i].type /\ ftable'[i].ip = ftable[i].ip
  <2> DEFINE n == Cardinality(fds(i))
  <2>1. n \in Nat /\ ftable'[i] = [ftable[i] EXCEPT !.ref = @ + n] /\ ftable[i] \in Files
    BY <1>1, <1>6, FileUsed
  <2> HIDE DEF n
  <2>2. /\ ftable'[i] \in Files /\ ftable'[i].ref = ftable[i].ref + n
        /\ ftable'[i].type = ftable[i].type /\ ftable'[i].ip = ftable[i].ip
    BY <2>1 DEF Files
  <2> QED BY <2>2 DEF n
<1>8. ftable' \in [1 .. NFILE -> Files]
  BY <1>1, <1>7
<1>9. FilesClean'
  <2> SUFFICES ASSUME NEW i \in 1 .. NFILE
               PROVE  /\ ftable'[i].ref = 0 => ftable'[i].type = "none"
                      /\ ftable'[i].type # "inode" => ftable'[i].ip = 0
    BY DEF FilesClean
  <2>1. Cardinality(fds(i)) \in Nat /\ ftable[i].ref \in Nat
    BY <1>6, FileUsed
  <2>2. ftable'[i].ref = 0 => ftable[i].ref = 0
    <3> DEFINE n == Cardinality(fds(i))
               r == ftable[i].ref
    <3>1. n \in Nat /\ r \in Nat /\ ftable'[i].ref = r + n
      BY <1>7, <2>1
    <3> HIDE DEF n, r
    <3>2. ftable'[i].ref = 0 => r = 0
      BY <3>1
    <3> QED BY <3>2 DEF r
  <2> QED BY <1>2, <1>7, <2>2 DEF FilesClean
<1>10. TablesShape'
  <2>1. ofile' \in [Procs -> [1 .. NOFILE -> 0 .. NFILE]]
    BY <1>1, <1>2 DEF TablesShape
  <2> QED BY <1>5, <1>8, <2>1 DEF TablesShape, OneCall
<1>11. \A o \in Procs : th'[o].files = th[o].files
  BY <1>3, <1>5, TallyIdle DEF OneCall
<1>12. PipesApart'
  <2> SUFFICES ASSUME NEW o \in Procs, NEW n \in DOMAIN th[o].files
               PROVE  ftable'[th[o].files[n]].type # "inode"
    BY <1>11 DEF PipesApart
  <2>1. th[o].files \in Seq(1 .. NFILE)
    BY SoundFacts DEF CallShape
  <2>2. th[o].files[n] \in 1 .. NFILE
    <3> DEFINE files == th[o].files
    <3>1. files \in Seq(1 .. NFILE) /\ n \in DOMAIN files
      BY <2>1
    <3> HIDE DEF files
    <3>2. files[n] \in 1 .. NFILE
      BY <3>1, Zenon, ElementOfSeq, LenProperties
    <3> QED BY <3>2 DEF files
  <2>3. ftable[th[o].files[n]].type # "inode"
    BY <1>2 DEF PipesApart
  <2> QED BY <1>7, <2>2, <2>3
<1>13. GoneHasNothing'
  <2> SUFFICES ASSUME NEW o \in Procs, GoesOn(th'[o]) = "gone"
               PROVE  cwd'[o] = 0 /\ \A d \in 1 .. NOFILE : ofile'[o][d] = 0
    BY DEF GoneHasNothing
  <2>1. o # q
    BY <1>5, TallyIdle DEF OneCall
  <2>2. th'[o] = th[o] /\ cwd'[o] = cwd[o] /\ ofile'[o] = ofile[o]
    BY <1>1, <1>2, <1>5, <2>1 DEF OneCall, TablesShape
  <2> QED BY <1>2, <2>2 DEF GoneHasNothing
<1>14. /\ FsShape(fs') /\ RefsNat(fs')
       /\ \A x \in Slots : fs'.slot[x].ref = fs.slot[x].ref + Is(x = c)
  <2>1. fs'.panic = "none"
    BY <1>1, <1>2 DEF idup, FsShape, Sound
  <2>2. Takes(fs, fs', c)
    BY <1>1, <1>2, DupTakes
  <2>3. FsShape(fs') /\ \A x \in Slots : fs'.slot[x].ref = fs.slot[x].ref + Is(x = c)
    BY <2>1, <2>2 DEF Takes
  <2> QED BY <1>2, <2>3 DEF RefsNat, Is
<1>15. \A x : FilesOn(x)' = FilesOn(x)
  BY <1>7 DEF FilesOn
<1>16. Balanced(q, c, Idle)
  <2> SUFFICES ASSUME NEW x \in Slots
               PROVE  fs'.slot[x].ref + Tally(cwd[q], th[q], x) + Cardinality(FilesOn(x))
                        = fs.slot[x].ref + Tally(c, Idle, x) + Cardinality(FilesOn(x)')
    BY DEF Balanced
  <2>1. Tally(cwd[q], th[q], x) = Is(0 = x)
    BY <1>3, <1>4, TallyNone
  <2>2. Tally(c, Idle, x) = Is(c = x)
    BY TallyIdle
  <2>3. Is(0 = x) = 0 /\ Is(x = c) = Is(c = x) /\ Is(c = x) \in Nat
    BY NoneIs DEF Is
  <2>4. fs.slot[x].ref \in Nat /\ Cardinality(FilesOn(x)) \in Nat
    BY <1>2, FilesOnFinite DEF RefsNat
  <2> QED BY <1>14, <1>15, <2>1, <2>2, <2>3, <2>4
<1>17. FilesBalanced
  <2> SUFFICES ASSUME NEW i \in 1 .. NFILE
               PROVE  ftable'[i].ref + Cardinality(FdsOf(i)) + Cardinality(PipesOf(i))
                        = ftable[i].ref + Cardinality(FdsOf(i)') + Cardinality(PipesOf(i)')
    BY DEF FilesBalanced
  <2>1. PipesOf(i)' = PipesOf(i)
    BY <1>11 DEF PipesOf
  <2>2. Cardinality(FdsOf(i)') = Cardinality(FdsOf(i)) + Cardinality(fds(i))
    <3>1. \A o \in Procs \ {q} : ofile'[o] = ofile[o]
      BY <1>1, <1>2 DEF TablesShape
    <3>2. ofile'[q] = ofile[p]
      BY <1>1, <1>2 DEF TablesShape
    <3>3. Row(FdsOf(i), 1 .. NOFILE, q) = {}
      BY <1>4 DEF FdsOf, Row
    <3>4. Row(FdsOf(i)', 1 .. NOFILE, q) = fds(i)
      BY <3>2 DEF FdsOf, Row
    <3> HIDE DEF fds
    <3>5. Cardinality(FdsOf(i)') + Cardinality({}) = Cardinality(FdsOf(i)) + Cardinality(fds(i))
      BY <3>1, <3>3, <3>4, FdRowChange
    <3>6. /\ Cardinality({}) = 0 /\ Cardinality(FdsOf(i)') \in Nat
          /\ Cardinality(FdsOf(i)) \in Nat /\ Cardinality(fds(i)) \in Nat
      BY <1>6, FS_EmptySet, DescriptorsFinite
    <3> QED BY <3>5, <3>6
  <2>3. /\ ftable[i].ref \in Nat /\ Cardinality(FdsOf(i)) \in Nat /\ Cardinality(PipesOf(i)) \in Nat
        /\ Cardinality(fds(i)) \in Nat
    BY <1>6, FileUsed, DescriptorsFinite
  <2>4. ftable'[i].ref = ftable[i].ref + Cardinality(fds(i))
    BY <1>7
  <2> HIDE DEF fds
  <2> QED BY <2>1, <2>2, <2>3, <2>4
<1> QED BY <1>2, <1>5, <1>9, <1>10, <1>12, <1>13, <1>14, <1>16, <1>17, TallyIdle, TableStep

-----------------------------------------------------------------------------
(* The start, and the start after a crash *)

Fresh ==
  /\ FsShape(fs)
  /\ fs.slot = [s \in Slots |-> IF s = 1 THEN RootSlot ELSE EmptySlot]
  /\ ftable = [i \in 1 .. NFILE |-> NoFile]
  /\ ofile = [p \in Procs |-> [d \in 1 .. NOFILE |-> 0]]
  /\ cwd = [p \in Procs |-> 1]
  /\ th = [p \in Procs |-> Idle]

LEMMA FreshRefs == Fresh => RefsInv
<1> SUFFICES ASSUME Fresh
             PROVE  RefsInv
  OBVIOUS
<1>1. 1 \in Slots /\ 0 \notin Slots
  BY SizesAssumption DEF Slots
<1>2. TablesShape
  <2>1. NoFile \in Files
    BY DEF NoFile, Files
  <2>2. 0 \in 0 .. NFILE
    BY SizesAssumption
  <2> QED BY <1>1, <2>1, <2>2 DEF Fresh, TablesShape
<1>3. CallShape(Idle) /\ CallKeeps(Idle)
  BY TallyIdle
<1>4. \A p \in Procs : th[p] = Idle /\ cwd[p] = 1
  BY DEF Fresh
<1>5. FilesClean
  BY DEF Fresh, FilesClean, NoFile
<1>11. /\ Idle.puts = <<>> /\ Idle.files = <<>> /\ Idle.pc = "idle"
       /\ Idle.ip = 0 /\ Idle.dp = 0 /\ Idle.old = 0
  BY DEF Idle
<1>12. GoesOn(Idle) = "idle"
  BY TallyIdle
<1>10. \A p \in Procs : th[p].files = <<>> /\ th[p].puts = <<>>
  BY <1>4, <1>11
<1>6. PipesApart /\ GoneHasNothing
  <2>1. PipesApart
    BY <1>10 DEF PipesApart
  <2>2. \A p \in Procs : GoesOn(th[p]) # "gone"
    BY <1>4, <1>12
  <2> QED BY <2>1, <2>2 DEF GoneHasNothing
<1>7. \A s \in Slots : fs.slot[s].ref = Cardinality(FilesOn(s)) + Cardinality(UsesOf(s))
  <2> TAKE s \in Slots
  <2>1. FilesOn(s) = {}
    BY DEF FilesOn, Fresh, NoFile
  <2>2. \A p \in Procs : Referred(p) = <<1, 0, 0, 0>>
    <3> TAKE p \in Procs
    <3>1. Referred(p) = <<1, 0, 0, 0>> \o <<>>
      BY <1>4, <1>10, <1>11 DEF Referred, References
    <3> QED BY <3>1
  <2>3. UsesOf(s) = IF s = 1 THEN Procs \X {1} ELSE {}
    BY <1>1, <2>2 DEF UsesOf
  <2>4. Cardinality(Procs \X {1}) = Cardinality(Procs) /\ Cardinality(Procs) \in Nat
    <3>1. IsFiniteSet({1}) /\ Cardinality({1}) = 1
      BY FS_Singleton
    <3>2. Cardinality(Procs \X {1}) = Cardinality(Procs) * 1
      BY <3>1, FS_Product, SizesAssumption
    <3>3. Cardinality(Procs) \in Nat
      BY FS_CardinalityType, SizesAssumption
    <3> QED BY <3>2, <3>3
  <2>5. Cardinality({}) = 0
    BY FS_EmptySet
  <2>6. fs.slot[s].ref = IF s = 1 THEN Cardinality(Procs) ELSE 0
    BY DEF Fresh, RootSlot, EmptySlot
  <2> QED BY <2>1, <2>3, <2>4, <2>5, <2>6
<1>8. \A i \in 1 .. NFILE : ftable[i].ref = Cardinality(FdsOf(i)) + Cardinality(PipesOf(i))
  <2> TAKE i \in 1 .. NFILE
  <2>1. FdsOf(i) = {}
    BY DEF FdsOf, Fresh
  <2>2. PipesOf(i) = {}
    <3>1. \A p \in Procs : th[p].files = <<>> /\ Len(th[p].files) = 0
      BY <1>10
    <3> QED BY <3>1 DEF PipesOf
  <2>3. ftable[i].ref = 0 /\ Cardinality({}) = 0
    BY FS_EmptySet DEF Fresh, NoFile
  <2> QED BY <2>1, <2>2, <2>3
<1>9. FsShape(fs)
  BY DEF Fresh
<1> QED BY <1>2, <1>3, <1>4, <1>5, <1>6, <1>7, <1>8, <1>9 DEF RefsInv, RefsCount

LEMMA InitRefs == Init => RefsInv
<1>1. Init => Fresh
  BY DEF Init, Fresh, FsShape, RootSlot, EmptySlot
<1> QED BY <1>1, FreshRefs

LEMMA CrashRefs ==
  ASSUME Sound, Crash
  PROVE  RefsInv'
<1>1. FsShape(fs)
  BY SoundFacts
<1>2. Fresh'
  BY <1>1 DEF Crash, Fresh, FsShape, RootSlot, EmptySlot
<1>3. Fresh' => RefsInv'
  BY FreshRefs, PTL
<1> QED BY <1>2, <1>3

-----------------------------------------------------------------------------
(* Every step *)

LEMMA RefsStep ==
  ASSUME Sound, NEW p \in Procs, Step(p)
  PROVE  RefsInv'
<1>1. CASE \E call \in program : Begin(p, call)
  BY <1>1, BeginRefs
<1>2. CASE namex(p) \/ iput(p) \/ iput_drop(p)
  BY <1>2, namexRefs, iputRefs, iput_dropRefs
<1>3. CASE sys_open(p) \/ create(p) \/ create_found(p) \/ create_new(p) \/ create_end(p)
  BY <1>3, sys_openRefs, createRefs, create_foundRefs, create_newRefs, create_endRefs
<1>4. CASE sys_unlink(p) \/ unlink_ip(p) \/ unlink_bad(p) \/ unlink_drop(p)
  BY <1>4, sys_unlinkRefs, unlink_ipRefs, unlink_badRefs, unlink_dropRefs
<1>5. CASE sys_link(p) \/ link2(p) \/ link_exists(p) \/ link_bad(p)
  BY <1>5, sys_linkRefs, link2Refs, link_existsRefs, link_badRefs
<1>6. CASE sys_chdir(p) \/ exec(p)
  BY <1>6, sys_chdirRefs, execRefs
<1>7. ASSUME NEW d \in 1 .. NOFILE,
             sys_dup(p, d) \/ sys_close(p, d) \/ sys_read(p, d) \/ sys_fstat(p, d) \/ sys_write(p, d)
      PROVE  RefsInv'
  BY <1>7, sys_dupRefs, sys_closeRefs, sys_readRefs, sys_fstatRefs, sys_writeRefs
<1>8. CASE filewrite(p) \/ exit(p) \/ exit_close(p)
  BY <1>8, filewriteRefs, exitRefs, exit_closeRefs
<1>9. CASE \E q \in Procs : fork(p, q)
  BY <1>9, forkRefs
<1>10. CASE sys_pipe(p) \/ pipe_file(p) \/ pipealloc(p) \/ pipe_fds(p) \/ pipe_bad(p)
  BY <1>10, sys_pipeRefs, pipe_fileRefs, pipeallocRefs, pipe_fdsRefs, pipe_badRefs
<1> QED BY <1>1, <1>2, <1>3, <1>4, <1>5, <1>6, <1>7, <1>8, <1>9, <1>10 DEF Step

\* A machine that has panicked does nothing more.
LEMMA PanicStops ==
  ASSUME fs.panic # "none", [Next]_vars
  PROVE  UNCHANGED vars
<1>1. ~Crash
  BY DEF Crash
<1>2. ASSUME NEW p \in Procs
      PROVE  ~Step(p)
  BY DEF Step, Begin, namex, iput, iput_drop, sys_open, create, create_found, create_new,
         create_end, sys_unlink, unlink_ip, unlink_bad, unlink_drop, sys_link, link2,
         link_exists, link_bad, sys_chdir, exec, sys_dup, sys_close, sys_read, sys_fstat,
         sys_write, ByFd, filewrite, exit, exit_close, fork, sys_pipe, pipe_file, pipealloc,
         pipe_fds, pipe_bad, Running
<1> QED BY <1>1, <1>2 DEF Next, vars

\* Initially and after every step of a call and every crash, each process
\* refers to what the point it has reached in sysfile.c lets it refer to, and
\* the counts are those of the references (iget(), idup(), iput(),
\* filealloc(), filedup(), fileclose()).
THEOREM RefsInvariant == Spec => []RefsInv
<1>1. Init => RefsInv
  BY InitRefs
<1>2. RefsInv /\ [Next]_vars => RefsInv'
  <2> SUFFICES ASSUME RefsInv, [Next]_vars
               PROVE  RefsInv'
    OBVIOUS
  <2>1. CASE fs.panic # "none"
    <3>1. UNCHANGED vars
      BY <2>1, PanicStops
    <3> QED BY <2>1, <3>1 DEF vars, RefsInv
  <2>2. CASE fs.panic = "none"
    <3>1. Sound
      BY <2>2 DEF Sound
    <3>2. CASE Crash
      BY <3>1, <3>2, CrashRefs
    <3>3. CASE \E p \in Procs : Step(p)
      BY <3>1, <3>3, RefsStep
    <3>4. CASE UNCHANGED vars
      <4>1. /\ UNCHANGED <<fs, ftable, ofile, cwd, th>>
            /\ \A s : UNCHANGED UsesOf(s) /\ UNCHANGED FilesOn(s)
            /\ \A i : UNCHANGED FdsOf(i) /\ UNCHANGED PipesOf(i)
        BY <3>4 DEF vars, UsesOf, FilesOn, FdsOf, PipesOf, Referred
      <4> QED BY <4>1 DEF RefsInv, TablesShape, FilesClean, PipesApart, GoneHasNothing, RefsCount
    <3> QED BY <3>2, <3>3, <3>4 DEF Next
  <2> QED BY <2>1, <2>2
<1> QED BY <1>1, <1>2, PTL DEF Spec

\* On every path through the calls of sysfile.c, with any calls of other
\* processes in between, the reference count of an inode's slot is the
\* number of open files, directories and calls under way that refer to it,
\* and a file's that of its descriptors.
THEOREM RefsStayCounted == Spec => []RefsCount
<1>1. RefsInv => RefsCount
  BY DEF RefsInv, RefsCount
<1> QED BY <1>1, RefsInvariant, PTL


=============================================================================
