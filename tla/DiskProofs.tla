----------------------------- MODULE DiskProofs -----------------------------
(***************************************************************************)
(* Proofs about the file system, continued: the valid slots of the inode   *)
(* cache agree with the disk, and every block has one owner or is free, at *)
(* every point of every call.                                              *)
(***************************************************************************)
EXTENDS FileProofs

-----------------------------------------------------------------------------
(* Inodes, their blocks and the cache *)

LEMMA Sizes ==
  /\ NDIRECT \in Nat /\ NDIRECT > 0 /\ NINDIRECT \in Nat /\ NINDIRECT > 0
  /\ UPB \in Nat /\ UPB > 1 /\ NBlocks \in Nat /\ NBlocks > 1
  /\ MAXFILE = NDIRECT + NINDIRECT /\ MAXFILE \in Nat /\ NDIRECT + 1 \in 1 .. NDIRECT + 1
  /\ 0 \in AllBlocks /\ 1 \in AllBlocks /\ Meta = {0} /\ 0 \notin Inums
BY SizesAssumption DEF MAXFILE, AllBlocks, Meta

\* An inode has the same blocks in f and g.
SameBlocks(f, g, core) ==
  /\ DataBlocks(g, core) = DataBlocks(f, core) /\ Owned(g, core) = Owned(f, core)
  /\ \A bn : BlockOf(g, core, bn) = BlockOf(f, core, bn)

LEMMA BlockFrame ==
  ASSUME NEW f, NEW g, NEW core,
         Indirect(core) # 0 => g.blk[Indirect(core)] = f.blk[Indirect(core)]
  PROVE  SameBlocks(f, g, core)
BY DEF DataBlocks, Owned, Indirect, BlockOf, SameBlocks

LEMMA InodeFrame ==
  ASSUME NEW f, NEW g, NEW core, InodeSound(f, core),
         \A b \in Owned(f, core) \ {0} : g.blk[b] = f.blk[b]
  PROVE  InodeSound(g, core) /\ Owned(g, core) = Owned(f, core)
<1>1. Indirect(core) # 0 => g.blk[Indirect(core)] = f.blk[Indirect(core)]
  BY DEF Owned
<1>2. /\ DataBlocks(g, core) = DataBlocks(f, core) /\ Owned(g, core) = Owned(f, core)
      /\ \A bn : BlockOf(g, core, bn) = BlockOf(f, core, bn)
  BY <1>1, BlockFrame DEF SameBlocks
<1>3. \A b \in DataBlocks(f, core) \ {0} : g.blk[b] = f.blk[b]
  BY DEF Owned
<1> QED BY <1>1, <1>2, <1>3 DEF InodeSound

\* The inode i becomes core, with blocks of its own or new ones.
LEMMA OneInode ==
  ASSUME NEW D, NEW f, DiskSound(D, f), NEW i \in Inums, NEW core \in Cores,
         NEW g, DOMAIN g.blk = AllBlocks, InodeSound(g, core),
         \A b \in f.bitmap \ Owned(f, D[i]) : g.blk[b] = f.blk[b],
         \A b \in Owned(g, core) \ {0} : b \in Owned(f, D[i]) \/ b \notin f.bitmap,
         \A b : b \in g.bitmap <=> \/ b = 0 \/ (b \in f.bitmap /\ b \notin Owned(f, D[i]))
                                   \/ b \in Owned(g, core)
  PROVE  DiskSound([D EXCEPT ![i] = core], g)
<1> DEFINE E == [D EXCEPT ![i] = core]
<1>1. /\ D \in [Inums -> Cores] /\ \A j \in Inums : InodeSound(f, D[j])
      /\ \A j, k \in Inums : j # k => Owned(f, D[j]) \cap Owned(f, D[k]) \subseteq {0}
      /\ \A b : b \in f.bitmap <=> b = 0 \/ (b # 0 /\ \E j \in Inums : b \in Owned(f, D[j]))
  BY DEF DiskSound, Meta
<1>2. E \in [Inums -> Cores] /\ E[i] = core /\ \A j \in Inums \ {i} : E[j] = D[j]
  BY <1>1
<1>3. \A j \in Inums \ {i} : \A b \in Owned(f, D[j]) \ {0} : b \in f.bitmap /\ b \notin Owned(f, D[i])
  BY <1>1
<1>4. \A j \in Inums \ {i} : InodeSound(g, E[j]) /\ Owned(g, E[j]) = Owned(f, D[j])
  BY <1>1, <1>2, <1>3, InodeFrame
<1> HIDE DEF E
<1>5. \A j \in Inums : InodeSound(g, E[j])
  BY <1>2, <1>4
<1>6. \A j, k \in Inums : j # k => Owned(g, E[j]) \cap Owned(g, E[k]) \subseteq {0}
  <2>1. \A j \in Inums \ {i} : Owned(g, E[j]) \cap Owned(g, E[i]) \subseteq {0}
    BY <1>2, <1>3, <1>4
  <2>2. \A j, k \in Inums \ {i} : j # k => Owned(g, E[j]) \cap Owned(g, E[k]) \subseteq {0}
    BY <1>1, <1>4
  <2> QED BY <2>1, <2>2
<1>7. \A b : b \in g.bitmap <=> b = 0 \/ (b # 0 /\ \E j \in Inums : b \in Owned(g, E[j]))
  <2> TAKE b
  <2>1. b \in g.bitmap <=> \/ b = 0 \/ (b \in f.bitmap /\ b \notin Owned(f, D[i]))
                           \/ b \in Owned(g, core)
    OBVIOUS
  <2>2. ASSUME b # 0, b \in f.bitmap, b \notin Owned(f, D[i])
        PROVE  \E j \in Inums : b \in Owned(g, E[j])
    <3>1. PICK j \in Inums : b \in Owned(f, D[j])
      BY <1>1, <2>2
    <3>2. j # i
      BY <2>2, <3>1
    <3> QED BY <1>4, <3>1, <3>2
  <2>3. ASSUME b # 0, NEW j \in Inums, b \in Owned(g, E[j]), j # i
        PROVE  b \in f.bitmap /\ b \notin Owned(f, D[i])
    BY <1>3, <1>4, <2>3
  <2> QED BY <1>2, <2>1, <2>2, <2>3
<1>8. \A b : b \in g.bitmap <=> b \in Meta \/ (b # 0 /\ \E j \in Inums : b \in Owned(g, E[j]))
  BY <1>7 DEF Meta
<1>9. DiskSound(E, g)
  BY <1>2, <1>5, <1>6, <1>8 DEF DiskSound
<1> QED BY <1>9 DEF E

LEMMA OwnedMarked ==
  ASSUME NEW D, NEW f, DiskSound(D, f), NEW i \in Inums
  PROVE  /\ D[i] \in Cores /\ InodeSound(f, D[i]) /\ DOMAIN f.blk = AllBlocks
         /\ \A b \in Owned(f, D[i]) : b \in f.bitmap
         /\ 0 \in f.bitmap
BY DEF DiskSound, Meta

LEMMA NewBlock ==
  ASSUME NEW D, NEW f, DiskSound(D, f), Candidates(f) # {}
  PROVE  /\ Allocated(f) \in AllBlocks /\ Allocated(f) \notin f.bitmap /\ Allocated(f) # 0
         /\ \A i \in Inums : Allocated(f) \notin Owned(f, D[i])
<1>1. Candidates(f) \subseteq AllBlocks \ f.bitmap
  BY DEF Candidates, AllBlocks
<1>2. AllBlocks \subseteq Nat
  BY Sizes DEF AllBlocks
<1>3. Min(Candidates(f)) \in Candidates(f)
  BY <1>1, <1>2, LeastIn
<1> QED BY <1>1, <1>3, OwnedMarked DEF Allocated, DiskSound, Meta

\* A block that an inode finds by number is one of its own.
LEMMA BlockFound ==
  ASSUME NEW f, NEW core \in Cores, NEW bn \in 1 .. MAXFILE, BlockOf(f, core, bn) # 0
  PROVE  BlockOf(f, core, bn) \in DataBlocks(f, core)
<1>1. CASE bn <= NDIRECT
  <2>1. bn \in 1 .. NDIRECT
    BY <1>1, Sizes
  <2> QED BY <2>1, <1>1 DEF BlockOf, DataBlocks
<1>2. CASE ~(bn <= NDIRECT)
  <2>1. bn - NDIRECT \in 1 .. NINDIRECT
    BY <1>2, Sizes
  <2>2. Indirect(core) # 0 /\ BlockOf(f, core, bn) = f.blk[Indirect(core)][bn - NDIRECT]
    BY <1>2 DEF BlockOf, Indirect
  <2> QED BY <2>1, <2>2 DEF DataBlocks
<1> QED BY <1>1, <1>2

LEMMA InUnits ==
  ASSUME NEW off \in Nat, off < MAXFILE * UPB
  PROVE  off \div UPB + 1 \in 1 .. MAXFILE /\ (off % UPB) + 1 \in 1 .. UPB
<1>1. UPB \in Nat /\ UPB > 0 /\ MAXFILE \in Nat
  BY Sizes
<1> DEFINE q == off \div UPB
           r == off % UPB
<1>2. q \in Int /\ r \in 0 .. UPB - 1 /\ off = UPB * q + r
  BY <1>1
<1> HIDE DEF q, r
<1>3. q >= 0
  BY <1>1, <1>2
<1>4. q < MAXFILE
  BY <1>1, <1>2
<1> QED BY <1>1, <1>2, <1>3, <1>4 DEF q, r
LEMMA DataInBlocks ==
  ASSUME NEW f, NEW core \in Cores, InodeSound(f, core)
  PROVE  DataBlocks(f, core) \subseteq AllBlocks /\ Indirect(core) \in AllBlocks
<1>1. \A k \in 1 .. NDIRECT : core.addrs[k] \in AllBlocks
  BY Sizes DEF Cores
<1>2. Indirect(core) \in AllBlocks
  BY Sizes DEF Cores, Indirect
<1>3. Indirect(core) # 0 => \A k \in 1 .. NINDIRECT : f.blk[Indirect(core)][k] \in AllBlocks
  BY DEF InodeSound
<1> QED BY <1>1, <1>2, <1>3 DEF DataBlocks

LEMMA MarkedIn ==
  ASSUME NEW D, NEW f, DiskSound(D, f)
  PROVE  f.bitmap \subseteq AllBlocks
<1>1. ASSUME NEW j \in Inums PROVE Owned(f, D[j]) \subseteq AllBlocks
  BY OwnedMarked, DataInBlocks DEF Owned
<1>2. 0 \in AllBlocks
  BY Sizes
<1> QED BY <1>1, <1>2 DEF DiskSound, Meta

-----------------------------------------------------------------------------
(* One inode and its blocks *)

\* The blocks of c, in g, are those of core, in f, and the block b.
GetsBlock(f, core, g, c, b) ==
  /\ c \in Cores /\ InodeSound(g, c)
  /\ Owned(g, c) \ {0} = (Owned(f, core) \cup {b}) \ {0}

LEMMA DirZeroed == DirBlock(Zeroed)
BY DEF DirBlock, Zeroed

\* bmap() of a direct block.
LEMMA DirectBlock ==
  ASSUME NEW f, NEW core \in Cores, InodeSound(f, core), core.type # "free",
         DOMAIN f.blk = AllBlocks, NEW b \in AllBlocks \ {0}, b \notin Owned(f, core),
         NEW bn \in 1 .. NDIRECT, core.addrs[bn] = 0,
         NEW g, g.blk = [f.blk EXCEPT ![b] = Zeroed],
         NEW c, c = [core EXCEPT !.addrs[bn] = b]
  PROVE  GetsBlock(f, core, g, c, b) /\ BlockOf(g, c, bn) = b
<1>1. bn \in 1 .. NDIRECT + 1 /\ bn # NDIRECT + 1 /\ NDIRECT \in Nat /\ NDIRECT + 1 \in 1 .. NDIRECT + 1
  BY Sizes
<1>2. c \in Cores /\ c.type = core.type /\ c.size = core.size
  BY <1>1 DEF Cores
<1>3. c.addrs[bn] = b /\ \A k \in 1 .. NDIRECT + 1 : k # bn => c.addrs[k] = core.addrs[k]
  BY <1>1 DEF Cores
<1>4. Indirect(c) = Indirect(core)
  BY <1>1, <1>3 DEF Indirect
<1>5. g.blk[b] = Zeroed /\ \A a \in AllBlocks : a # b => g.blk[a] = f.blk[a]
  OBVIOUS
<1>6. Indirect(core) \in AllBlocks /\ Indirect(core) # b
  BY Sizes DEF Owned, Cores, Indirect
<1>7. g.blk[Indirect(core)] = f.blk[Indirect(core)]
  BY <1>5, <1>6
<1>8. /\ \A k \in 1 .. NDIRECT : k # bn => c.addrs[k] = core.addrs[k]
  BY <1>1, <1>3
<1>9. DataBlocks(g, c) \ {0} = (DataBlocks(f, core) \cup {b}) \ {0}
  <2>1. {c.addrs[k] : k \in 1 .. NDIRECT} \ {0} = ({core.addrs[k] : k \in 1 .. NDIRECT} \cup {b}) \ {0}
    BY <1>3, <1>8
  <2> QED BY <1>4, <1>7, <2>1 DEF DataBlocks
<1>10. \A m \in 1 .. MAXFILE : m # bn => BlockOf(g, c, m) = BlockOf(f, core, m)
  <2> TAKE m \in 1 .. MAXFILE
  <2> HAVE m # bn
  <2>1. CASE m <= NDIRECT
    <3>1. m \in 1 .. NDIRECT
      BY <2>1, Sizes
    <3> QED BY <1>8, <2>1, <3>1 DEF BlockOf
  <2>2. CASE ~(m <= NDIRECT)
    BY <1>4, <1>7, <2>2 DEF BlockOf, Indirect
  <2> QED BY <2>1, <2>2
<1>11. BlockOf(g, c, bn) = b
  BY <1>3 DEF BlockOf
<1>12. InodeSound(g, c)
  <2>1. Indirect(c) # 0 => /\ g.blk[Indirect(c)] \in [1 .. NINDIRECT -> AllBlocks]
                           /\ Indirect(c) \notin DataBlocks(g, c)
    BY <1>4, <1>6, <1>7, <1>9 DEF InodeSound
  <2>2. c.type # "free"
    BY <1>2
  <2>3. \A u \in 1 .. c.size : BlockOf(g, c, (u - 1) \div UPB + 1) # 0
    <3> TAKE u \in 1 .. c.size
    <3>1. core.size \in 0 .. MAXFILE * UPB
      BY DEF Cores
    <3>2. u - 1 \in Nat /\ u - 1 < MAXFILE * UPB
      BY <1>2, <3>1, Sizes
    <3>3. (u - 1) \div UPB + 1 \in 1 .. MAXFILE
      BY <3>2, InUnits
    <3>4. BlockOf(f, core, (u - 1) \div UPB + 1) # 0
      BY <1>2 DEF InodeSound
    <3> QED BY <1>10, <1>11, <3>3, <3>4
  <2>4. ASSUME c.type = "dir", NEW a \in DataBlocks(g, c) \ {0} PROVE DirBlock(g.blk[a])
    <3>1. CASE a = b
      BY <1>5, <3>1, DirZeroed
    <3>2. CASE a # b
      <4>1. a \in DataBlocks(f, core) \ {0}
        BY <1>9, <3>2
      <4>2. DirBlock(f.blk[a])
        BY <1>2, <2>4, <4>1 DEF InodeSound
      <4>3. a \in AllBlocks
        BY <4>1, DataInBlocks
      <4> QED BY <1>5, <3>2, <4>2, <4>3
    <3> QED BY <3>1, <3>2
  <2> QED BY <2>1, <2>2, <2>3, <2>4 DEF InodeSound
<1>13. Owned(g, c) \ {0} = (Owned(f, core) \cup {b}) \ {0}
  BY <1>4, <1>9 DEF Owned
<1> QED BY <1>2, <1>11, <1>12, <1>13 DEF GetsBlock

\* bmap() of the indirect block.
LEMMA IndirectBlock ==
  ASSUME NEW f, NEW core \in Cores, InodeSound(f, core), core.type # "free",
         DOMAIN f.blk = AllBlocks, NEW b \in AllBlocks \ {0}, b \notin Owned(f, core),
         core.addrs[NDIRECT + 1] = 0,
         NEW g, g.blk = [f.blk EXCEPT ![b] = [k \in 1 .. NINDIRECT |-> 0]],
         NEW c, c = [core EXCEPT !.addrs[NDIRECT + 1] = b]
  PROVE  /\ GetsBlock(f, core, g, c, b)
         /\ \A m \in 1 .. MAXFILE : BlockOf(g, c, m) = BlockOf(f, core, m)
<1>1. NDIRECT \in Nat /\ NDIRECT + 1 \in 1 .. NDIRECT + 1 /\ 0 \in AllBlocks
  BY Sizes
<1>2. c \in Cores /\ c.type = core.type /\ c.size = core.size
  BY <1>1 DEF Cores
<1>3. /\ \A k \in 1 .. NDIRECT : c.addrs[k] = core.addrs[k]
      /\ c.addrs[NDIRECT + 1] = b
  BY <1>1 DEF Cores
<1>4. Indirect(c) = b /\ Indirect(core) = 0
  BY <1>3 DEF Indirect
<1>5. g.blk[b] = [k \in 1 .. NINDIRECT |-> 0] /\ \A a \in AllBlocks : a # b => g.blk[a] = f.blk[a]
  OBVIOUS
<1>6. 1 \in 1 .. NINDIRECT
  BY Sizes
<1>7. DataBlocks(g, c) = DataBlocks(f, core) \cup {0}
  <2>1. {g.blk[b][k] : k \in 1 .. NINDIRECT} = {0}
    BY <1>5, <1>6
  <2>2. {c.addrs[k] : k \in 1 .. NDIRECT} = {core.addrs[k] : k \in 1 .. NDIRECT}
    BY <1>3
  <2>3. DataBlocks(f, core) = {core.addrs[k] : k \in 1 .. NDIRECT}
    BY <1>4 DEF DataBlocks
  <2>4. DataBlocks(g, c) = {c.addrs[k] : k \in 1 .. NDIRECT} \cup {g.blk[b][k] : k \in 1 .. NINDIRECT}
    BY <1>4 DEF DataBlocks
  <2> QED BY <2>1, <2>2, <2>3, <2>4
<1>8. \A m \in 1 .. MAXFILE : BlockOf(g, c, m) = BlockOf(f, core, m)
  <2> TAKE m \in 1 .. MAXFILE
  <2>1. CASE m <= NDIRECT
    <3>1. m \in 1 .. NDIRECT
      BY <2>1, Sizes
    <3> QED BY <1>3, <2>1, <3>1 DEF BlockOf
  <2>2. CASE ~(m <= NDIRECT)
    <3>1. m - NDIRECT \in 1 .. NINDIRECT
      BY <2>2, Sizes
    <3> QED BY <1>3, <1>5, <2>2, <3>1 DEF BlockOf
  <2> QED BY <2>1, <2>2
<1>9. InodeSound(g, c)
  <2>1. /\ g.blk[Indirect(c)] \in [1 .. NINDIRECT -> AllBlocks]
        /\ Indirect(c) \notin DataBlocks(g, c)
    BY <1>1, <1>4, <1>5, <1>7 DEF Owned
  <2>2. c.type # "free"
    BY <1>2
  <2>3. \A u \in 1 .. c.size : BlockOf(g, c, (u - 1) \div UPB + 1) # 0
    <3> TAKE u \in 1 .. c.size
    <3>1. core.size \in 0 .. MAXFILE * UPB
      BY DEF Cores
    <3>2. u - 1 \in Nat /\ u - 1 < MAXFILE * UPB
      BY <1>2, <3>1, Sizes
    <3>3. (u - 1) \div UPB + 1 \in 1 .. MAXFILE
      BY <3>2, InUnits
    <3>4. BlockOf(f, core, (u - 1) \div UPB + 1) # 0
      BY <1>2 DEF InodeSound
    <3> QED BY <1>8, <3>3, <3>4
  <2>4. ASSUME c.type = "dir", NEW a \in DataBlocks(g, c) \ {0} PROVE DirBlock(g.blk[a])
    <3>1. a \in DataBlocks(f, core) \ {0} /\ a # b /\ a \in AllBlocks
      BY <1>7, DataInBlocks DEF Owned
    <3>2. DirBlock(f.blk[a])
      BY <1>2, <2>4, <3>1 DEF InodeSound
    <3> QED BY <1>5, <3>1, <3>2
  <2> QED BY <2>1, <2>2, <2>3, <2>4 DEF InodeSound
<1>10. Owned(g, c) \ {0} = (Owned(f, core) \cup {b}) \ {0}
  BY <1>4, <1>7 DEF Owned
<1> QED BY <1>2, <1>8, <1>9, <1>10 DEF GetsBlock

\* bmap() of a block that the indirect block has the number of.
LEMMA EntryBlock ==
  ASSUME NEW f, NEW core \in Cores, InodeSound(f, core), core.type # "free",
         DOMAIN f.blk = AllBlocks, NEW b \in AllBlocks \ {0}, b \notin Owned(f, core),
         NEW bn \in NDIRECT + 1 .. MAXFILE, Indirect(core) # 0, BlockOf(f, core, bn) = 0,
         NEW g, g.blk = [f.blk EXCEPT ![b] = Zeroed, ![Indirect(core)][bn - NDIRECT] = b]
  PROVE  GetsBlock(f, core, g, core, b) /\ BlockOf(g, core, bn) = b
<1> DEFINE a == Indirect(core)
           n == bn - NDIRECT
<1>1. n \in 1 .. NINDIRECT /\ bn \in 1 .. MAXFILE /\ ~(bn <= NDIRECT)
  BY Sizes
<1>2. a \in AllBlocks /\ a # b /\ a # 0 /\ f.blk[a] \in [1 .. NINDIRECT -> AllBlocks]
      /\ a \notin DataBlocks(f, core)
  BY DataInBlocks DEF Owned, InodeSound
<1>3. /\ g.blk[b] = Zeroed /\ g.blk[a] = [f.blk[a] EXCEPT ![n] = b]
      /\ \A x \in AllBlocks : x # b /\ x # a => g.blk[x] = f.blk[x]
  BY <1>2
<1>5. f.blk[a][n] = 0
  BY <1>1, <1>2 DEF BlockOf, Indirect
<1> HIDE DEF n, a
<1>4. /\ g.blk[a] \in [1 .. NINDIRECT -> AllBlocks] /\ g.blk[a][n] = b
      /\ \A k \in 1 .. NINDIRECT : k # n => g.blk[a][k] = f.blk[a][k]
  <2> DEFINE v == f.blk[a]
             w == g.blk[a]
  <2>1. w = [v EXCEPT ![n] = b] /\ v \in [1 .. NINDIRECT -> AllBlocks] /\ b \in AllBlocks
    BY <1>2, <1>3
  <2> HIDE DEF v, w
  <2>2. w \in [1 .. NINDIRECT -> AllBlocks] /\ w[n] = b /\ \A k \in 1 .. NINDIRECT : k # n => w[k] = v[k]
    BY <1>1, <2>1
  <2> QED BY <2>2 DEF v, w
<1>6. DataBlocks(g, core) \ {0} = (DataBlocks(f, core) \cup {b}) \ {0}
  <2>1. {g.blk[a][k] : k \in 1 .. NINDIRECT} \ {0}
          = ({f.blk[a][k] : k \in 1 .. NINDIRECT} \cup {b}) \ {0}
    BY <1>1, <1>4, <1>5
  <2> QED BY <1>2, <2>1 DEF DataBlocks, a
<1>7. \A m \in 1 .. MAXFILE : m # bn => BlockOf(g, core, m) = BlockOf(f, core, m)
  <2> TAKE m \in 1 .. MAXFILE
  <2> HAVE m # bn
  <2>1. CASE m <= NDIRECT
    BY <2>1 DEF BlockOf
  <2>2. CASE ~(m <= NDIRECT)
    <3>1. m - NDIRECT \in 1 .. NINDIRECT /\ m - NDIRECT # n
      BY <2>2, Sizes DEF n
    <3> QED BY <1>2, <1>4, <2>2, <3>1 DEF BlockOf, Indirect, a
  <2> QED BY <2>1, <2>2
<1>8. BlockOf(g, core, bn) = b
  BY <1>1, <1>2, <1>4 DEF BlockOf, Indirect, n, a
<1>9. InodeSound(g, core)
  <2>1. g.blk[a] \in [1 .. NINDIRECT -> AllBlocks] /\ a \notin DataBlocks(g, core)
    BY <1>2, <1>4, <1>6
  <2>3. \A u \in 1 .. core.size : BlockOf(g, core, (u - 1) \div UPB + 1) # 0
    <3> TAKE u \in 1 .. core.size
    <3>1. core.size \in 0 .. MAXFILE * UPB
      BY DEF Cores
    <3>2. u - 1 \in Nat /\ u - 1 < MAXFILE * UPB
      BY <3>1, Sizes
    <3>3. (u - 1) \div UPB + 1 \in 1 .. MAXFILE
      BY <3>2, InUnits
    <3>4. BlockOf(f, core, (u - 1) \div UPB + 1) # 0
      BY DEF InodeSound
    <3> QED BY <1>7, <1>8, <3>3, <3>4
  <2>4. ASSUME core.type = "dir", NEW x \in DataBlocks(g, core) \ {0} PROVE DirBlock(g.blk[x])
    <3>1. CASE x = b
      BY <1>3, <3>1, DirZeroed
    <3>2. CASE x # b
      <4>1. x \in DataBlocks(f, core) \ {0} /\ x # a /\ x \in AllBlocks
        BY <1>2, <1>6, <3>2, DataInBlocks
      <4>2. DirBlock(f.blk[x])
        BY <2>4, <4>1 DEF InodeSound
      <4> QED BY <1>3, <3>2, <4>1, <4>2
    <3> QED BY <3>1, <3>2
  <2> QED BY <2>1, <2>3, <2>4 DEF InodeSound, a
<1>10. Owned(g, core) \ {0} = (Owned(f, core) \cup {b}) \ {0}
  BY <1>6 DEF Owned
<1> QED BY <1>8, <1>9, <1>10 DEF GetsBlock

\* g is f with the unit u of block bn of the inode written.
IsStore(f, g, core, bn, u, unit) ==
  /\ BlockOf(f, core, bn) # 0
  /\ core.type = "dir" => unit.inum \in {0} \cup Inums
  /\ g.blk = [f.blk EXCEPT ![BlockOf(f, core, bn)][u] = unit]

\* writei() into a block.
LEMMA StoreUnit ==
  ASSUME NEW f, NEW core \in Cores, InodeSound(f, core), DOMAIN f.blk = AllBlocks,
         NEW bn \in 1 .. MAXFILE, NEW u \in 1 .. UPB, NEW unit,
         NEW g, IsStore(f, g, core, bn, u, unit)
  PROVE  /\ InodeSound(g, core) /\ Owned(g, core) = Owned(f, core)
         /\ \A m : BlockOf(g, core, m) = BlockOf(f, core, m)
<1> DEFINE b == BlockOf(f, core, bn)
<1>0. BlockOf(f, core, bn) # 0
  BY DEF IsStore
<1>1. b \in DataBlocks(f, core) /\ b # 0 /\ b \in AllBlocks
  BY <1>0, BlockFound, DataInBlocks
<1>2. /\ g.blk[b] = [f.blk[b] EXCEPT ![u] = unit] /\ \A a \in AllBlocks : a # b => g.blk[a] = f.blk[a]
      /\ core.type = "dir" => unit.inum \in {0} \cup Inums
  BY <1>1 DEF IsStore
<1> HIDE DEF b
<1>3. Indirect(core) # 0 => /\ g.blk[Indirect(core)] = f.blk[Indirect(core)]
                            /\ f.blk[Indirect(core)] \in [1 .. NINDIRECT -> AllBlocks]
                            /\ Indirect(core) \notin DataBlocks(f, core)
  BY <1>1, <1>2, DataInBlocks DEF InodeSound
<1>4. /\ DataBlocks(g, core) = DataBlocks(f, core) /\ Owned(g, core) = Owned(f, core)
      /\ \A m : BlockOf(g, core, m) = BlockOf(f, core, m)
  <2>1. Indirect(core) # 0 => g.blk[Indirect(core)] = f.blk[Indirect(core)]
    BY <1>3
  <2>2. SameBlocks(f, g, core)
    BY <2>1, BlockFrame, Zenon
  <2> QED BY <2>2 DEF SameBlocks
<1>5. ASSUME core.type = "dir", NEW a \in DataBlocks(f, core) \ {0} PROVE DirBlock(g.blk[a])
  <2>1. DirBlock(f.blk[a]) /\ a \in AllBlocks
    BY <1>5, DataInBlocks DEF InodeSound
  <2>2. CASE a = b
    BY <1>2, <1>5, <2>1, <2>2 DEF DirBlock
  <2>3. CASE a # b
    BY <1>2, <2>1, <2>3
  <2> QED BY <2>2, <2>3
<1>6. InodeSound(g, core)
  BY <1>3, <1>4, <1>5 DEF InodeSound
<1> QED BY <1>4, <1>6

-----------------------------------------------------------------------------
(* The disk and the cache together *)

\* What holds of disk and cache between any two operations of fs.c.
Good(f) == FsShape(f) /\ RefsNat(f) /\ DiskSound(f.dinode, f) /\ CacheSound(f)

\* A process that refers to the slot may use the inode.
Ready(f, s) == s \in Slots /\ f.slot[s].ref > 0 /\ f.slot[s].valid

\* What whoever refers to a slot relies on while others change the inode.
Steady(f, g, s) ==
  /\ g.slot[s].inum = f.slot[s].inum
  /\ f.slot[s].valid =>
       /\ g.slot[s].valid
       /\ g.slot[s].core.type = f.slot[s].core.type
       /\ \A n \in Nat : n < f.slot[s].core.size => n < g.slot[s].core.size
  /\ f.dinode[f.slot[s].inum].type # "free" =>
       g.dinode[f.slot[s].inum].type = f.dinode[f.slot[s].inum].type

Grows(f, g) ==
  g.panic = "none" =>
    /\ f.panic = "none" /\ Good(g)
    /\ \A s \in Slots : f.slot[s].ref > 0 => g.slot[s].ref > 0 /\ Steady(f, g, s)

LEMMA GrowsGrows ==
  ASSUME NEW f, NEW g, NEW h, Grows(f, g), Grows(g, h)
  PROVE  Grows(f, h)
BY DEF Grows, Steady

LEMMA GrowsSelf ==
  ASSUME NEW f, Good(f)
  PROVE  Grows(f, f)
BY DEF Grows, Steady

LEMMA ReadyStays ==
  ASSUME NEW f, NEW g, Grows(f, g), g.panic = "none", NEW s, Ready(f, s)
  PROVE  /\ Ready(g, s) /\ f.panic = "none" /\ Good(g)
         /\ g.slot[s].inum = f.slot[s].inum
         /\ g.slot[s].core.type = f.slot[s].core.type
         /\ \A n \in Nat : n < f.slot[s].core.size => n < g.slot[s].core.size
BY DEF Grows, Steady, Ready

LEMMA ReadyCore ==
  ASSUME NEW f, Good(f), NEW s, Ready(f, s)
  PROVE  /\ f.slot[s].inum \in Inums /\ f.slot[s].core = f.dinode[f.slot[s].inum]
         /\ f.slot[s].core \in Cores /\ f.slot[s].core.type # "free"
         /\ InodeSound(f, f.slot[s].core)
<1>1. f.slot[s].inum \in Inums /\ f.slot[s].core = f.dinode[f.slot[s].inum] /\ f.slot[s].core.type # "free"
  BY DEF Good, Ready, CacheSound
<1> QED BY <1>1, OwnedMarked DEF Good

LEMMA SoundFrame ==
  ASSUME NEW D, NEW f, DiskSound(D, f), NEW g, g.blk = f.blk, g.bitmap = f.bitmap
  PROVE  DiskSound(D, g)
<1>1. \A i \in Inums : InodeSound(g, D[i]) /\ Owned(g, D[i]) = Owned(f, D[i])
  BY InodeFrame DEF DiskSound
<1> QED BY <1>1 DEF DiskSound

\* Nothing but the slots changed, and every slot in use keeps its inode.
LEMMA SlotsGrow ==
  ASSUME NEW f, Good(f), NEW g, FsShape(g), RefsNat(g), g.panic = "none" => f.panic = "none",
         g.blk = f.blk, g.bitmap = f.bitmap, g.dinode = f.dinode,
         \A s \in Slots : f.slot[s].ref > 0 =>
           /\ g.slot[s].ref > 0 /\ g.slot[s].inum = f.slot[s].inum
           /\ f.slot[s].valid => g.slot[s].valid /\ g.slot[s].core = f.slot[s].core,
         g.panic = "none" => CacheSound(g)
  PROVE  Grows(f, g)
<1>1. DiskSound(g.dinode, g)
  BY SoundFrame DEF Good
<1> QED BY <1>1 DEF Grows, Good, Steady

LEMMA LockGrows ==
  ASSUME NEW f, Good(f), NEW s
  PROVE  (\A p : Grows(f, Lock(f, s, p))) /\ Grows(f, Unlock(f, s))
<1>1. ASSUME NEW p PROVE Grows(f, [f EXCEPT !.slot[s].lock = p])
  <2> DEFINE g == [f EXCEPT !.slot[s].lock = p]
  <2>1. Keeps(f, g)
    BY SlotKeeps DEF Lock, Good
  <2>2. /\ FsShape(g) /\ RefsNat(g) /\ g.panic = f.panic
        /\ g.blk = f.blk /\ g.bitmap = f.bitmap /\ g.dinode = f.dinode
    BY <2>1, KeepsNat, KeepsShape DEF Good, FsShape
  <2>3. \A x \in Slots : /\ g.slot[x].ref = f.slot[x].ref /\ g.slot[x].inum = f.slot[x].inum
                         /\ g.slot[x].valid = f.slot[x].valid /\ g.slot[x].core = f.slot[x].core
    BY DEF Good, FsShape
  <2> HIDE DEF g
  <2>4. CacheSound(g)
    BY <2>2, <2>3 DEF Good, CacheSound
  <2>5. Grows(f, g)
    BY <2>2, <2>3, <2>4, SlotsGrow
  <2> QED BY <2>5 DEF g
<1> QED BY <1>1 DEF Lock, Unlock

\* iget() of an inode of the disk.
LEMMA GetGrows ==
  ASSUME NEW f, Good(f), NEW inum \in Inums, NEW g, g = iget(f, inum),
         NEW s, s = SlotOf(f, inum)
  PROVE  /\ Grows(f, g)
         /\ g.panic = "none" => s \in Slots /\ g.slot[s].inum = inum /\ g.slot[s].ref > 0
         /\ g.dinode = f.dinode
<1>0. FsShape(f) /\ RefsNat(f)
  BY DEF Good
<1>1. Takes(f, g, s)
  BY <1>0, GetTakes
<1>2. CASE s = 0
  <2> DEFINE m == "iget: no free inodes in cache"
  <2>1. g = Panic(f, m)
    BY <1>2 DEF iget
  <2>2. g.panic # "none"
    BY <1>0, <2>1, PanicKeeps
  <2>3. g.dinode = f.dinode
    BY <1>0, <2>1 DEF Panic, FsShape
  <2> QED BY <2>2, <2>3 DEF Grows
<1>3. CASE s # 0
  <2>0. Matching(f, inum) \subseteq Slots /\ Unused(f) \subseteq Slots /\ Slots \subseteq Nat
    BY SizesAssumption DEF Matching, Unused, Slots
  <2>1. \/ s \in Matching(f, inum)
        \/ s \in Unused(f) /\ Matching(f, inum) = {}
    <3>1. CASE Matching(f, inum) # {}
      <4>1. s = Min(Matching(f, inum))
        BY <3>1 DEF SlotOf
      <4> QED BY <2>0, <3>1, <4>1, LeastIn
    <3>2. CASE Matching(f, inum) = {} /\ Unused(f) # {}
      <4>1. s = Min(Unused(f))
        BY <3>2 DEF SlotOf
      <4> QED BY <2>0, <3>2, <4>1, LeastIn
    <3>3. CASE Matching(f, inum) = {} /\ Unused(f) = {}
      BY <1>3, <3>3 DEF SlotOf
    <3> QED BY <3>1, <3>2, <3>3
  <2>2. CASE s \in Matching(f, inum)
    <3>1. s \in Slots /\ f.slot[s].ref > 0 /\ f.slot[s].inum = inum
      BY <2>2 DEF Matching
    <3>2. g = [f EXCEPT !.slot[s].ref = @ + 1]
      BY <1>3, <3>1 DEF iget
    <3>3. /\ g.panic = f.panic /\ g.blk = f.blk /\ g.bitmap = f.bitmap /\ g.dinode = f.dinode
          /\ FsShape(g)
          /\ \A x \in Slots : /\ g.slot[x].inum = f.slot[x].inum
                              /\ g.slot[x].valid = f.slot[x].valid /\ g.slot[x].core = f.slot[x].core
                              /\ x # s => g.slot[x].ref = f.slot[x].ref
          /\ g.slot[s].ref = f.slot[s].ref + 1
      BY <1>0, <3>1, <3>2 DEF FsShape
    <3>4. RefsNat(g) /\ \A x \in Slots : g.slot[x].ref > 0 <=> f.slot[x].ref > 0
      BY <1>0, <3>1, <3>3 DEF RefsNat
    <3>5. CacheSound(g)
      BY <3>3, <3>4 DEF Good, CacheSound
    <3>6. Grows(f, g)
      BY <3>3, <3>4, <3>5, SlotsGrow
    <3> QED BY <3>1, <3>3, <3>4, <3>6
  <2>3. CASE s \in Unused(f) /\ Matching(f, inum) = {}
    <3>1. s \in Slots /\ f.slot[s].ref = 0
      BY <2>3 DEF Unused
    <3>2. g = [f EXCEPT !.slot[s] = [@ EXCEPT !.dev = 1, !.inum = inum, !.ref = 1, !.valid = FALSE]]
      BY <1>3, <3>1 DEF iget
    <3>3. /\ g.panic = f.panic /\ g.blk = f.blk /\ g.bitmap = f.bitmap /\ g.dinode = f.dinode
          /\ FsShape(g)
          /\ \A x \in Slots : x # s => g.slot[x] = f.slot[x]
          /\ g.slot[s].ref = 1 /\ g.slot[s].inum = inum /\ g.slot[s].valid = FALSE
      BY <1>0, <3>1, <3>2 DEF FsShape
    <3>4. RefsNat(g)
      BY <1>0, <3>3 DEF RefsNat
    <3>5. \A x \in Slots : f.slot[x].ref > 0 => f.slot[x].inum # inum
      BY <2>3 DEF Matching
    <3>6. CacheSound(g)
      <4>1. ASSUME NEW x \in Slots, g.slot[x].ref > 0
            PROVE  /\ g.slot[x].inum \in Inums
                   /\ g.slot[x].valid => /\ g.slot[x].core = g.dinode[g.slot[x].inum]
                                         /\ g.slot[x].core.type # "free"
        BY <3>3, <4>1 DEF Good, CacheSound
      <4>2. ASSUME NEW x \in Slots, NEW y \in Slots, g.slot[x].ref > 0, g.slot[y].ref > 0,
                   g.slot[x].inum = g.slot[y].inum
            PROVE  x = y
        BY <3>3, <3>5, <4>2 DEF Good, CacheSound
      <4> QED BY <4>1, <4>2 DEF CacheSound
    <3>7. Grows(f, g)
      BY <3>1, <3>3, <3>4, <3>6, SlotsGrow
    <3> QED BY <3>1, <3>3, <3>7
  <2> QED BY <2>1, <2>2, <2>3
<1> QED BY <1>2, <1>3

LEMMA DupGrows ==
  ASSUME NEW f, Good(f), NEW s \in {0} \cup Slots, s # 0 => f.slot[s].ref > 0
  PROVE  Grows(f, idup(f, s)) /\ idup(f, s).dinode = f.dinode
<1> DEFINE g == idup(f, s)
<1>0. FsShape(f) /\ RefsNat(f) /\ 0 \notin Slots
  BY DEF Good, Slots
<1>1. /\ g.panic = f.panic /\ g.blk = f.blk /\ g.bitmap = f.bitmap /\ g.dinode = f.dinode
      /\ FsShape(g)
      /\ \A x \in Slots : /\ g.slot[x].inum = f.slot[x].inum
                          /\ g.slot[x].valid = f.slot[x].valid /\ g.slot[x].core = f.slot[x].core
                          /\ x # s => g.slot[x].ref = f.slot[x].ref
      /\ s # 0 => g.slot[s].ref = f.slot[s].ref + 1
  BY <1>0 DEF FsShape, idup
<1> HIDE DEF g
<1>2. RefsNat(g) /\ \A x \in Slots : g.slot[x].ref > 0 <=> f.slot[x].ref > 0
  BY <1>0, <1>1 DEF RefsNat
<1>3. CacheSound(g)
  BY <1>1, <1>2 DEF Good, CacheSound
<1>4. Grows(f, g)
  BY <1>1, <1>2, <1>3, SlotsGrow
<1> QED BY <1>1, <1>4 DEF g

\* The decrement of iput(): what is left is as it was.
LEMMA DropSteady ==
  ASSUME NEW f, Good(f), NEW s \in Slots, f.slot[s].ref > 0, NEW g, g = PutDrop(f, s)
  PROVE  Good(g) /\ \A x \in Slots : Steady(f, g, x)
<1>0. FsShape(f) /\ RefsNat(f)
  BY DEF Good
<1>1. /\ g.panic = f.panic /\ g.blk = f.blk /\ g.bitmap = f.bitmap /\ g.dinode = f.dinode
      /\ FsShape(g)
      /\ \A x \in Slots : /\ g.slot[x].inum = f.slot[x].inum
                          /\ g.slot[x].valid = f.slot[x].valid /\ g.slot[x].core = f.slot[x].core
                          /\ x # s => g.slot[x].ref = f.slot[x].ref
      /\ g.slot[s].ref = f.slot[s].ref - 1
  BY <1>0 DEF FsShape, PutDrop
<1>2. RefsNat(g) /\ \A x \in Slots : g.slot[x].ref > 0 => f.slot[x].ref > 0
  BY <1>0, <1>1 DEF RefsNat
<1>3. CacheSound(g)
  BY <1>1, <1>2 DEF Good, CacheSound
<1>4. DiskSound(g.dinode, g)
  BY <1>1, SoundFrame DEF Good
<1> QED BY <1>1, <1>2, <1>3, <1>4 DEF Good, Steady

LEMMA LoadedGrows ==
  ASSUME NEW f, Good(f), NEW s \in Slots, NEW g, g = Loaded(f, s)
  PROVE  /\ Grows(f, g)
         /\ g.panic = "none" => Ready(g, s)
         /\ Ready(f, s) => g = f
<1>0. FsShape(f) /\ RefsNat(f) /\ f.slot[s].ref \in Nat
  BY DEF Good, RefsNat
<1> DEFINE c == f.dinode[f.slot[s].inum]
           h == [f EXCEPT !.slot[s].core = c, !.slot[s].valid = TRUE]
           m == "ilock: inode has no type"
           n == "ilock: invalid inode"
<1>1. CASE f.slot[s].ref < 1
  <2>1. g = Panic(f, n)
    BY <1>1 DEF Loaded
  <2>2. g.panic # "none"
    BY <1>0, <2>1, PanicKeeps
  <2>3. ~Ready(f, s)
    BY <1>0, <1>1 DEF Ready
  <2> QED BY <2>2, <2>3 DEF Grows
<1>2. CASE ~(f.slot[s].ref < 1) /\ f.slot[s].valid
  <2>1. g = f
    BY <1>2 DEF Loaded
  <2>2. Ready(f, s)
    BY <1>0, <1>2 DEF Ready
  <2> QED BY <2>1, <2>2, GrowsSelf
<1>3. CASE ~(f.slot[s].ref < 1) /\ ~f.slot[s].valid
  <2>1. /\ h.panic = f.panic /\ h.blk = f.blk /\ h.bitmap = f.bitmap /\ h.dinode = f.dinode
        /\ \A x \in Slots : /\ h.slot[x].inum = f.slot[x].inum /\ h.slot[x].ref = f.slot[x].ref
                            /\ x # s => h.slot[x].valid = f.slot[x].valid /\ h.slot[x].core = f.slot[x].core
        /\ h.slot[s].core = c /\ h.slot[s].valid = TRUE
    BY <1>0 DEF FsShape
  <2>2. Keeps(f, h)
    BY <1>0, SlotKeeps
  <2>3. FsShape(h) /\ RefsNat(h)
    BY <1>0, <2>2, KeepsShape, KeepsNat
  <2>4. g = IF h.slot[s].core.type = "free" THEN Panic(h, m) ELSE h
    BY <1>3 DEF Loaded
  <2>5. ~Ready(f, s) /\ f.slot[s].ref > 0
    BY <1>0, <1>3 DEF Ready
  <2> HIDE DEF h
  <2>6. CASE h.slot[s].core.type = "free"
    <3>1. g.panic # "none"
      BY <2>3, <2>4, <2>6, PanicKeeps
    <3> QED BY <2>5, <3>1 DEF Grows
  <2>7. CASE h.slot[s].core.type # "free"
    <3>1. CacheSound(h)
      BY <2>1, <2>7 DEF Good, CacheSound
    <3>2. Grows(f, h)
      BY <1>3, <2>1, <2>3, <3>1, SlotsGrow
    <3>3. g = h
      BY <2>4, <2>7
    <3>4. Ready(g, s)
      BY <2>1, <2>5, <3>3 DEF Ready
    <3> QED BY <2>5, <3>2, <3>3, <3>4
  <2> QED BY <2>6, <2>7
<1> QED BY <1>1, <1>2, <1>3

\* The inode in slot s becomes core, in the cache and on the disk.
Writes(f, g, s, core) ==
  /\ FsShape(g)
  /\ g.panic = "none" => f.panic = "none"
  /\ \A x \in Slots : /\ g.slot[x].inum = f.slot[x].inum /\ g.slot[x].ref = f.slot[x].ref
                      /\ g.slot[x].valid = f.slot[x].valid
                      /\ x # s => g.slot[x].core = f.slot[x].core
  /\ g.slot[s].core = core
  /\ g.dinode = [f.dinode EXCEPT ![f.slot[s].inum] = core]

LEMMA Updated ==
  ASSUME NEW f, Good(f), NEW s, Ready(f, s), NEW core \in Cores,
         core.type = f.slot[s].core.type,
         \A n \in Nat : n < f.slot[s].core.size => n < core.size,
         NEW g, Writes(f, g, s, core), DiskSound(g.dinode, g)
  PROVE  Grows(f, g)
<1>1. s \in Slots /\ f.slot[s].ref > 0 /\ f.slot[s].valid
  BY DEF Ready
<1>2. /\ f.slot[s].inum \in Inums /\ f.slot[s].core = f.dinode[f.slot[s].inum]
      /\ f.slot[s].core.type # "free"
  BY ReadyCore
<1>3. f.dinode \in [Inums -> Cores]
  BY DEF Good, DiskSound
<1>4. g.dinode[f.slot[s].inum] = core /\ \A i \in Inums : i # f.slot[s].inum => g.dinode[i] = f.dinode[i]
  BY <1>2, <1>3 DEF Writes
<1>5. RefsNat(g) /\ FsShape(g)
  BY DEF Good, Writes, RefsNat
<1>6. CacheSound(g)
  <2>1. ASSUME NEW x \in Slots, g.slot[x].ref > 0
        PROVE  /\ g.slot[x].inum \in Inums
               /\ g.slot[x].valid => /\ g.slot[x].core = g.dinode[g.slot[x].inum]
                                     /\ g.slot[x].core.type # "free"
    BY <1>1, <1>2, <1>4, <2>1 DEF Good, CacheSound, Writes
  <2>2. ASSUME NEW x \in Slots, NEW y \in Slots, g.slot[x].ref > 0, g.slot[y].ref > 0,
               g.slot[x].inum = g.slot[y].inum
        PROVE  x = y
    BY <2>2 DEF Good, CacheSound, Writes
  <2> QED BY <2>1, <2>2 DEF CacheSound
<1>7. ASSUME NEW x \in Slots, f.slot[x].ref > 0 PROVE g.slot[x].ref > 0 /\ Steady(f, g, x)
  <2>1. f.slot[x].inum \in Inums
    BY <1>7 DEF Good, CacheSound
  <2>2. CASE x = s
    BY <1>1, <1>2, <1>4, <2>2 DEF Steady, Writes
  <2>3. CASE x # s
    <3>1. f.slot[x].inum # f.slot[s].inum
      BY <1>1, <1>7, <2>3 DEF Good, CacheSound
    <3> QED BY <1>4, <1>7, <2>1, <2>3, <3>1 DEF Steady, Writes
  <2> QED BY <2>2, <2>3
<1> QED BY <1>5, <1>6, <1>7 DEF Grows, Good, Writes

LEMMA SameAddrs ==
  ASSUME NEW f, NEW core, NEW c, c.addrs = core.addrs
  PROVE  /\ Indirect(c) = Indirect(core) /\ DataBlocks(f, c) = DataBlocks(f, core)
         /\ Owned(f, c) = Owned(f, core) /\ \A bn : BlockOf(f, c, bn) = BlockOf(f, core, bn)
BY DEF Indirect, DataBlocks, Owned, BlockOf

\* dp->nlink++, ip->nlink-- and ip->nlink = 1, each with its iupdate().
LEMMA LinksGrow ==
  ASSUME NEW f, Good(f), NEW s, Ready(f, s), NEW v \in Int,
         NEW g, g = iupdate([f EXCEPT !.slot[s].core.nlink = v], s)
  PROVE  Grows(f, g)
<1> DEFINE core == f.slot[s].core
           c == [core EXCEPT !.nlink = v]
           i == f.slot[s].inum
           h == [f EXCEPT !.slot[s].core.nlink = v]
<1>1. /\ i \in Inums /\ core = f.dinode[i] /\ core \in Cores /\ core.type # "free"
      /\ InodeSound(f, core) /\ FsShape(f) /\ s \in Slots /\ DOMAIN f.blk = AllBlocks
  BY ReadyCore DEF Good, Ready, DiskSound
<1>2. c \in Cores /\ c.addrs = core.addrs /\ c.type = core.type /\ c.size = core.size
  BY <1>1 DEF Cores
<1>3. /\ h.panic = f.panic /\ h.blk = f.blk /\ h.bitmap = f.bitmap /\ h.dinode = f.dinode
      /\ \A x \in Slots : /\ h.slot[x].inum = f.slot[x].inum /\ h.slot[x].ref = f.slot[x].ref
                          /\ h.slot[x].valid = f.slot[x].valid
                          /\ x # s => h.slot[x].core = f.slot[x].core
      /\ h.slot[s].core = c
  BY <1>1 DEF FsShape
<1>4. FsShape(h)
  BY <1>1, CoreKeeps, KeepsShape
<1> HIDE DEF h
<1>5. /\ g.panic = f.panic /\ g.blk = f.blk /\ g.bitmap = f.bitmap
      /\ g.slot = h.slot /\ g.dinode = [f.dinode EXCEPT ![i] = c]
  BY <1>1, <1>3, <1>4 DEF FsShape, iupdate, h
<1>6. FsShape(g)
  BY <1>4, UpdateKeeps, KeepsShape DEF h
<1> HIDE DEF c
<1>7. Writes(f, g, s, c)
  BY <1>1, <1>3, <1>5, <1>6 DEF Writes
<1>8. InodeSound(f, c) /\ Owned(f, c) = Owned(f, core)
  <2>1. /\ Indirect(c) = Indirect(core) /\ DataBlocks(f, c) = DataBlocks(f, core)
        /\ Owned(f, c) = Owned(f, core) /\ \A bn : BlockOf(f, c, bn) = BlockOf(f, core, bn)
    BY <1>2, SameAddrs
  <2> QED BY <1>1, <1>2, <2>1 DEF InodeSound
<1>9. InodeSound(g, c) /\ Owned(g, c) = Owned(f, core)
  BY <1>5, <1>8, InodeFrame
<1>10. DiskSound([f.dinode EXCEPT ![i] = c], g)
  <2>1. DiskSound(f.dinode, f) /\ f.dinode[i] = core
    BY <1>1 DEF Good
  <2>2. \A b \in Owned(f, core) : b \in f.bitmap
    BY <1>1, <2>1, OwnedMarked
  <2>3. 0 \in f.bitmap
    BY <1>1, <2>1, OwnedMarked
  <2>4. \A b : b \in g.bitmap <=> \/ b = 0 \/ (b \in f.bitmap /\ b \notin Owned(f, f.dinode[i]))
                                  \/ b \in Owned(g, c)
    BY <1>5, <1>9, <2>1, <2>2, <2>3
  <2>5. \A b \in Owned(g, c) \ {0} : b \in Owned(f, f.dinode[i]) \/ b \notin f.bitmap
    BY <1>9, <2>1
  <2>6. DOMAIN g.blk = AllBlocks /\ \A b \in f.bitmap \ Owned(f, f.dinode[i]) : g.blk[b] = f.blk[b]
    BY <1>1, <1>5
  <2> HIDE DEF i, core
  <2> QED BY <1>1, <1>2, <1>9, <2>1, <2>4, <2>5, <2>6, OneInode
<1>11. DiskSound(g.dinode, g)
  BY <1>5, <1>10
<1> QED BY <1>2, <1>7, <1>11, Updated

-----------------------------------------------------------------------------
(* writei() *)

\* The inode in slot s is sound as the cache has it, before iupdate().
Draft(f, s) ==
  /\ FsShape(f) /\ s \in Slots /\ f.slot[s].inum \in Inums
  /\ f.slot[s].core.type # "free" /\ f.dinode \in [Inums -> Cores]
  /\ DiskSound([f.dinode EXCEPT ![f.slot[s].inum] = f.slot[s].core], f)

\* Of inodes and slots, f and g differ in the addresses of the inode in slot s.
Only(f, g, s) ==
  /\ FsShape(g) /\ g.dinode = f.dinode
  /\ g.panic = "none" => f.panic = "none"
  /\ \A x \in Slots : /\ g.slot[x].inum = f.slot[x].inum /\ g.slot[x].ref = f.slot[x].ref
                      /\ g.slot[x].valid = f.slot[x].valid
                      /\ x # s => g.slot[x].core = f.slot[x].core
  /\ g.slot[s].core.type = f.slot[s].core.type
  /\ g.slot[s].core.size = f.slot[s].core.size
  /\ g.slot[s].core.nlink = f.slot[s].core.nlink

LEMMA OnlyOnly ==
  ASSUME NEW f, NEW g, NEW h, NEW s, Only(f, g, s), Only(g, h, s)
  PROVE  Only(f, h, s)
BY DEF Only

LEMMA DraftCore ==
  ASSUME NEW f, NEW s, Draft(f, s)
  PROVE  /\ f.slot[s].core \in Cores /\ InodeSound(f, f.slot[s].core)
         /\ DOMAIN f.blk = AllBlocks
         /\ \A b \in Owned(f, f.slot[s].core) : b \in f.bitmap
<1> DEFINE i == f.slot[s].inum
           D == [f.dinode EXCEPT ![i] = f.slot[s].core]
<1>1. i \in Inums /\ DiskSound(D, f) /\ D[i] = f.slot[s].core
  BY DEF Draft
<1> HIDE DEF i, D
<1> QED BY <1>1, OwnedMarked

\* The block b becomes one of the inode in slot s.
LEMMA DraftGets ==
  ASSUME NEW f, NEW s, Draft(f, s), NEW g, Only(f, g, s),
         NEW b \in AllBlocks \ {0}, b \notin f.bitmap, g.bitmap = f.bitmap \cup {b},
         DOMAIN g.blk = AllBlocks,
         GetsBlock(f, f.slot[s].core, g, g.slot[s].core, b),
         \A a \in AllBlocks \ (Owned(f, f.slot[s].core) \cup {b}) : g.blk[a] = f.blk[a]
  PROVE  Draft(g, s)
<1> DEFINE i == f.slot[s].inum
           core == f.slot[s].core
           c == g.slot[s].core
           D == [f.dinode EXCEPT ![i] = core]
           E == [g.dinode EXCEPT ![i] = c]
<1>1. /\ i \in Inums /\ DiskSound(D, f) /\ D[i] = core /\ s \in Slots
      /\ f.dinode \in [Inums -> Cores] /\ core.type # "free"
  BY DEF Draft
<1>2. E = [D EXCEPT ![i] = c] /\ g.slot[s].inum = i /\ c.type = core.type /\ FsShape(g)
      /\ g.dinode = f.dinode
  BY <1>1 DEF Only
<1>3. /\ c \in Cores /\ InodeSound(g, c)
      /\ Owned(g, c) \ {0} = (Owned(f, core) \cup {b}) \ {0}
  BY DEF GetsBlock
<1>4. 0 \in f.bitmap /\ \A a \in Owned(f, core) : a \in f.bitmap
  BY <1>1, OwnedMarked
<1>4a. f.bitmap \subseteq AllBlocks
  BY <1>1, MarkedIn
<1> HIDE DEF i, core, c, D, E
<1>5. \A a \in f.bitmap \ Owned(f, D[i]) : g.blk[a] = f.blk[a]
  BY <1>1, <1>4a DEF core
<1>6. \A a \in Owned(g, c) \ {0} : a \in Owned(f, D[i]) \/ a \notin f.bitmap
  BY <1>1, <1>3
<1>7. \A a : a \in g.bitmap <=> \/ a = 0 \/ (a \in f.bitmap /\ a \notin Owned(f, D[i]))
                                \/ a \in Owned(g, c)
  BY <1>1, <1>3, <1>4
<1>8. DiskSound([D EXCEPT ![i] = c], g)
  BY <1>1, <1>3, <1>5, <1>6, <1>7, OneInode
<1>9. DiskSound(E, g)
  BY <1>2, <1>8
<1> QED BY <1>1, <1>2, <1>9 DEF Draft, E, c, core, i

\* balloc() of a free block.
LEMMA Balloc ==
  ASSUME NEW f, FsShape(f), Candidates(f) # {}, DOMAIN f.blk = AllBlocks,
         NEW b, b = Allocated(f), NEW g, g = balloc(f)
  PROVE  /\ FsShape(g) /\ g.panic = f.panic /\ g.slot = f.slot /\ g.dinode = f.dinode
         /\ g.bitmap = f.bitmap \cup {b} /\ g.blk = [f.blk EXCEPT ![b] = Zeroed]
<1>1. g = [f EXCEPT !.bitmap = @ \cup {b}, !.hint = b, !.blk[b] = Zeroed]
  BY DEF balloc, Allocated
<1> QED BY <1>1 DEF FsShape

LEMMA BallocFails ==
  ASSUME NEW f, FsShape(f), Candidates(f) = {}
  PROVE  balloc(f).panic # "none"
BY PanicKeeps DEF balloc

LEMMA IndirectDraft ==
  ASSUME NEW f, NEW s, Draft(f, s), NEW bn \in 1 .. MAXFILE,
         NEW g, g = WithIndirect(f, s, bn), g.panic = "none"
  PROVE  /\ Draft(g, s) /\ Only(f, g, s)
         /\ bn > NDIRECT => Indirect(g.slot[s].core) # 0
         /\ \A m \in 1 .. MAXFILE : BlockOf(g, g.slot[s].core, m) = BlockOf(f, f.slot[s].core, m)
<1> DEFINE core == f.slot[s].core
           h == balloc(f)
           b == Allocated(f)
           zero == [i \in 1 .. NINDIRECT |-> 0]
<1>0. /\ core \in Cores /\ InodeSound(f, core) /\ DOMAIN f.blk = AllBlocks /\ FsShape(f)
      /\ s \in Slots /\ NDIRECT \in Nat /\ core.type # "free"
      /\ \A a \in Owned(f, core) : a \in f.bitmap
  BY DraftCore, Sizes DEF Draft
<1>1. CASE bn <= NDIRECT \/ core.addrs[NDIRECT + 1] # 0
  <2>1. g = f
    BY <1>1 DEF WithIndirect
  <2>2. Only(f, f, s)
    BY <1>0 DEF Only
  <2>3. bn > NDIRECT => Indirect(core) # 0
    BY <1>0, <1>1 DEF Indirect
  <2> QED BY <2>1, <2>2, <2>3
<1>2. CASE ~(bn <= NDIRECT) /\ core.addrs[NDIRECT + 1] = 0
  <2>1. Candidates(f) # {}
    <3>1. SUFFICES ASSUME Candidates(f) = {} PROVE FALSE
      OBVIOUS
    <3>2. g = balloc(f)
      BY <1>2, <3>1 DEF WithIndirect
    <3> QED BY <1>0, <3>1, <3>2, BallocFails
  <2>2. g = [h EXCEPT !.slot[s].core.addrs[NDIRECT + 1] = b, !.blk[b] = zero]
    BY <1>2, <2>1 DEF WithIndirect, SetIndirect
  <2>3. /\ FsShape(h) /\ h.panic = f.panic /\ h.slot = f.slot /\ h.dinode = f.dinode
        /\ h.bitmap = f.bitmap \cup {b} /\ h.blk = [f.blk EXCEPT ![b] = Zeroed]
    BY <1>0, <2>1, Balloc
  <2>4. b \in AllBlocks \ {0} /\ b \notin f.bitmap
    BY <2>1, NewBlock DEF Draft
  <2> HIDE DEF h, b, zero
  <2>5. Keeps(h, g)
    BY <2>2, <2>3 DEF Keeps, FsShape
  <2>6. /\ g.bitmap = h.bitmap /\ g.blk = [h.blk EXCEPT ![b] = zero]
        /\ g.dinode = h.dinode /\ g.panic = h.panic
        /\ \A x \in Slots : /\ g.slot[x].inum = h.slot[x].inum /\ g.slot[x].ref = h.slot[x].ref
                            /\ g.slot[x].valid = h.slot[x].valid
                            /\ x # s => g.slot[x].core = h.slot[x].core
        /\ g.slot[s].core = [h.slot[s].core EXCEPT !.addrs[NDIRECT + 1] = b]
    BY <1>0, <2>2, <2>3 DEF FsShape
  <2> DEFINE c == [core EXCEPT !.addrs[NDIRECT + 1] = b]
  <2>7. g.slot[s].core = c
    BY <2>3, <2>6
  <2>8. c.type = core.type /\ c.size = core.size /\ c.nlink = core.nlink
    BY <1>0 DEF Cores
  <2>9. Only(f, g, s)
    BY <2>3, <2>5, <2>6, <2>7, <2>8, KeepsShape DEF Only
  <2>10. g.blk = [f.blk EXCEPT ![b] = zero]
    BY <1>0, <2>3, <2>4, <2>6
  <2> HIDE DEF c, core
  <2>11. b \notin Owned(f, core)
    BY <1>0, <2>4
  <2>12. /\ GetsBlock(f, core, g, c, b)
         /\ \A m \in 1 .. MAXFILE : BlockOf(g, c, m) = BlockOf(f, core, m)
    BY <1>0, <1>2, <2>4, <2>10, <2>11, IndirectBlock DEF c, zero
  <2>13. Draft(g, s)
    BY <1>0, <2>3, <2>4, <2>6, <2>7, <2>9, <2>10, <2>12, DraftGets DEF core
  <2>14. Indirect(c) = b
    BY <1>0, Sizes DEF Indirect, c, Cores
  <2> QED BY <2>4, <2>7, <2>9, <2>12, <2>13, <2>14 DEF core
<1> QED BY <1>1, <1>2

LEMMA NextDraft ==
  ASSUME NEW f, NEW s, Draft(f, s), NEW bn \in 1 .. MAXFILE,
         BlockOf(f, f.slot[s].core, bn) = 0, bn > NDIRECT => Indirect(f.slot[s].core) # 0,
         NEW g, g = NextBlock(f, s, bn), g.panic = "none"
  PROVE  Draft(g, s) /\ Only(f, g, s) /\ BlockOf(g, g.slot[s].core, bn) # 0
<1> DEFINE core == f.slot[s].core
           h == balloc(f)
           b == Allocated(f)
           a == Indirect(core)
<1>0. /\ core \in Cores /\ InodeSound(f, core) /\ DOMAIN f.blk = AllBlocks /\ FsShape(f)
      /\ s \in Slots /\ NDIRECT \in Nat /\ core.type # "free"
      /\ \A x \in Owned(f, core) : x \in f.bitmap
  BY DraftCore, Sizes DEF Draft
<1>1. Candidates(f) # {}
  <2>1. SUFFICES ASSUME Candidates(f) = {} PROVE FALSE
    OBVIOUS
  <2>2. g = balloc(f)
    BY <2>1 DEF NextBlock
  <2> QED BY <1>0, <2>1, <2>2, BallocFails
<1>2. g = SetAddress(h, s, bn, b)
  BY <1>1 DEF NextBlock
<1>3. /\ FsShape(h) /\ h.panic = f.panic /\ h.slot = f.slot /\ h.dinode = f.dinode
      /\ h.bitmap = f.bitmap \cup {b} /\ h.blk = [f.blk EXCEPT ![b] = Zeroed]
  BY <1>0, <1>1, Balloc
<1>4. b \in AllBlocks \ {0} /\ b \notin f.bitmap /\ b \notin Owned(f, core)
  BY <1>0, <1>1, NewBlock DEF Draft
<1> HIDE DEF h, b
<1>5. CASE bn <= NDIRECT
  <2>0. bn \in 1 .. NDIRECT
    BY <1>5, Sizes
  <2>1. g = [h EXCEPT !.slot[s].core.addrs[bn] = b]
    BY <1>2, <1>5 DEF SetAddress
  <2>2. Keeps(h, g)
    BY <1>3, <2>1 DEF Keeps, FsShape
  <2>3. /\ g.bitmap = h.bitmap /\ g.blk = h.blk /\ g.dinode = h.dinode /\ g.panic = h.panic
        /\ \A x \in Slots : /\ g.slot[x].inum = h.slot[x].inum /\ g.slot[x].ref = h.slot[x].ref
                            /\ g.slot[x].valid = h.slot[x].valid
                            /\ x # s => g.slot[x].core = h.slot[x].core
        /\ g.slot[s].core = [h.slot[s].core EXCEPT !.addrs[bn] = b]
    BY <1>0, <1>3, <2>1 DEF FsShape
  <2> DEFINE c == [core EXCEPT !.addrs[bn] = b]
  <2>4. g.slot[s].core = c
    BY <1>3, <2>3
  <2>5. c.type = core.type /\ c.size = core.size /\ c.nlink = core.nlink
    BY <1>0 DEF Cores
  <2>6. Only(f, g, s)
    BY <1>3, <2>2, <2>3, <2>4, <2>5, KeepsShape DEF Only
  <2>7. g.blk = [f.blk EXCEPT ![b] = Zeroed] /\ g.bitmap = f.bitmap \cup {b}
    BY <1>3, <2>3
  <2>8. core.addrs[bn] = 0
    BY <1>5 DEF BlockOf
  <2> HIDE DEF c, core
  <2>9. GetsBlock(f, core, g, c, b) /\ BlockOf(g, c, bn) = b
    BY <1>0, <1>4, <2>0, <2>7, <2>8, DirectBlock DEF c
  <2>10. Draft(g, s)
    BY <1>0, <1>4, <2>4, <2>6, <2>7, <2>9, DraftGets DEF core
  <2> QED BY <1>4, <2>4, <2>6, <2>9, <2>10
<1>6. CASE ~(bn <= NDIRECT)
  <2>0. bn \in NDIRECT + 1 .. MAXFILE /\ a # 0 /\ bn - NDIRECT \in 1 .. NINDIRECT
    BY <1>6, Sizes
  <2>1. h.slot[s].core.addrs[NDIRECT + 1] = a
    BY <1>3 DEF Indirect
  <2>2. g = [h EXCEPT !.blk[a][bn - NDIRECT] = b]
    BY <1>2, <1>6, <2>1 DEF SetAddress
  <2> HIDE DEF a
  <2>3. Keeps(h, g)
    BY <1>3, <2>2 DEF Keeps, FsShape
  <2>4. /\ g.bitmap = h.bitmap /\ g.slot = h.slot /\ g.dinode = h.dinode /\ g.panic = h.panic
        /\ g.blk = [h.blk EXCEPT ![a][bn - NDIRECT] = b]
    BY <1>0, <1>3, <2>2 DEF FsShape
  <2>5. Only(f, g, s)
    BY <1>3, <2>3, <2>4, KeepsShape DEF Only
  <2>6. /\ g.bitmap = f.bitmap \cup {b} /\ g.slot = f.slot
        /\ g.blk = [f.blk EXCEPT ![b] = Zeroed, ![a][bn - NDIRECT] = b]
    BY <1>3, <2>4
  <2> HIDE DEF core
  <2>7. GetsBlock(f, core, g, core, b) /\ BlockOf(g, core, bn) = b
    BY <1>0, <1>4, <2>0, <2>6, EntryBlock DEF a, core
  <2>8. a \in Owned(f, core)
    BY DEF Owned, a
  <2>9. \A x \in AllBlocks \ (Owned(f, core) \cup {b}) : g.blk[x] = f.blk[x]
    BY <1>0, <2>6, <2>8
  <2>10. DOMAIN g.blk = AllBlocks
    BY <1>0, <2>6
  <2>11. Draft(g, s)
    BY <1>4, <2>5, <2>6, <2>7, <2>9, <2>10, DraftGets DEF core
  <2> QED BY <1>4, <2>5, <2>6, <2>7, <2>11 DEF core
<1> QED BY <1>5, <1>6

LEMMA MapDraft ==
  ASSUME NEW f, NEW s, Draft(f, s), NEW bn \in 1 .. MAXFILE,
         NEW g, g = bmap(f, s, bn), g.panic = "none"
  PROVE  Draft(g, s) /\ Only(f, g, s) /\ BlockOf(g, g.slot[s].core, bn) # 0
<1>1. CASE BlockOf(f, f.slot[s].core, bn) # 0
  <2>1. g = f
    BY <1>1 DEF bmap
  <2>2. Only(f, f, s)
    BY DEF Only, Draft
  <2> QED BY <1>1, <2>1, <2>2
<1>2. CASE BlockOf(f, f.slot[s].core, bn) = 0
  <2> DEFINE h == WithIndirect(f, s, bn)
  <2>1. g = NextBlock(h, s, bn)
    BY <1>2 DEF bmap
  <2>2. FsShape(h) /\ h.panic = "none"
    <3>1. FsShape(f)
      BY DEF Draft
    <3>2. Keeps(f, h)
      <4>1. Keeps(f, balloc(f)) /\ Keeps(f, f)
        BY <3>1, AllocKeeps DEF Keeps
      <4>2. Keeps(balloc(f), SetIndirect(balloc(f), s, Allocated(f)))
        BY <4>1, KeepsShape, CoreKeeps DEF SetIndirect
      <4> QED BY <4>1, <4>2, KeepsKeeps DEF WithIndirect
    <3>3. Keeps(h, NextBlock(h, s, bn))
      <4> HIDE DEF h
      <4>1. FsShape(h)
        BY <3>2, KeepsShape
      <4>2. Keeps(h, balloc(h))
        BY <4>1, AllocKeeps
      <4>3. FsShape(balloc(h))
        BY <4>2, KeepsShape
      <4>4. Keeps(balloc(h), SetAddress(balloc(h), s, bn, Allocated(h)))
        BY <4>3, CoreKeeps, DiskKeeps DEF SetAddress
      <4> QED BY <4>2, <4>4, KeepsKeeps DEF NextBlock
    <3> QED BY <2>1, <3>2, <3>3 DEF Keeps
  <2> HIDE DEF h
  <2>3. /\ Draft(h, s) /\ Only(f, h, s)
        /\ bn > NDIRECT => Indirect(h.slot[s].core) # 0
        /\ BlockOf(h, h.slot[s].core, bn) = 0
    BY <1>2, <2>2, IndirectDraft DEF h
  <2>4. Draft(g, s) /\ Only(h, g, s) /\ BlockOf(g, g.slot[s].core, bn) # 0
    BY <2>1, <2>3, NextDraft
  <2> QED BY <2>3, <2>4, OnlyOnly
<1> QED BY <1>1, <1>2

\* The offset off of the inode has a block, and unit may be stored there.
Storable(f, s, off, unit) ==
  /\ Draft(f, s) /\ off \in Nat /\ off < MAXFILE * UPB
  /\ BlockOf(f, f.slot[s].core, off \div UPB + 1) # 0
  /\ f.slot[s].core.type = "dir" => unit.inum \in {0} \cup Inums

LEMMA StoreDraft ==
  ASSUME NEW f, NEW s, NEW off, NEW unit,
         Storable(f, s, off, unit), NEW g, g = Store(f, s, off, unit)
  PROVE  /\ Draft(g, s) /\ Only(f, g, s) /\ g.panic = f.panic
         /\ g.slot = f.slot
         /\ \A m : BlockOf(g, f.slot[s].core, m) = BlockOf(f, f.slot[s].core, m)
<1> DEFINE core == f.slot[s].core
           bn == off \div UPB + 1
           u == (off % UPB) + 1
           b == BlockOf(f, core, bn)
           i == f.slot[s].inum
           D == [f.dinode EXCEPT ![i] = core]
<1>0. /\ core \in Cores /\ InodeSound(f, core) /\ DOMAIN f.blk = AllBlocks /\ FsShape(f)
      /\ s \in Slots /\ core.type # "free" /\ i \in Inums /\ f.dinode \in [Inums -> Cores]
      /\ \A x \in Owned(f, core) : x \in f.bitmap
      /\ DiskSound(D, f)
  BY DraftCore DEF Draft, Storable
<1>1. bn \in 1 .. MAXFILE /\ u \in 1 .. UPB
  BY InUnits DEF Storable
<1>2. g = [f EXCEPT !.blk[b][u] = unit]
  BY DEF Store
<1> HIDE DEF bn, u
<1>3. /\ g.bitmap = f.bitmap /\ g.slot = f.slot /\ g.dinode = f.dinode /\ g.panic = f.panic
      /\ g.blk = [f.blk EXCEPT ![b][u] = unit] /\ FsShape(g)
  BY <1>0, <1>2 DEF FsShape
<1>4. b # 0
  BY DEF bn, Storable
<1>5. core.type = "dir" => unit.inum \in {0} \cup Inums
  BY DEF Storable
<1>6. Only(f, g, s)
  BY <1>3 DEF Only
<1> HIDE DEF core
<1>7. /\ InodeSound(g, core) /\ Owned(g, core) = Owned(f, core)
      /\ \A m : BlockOf(g, core, m) = BlockOf(f, core, m)
  <2>1. core \in Cores /\ InodeSound(f, core) /\ DOMAIN f.blk = AllBlocks
    BY <1>0
  <2>2. IsStore(f, g, core, bn, u, unit)
    BY <1>3, <1>4, <1>5 DEF IsStore
  <2> HIDE DEF b
  <2> QED BY <1>1, <2>1, <2>2, StoreUnit
<1>8. b \in Owned(f, core)
  BY <1>0, <1>1, <1>4, BlockFound DEF Owned
<1>9. DOMAIN g.blk = AllBlocks /\ \A x \in AllBlocks : x # b => g.blk[x] = f.blk[x]
  BY <1>0, <1>3
<1> HIDE DEF b, i, D
<1>10. f.bitmap \subseteq AllBlocks
  BY <1>0, MarkedIn
<1>11. D[i] = core /\ [D EXCEPT ![i] = core] = D
  BY <1>0 DEF D
<1>12. \A x \in f.bitmap \ Owned(f, D[i]) : g.blk[x] = f.blk[x]
  BY <1>8, <1>9, <1>10, <1>11
<1>13. 0 \in f.bitmap
  BY <1>0, OwnedMarked
<1>14. \A x : x \in g.bitmap <=> \/ x = 0 \/ (x \in f.bitmap /\ x \notin Owned(f, D[i]))
                                 \/ x \in Owned(g, core)
  BY <1>0, <1>3, <1>7, <1>11, <1>13
<1>15. DiskSound([D EXCEPT ![i] = core], g)
  <2>1. \A x \in Owned(g, core) \ {0} : x \in Owned(f, D[i]) \/ x \notin f.bitmap
    BY <1>7, <1>11
  <2> QED BY <1>0, <1>7, <1>9, <1>12, <1>14, <2>1, OneInode
<1>16. Draft(g, s)
  BY <1>0, <1>3, <1>11, <1>15 DEF Draft, D, core, i
<1> QED BY <1>3, <1>6, <1>7, <1>16 DEF core

\* writei() of one unit, at the end of the contents or before it.
LEMMA WriteGrows ==
  ASSUME NEW f, Good(f), NEW s, Ready(f, s),
         NEW off \in Nat, off <= f.slot[s].core.size, off < MAXFILE * UPB,
         NEW unit, f.slot[s].core.type = "dir" => unit.inum \in {0} \cup Inums,
         NEW g, g = writei(f, s, off, unit)
  PROVE  Grows(f, g)
<1> DEFINE core == f.slot[s].core
           i == f.slot[s].inum
           bn == off \div UPB + 1
           h == bmap(f, s, bn)
           k == Store(h, s, off, unit)
<1>0. /\ i \in Inums /\ core = f.dinode[i] /\ core \in Cores /\ core.type # "free"
      /\ InodeSound(f, core) /\ FsShape(f) /\ s \in Slots
      /\ f.dinode \in [Inums -> Cores] /\ DiskSound(f.dinode, f)
  BY ReadyCore DEF Good, Ready, DiskSound
<1>1. bn \in 1 .. MAXFILE
  BY InUnits
<1>2. Draft(f, s)
  <2>1. [f.dinode EXCEPT ![i] = core] = f.dinode
    BY <1>0
  <2> QED BY <1>0, <2>1 DEF Draft
<1>3. g = Stored(h, s, off, unit)
  BY DEF writei
<1>4. CASE h.panic # "none"
  BY <1>3, <1>4 DEF Stored, Grows
<1>5. CASE h.panic = "none"
  <2>1. Draft(h, s) /\ Only(f, h, s) /\ BlockOf(h, h.slot[s].core, bn) # 0
    BY <1>1, <1>2, <1>5, MapDraft
  <2>2. h.slot[s].core.type = core.type /\ h.slot[s].core.size = core.size
    BY <2>1 DEF Only
  <2> HIDE DEF h
  <2>3. /\ Draft(k, s) /\ Only(h, k, s) /\ k.panic = h.panic /\ k.slot = h.slot
        /\ \A m : BlockOf(k, h.slot[s].core, m) = BlockOf(h, h.slot[s].core, m)
    <3>1. h.slot[s].core.type = "dir" => unit.inum \in {0} \cup Inums
      BY <2>2 DEF core
    <3>2. Storable(h, s, off, unit)
      BY <2>1, <3>1 DEF bn, Storable
    <3>3. k = Store(h, s, off, unit)
      OBVIOUS
    <3> HIDE DEF k, bn, core
    <3> QED BY <3>2, <3>3, StoreDraft
  <2>4. Only(f, k, s)
    BY <2>1, <2>3, OnlyOnly
  <2>5. g = IF off < h.slot[s].core.size THEN k
            ELSE iupdate([k EXCEPT !.slot[s].core.size = off + 1], s)
    BY <1>3, <1>5 DEF Stored
  <2> HIDE DEF k
  <2>6. core.size \in Nat
    BY <1>0, Sizes DEF Cores
  <2>7. CASE off < core.size
    <3>1. off + 1 \in 1 .. core.size
      BY <2>6, <2>7
    <3>2. BlockOf(f, core, ((off + 1) - 1) \div UPB + 1) # 0
      BY <1>0, <3>1 DEF InodeSound
    <3>3. (off + 1) - 1 = off
      OBVIOUS
    <3>4. h = f
      BY <3>2, <3>3 DEF h, bmap
    <3>5. g = k
      BY <2>2, <2>5, <2>7
    <3>6. g.slot[s].core = core /\ g.dinode = f.dinode
      BY <2>3, <2>4, <3>4, <3>5 DEF Only
    <3>7. DiskSound(g.dinode, g)
      BY <1>0, <2>3, <2>4, <3>5, <3>6 DEF Draft, Only
    <3>8. g.dinode = [f.dinode EXCEPT ![i] = core]
      BY <1>0, <3>6
    <3>9. Writes(f, g, s, core)
      BY <2>4, <3>5, <3>6, <3>8 DEF Writes, Only
    <3> QED BY <1>0, <3>7, <3>9, Updated
  <2>8. CASE ~(off < core.size)
    <3> DEFINE d == k.slot[s].core
               c == [d EXCEPT !.size = off + 1]
               e == [k EXCEPT !.slot[s].core.size = off + 1]
               D == [k.dinode EXCEPT ![i] = d]
    <3>0. off = core.size
      BY <2>6, <2>8
    <3>1. /\ d \in Cores /\ InodeSound(k, d) /\ DOMAIN k.blk = AllBlocks /\ FsShape(k)
          /\ k.slot[s].inum = i /\ d.type = core.type /\ d.size = core.size
          /\ DiskSound(D, k) /\ k.dinode = f.dinode
      BY <2>3, <2>4, DraftCore DEF Draft, Only
    <3>2. c \in Cores /\ c.addrs = d.addrs /\ c.type = core.type /\ c.size = off + 1
      <4> DEFINE M == MAXFILE * UPB
      <4>1. M \in Nat /\ off < M
        BY Sizes
      <4> HIDE DEF M
      <4>2. off + 1 \in 0 .. M
        BY <4>1
      <4> QED BY <3>1, <4>2 DEF Cores, M
    <3>3. /\ e.panic = k.panic /\ e.blk = k.blk /\ e.bitmap = k.bitmap /\ e.dinode = k.dinode
          /\ \A x \in Slots : /\ e.slot[x].inum = k.slot[x].inum /\ e.slot[x].ref = k.slot[x].ref
                              /\ e.slot[x].valid = k.slot[x].valid
                              /\ x # s => e.slot[x].core = k.slot[x].core
          /\ e.slot[s].core = c
      BY <1>0, <3>1 DEF FsShape
    <3>4. FsShape(e)
      BY <3>1, CoreKeeps, KeepsShape
    <3>5. g = iupdate(e, s)
      BY <2>2, <2>5, <2>8
    <3> HIDE DEF e
    <3>6. /\ g.panic = e.panic /\ g.blk = k.blk /\ g.bitmap = k.bitmap
          /\ g.slot = e.slot /\ g.dinode = [f.dinode EXCEPT ![i] = c] /\ FsShape(g)
      <4>1. FsShape(g)
        BY <3>4, <3>5, UpdateKeeps, KeepsShape
      <4>2. e.slot[s].inum = i
        BY <1>0, <3>1, <3>3
      <4> QED BY <3>1, <3>3, <3>4, <3>5, <4>1, <4>2 DEF FsShape, iupdate
    <3> HIDE DEF c, d
    <3>7. Writes(f, g, s, c)
      BY <2>3, <2>4, <3>3, <3>6 DEF Writes, Only
    <3>8. /\ Owned(k, c) = Owned(k, d) /\ DataBlocks(k, c) = DataBlocks(k, d) /\ Indirect(c) = Indirect(d)
          /\ \A bx : BlockOf(k, c, bx) = BlockOf(k, d, bx)
      BY <3>2, SameAddrs
    <3>9. InodeSound(k, c)
      <4>1. \A u \in 1 .. c.size : BlockOf(k, c, (u - 1) \div UPB + 1) # 0
        <5> TAKE u \in 1 .. c.size
        <5>1. CASE u \in 1 .. d.size
          BY <3>1, <3>8, <5>1 DEF InodeSound
        <5>2. CASE u \notin 1 .. d.size
          <6>1. u = off + 1
            BY <2>6, <3>0, <3>1, <3>2, <5>2
          <6>2. u - 1 = off
            BY <6>1
          <6>3. BlockOf(k, h.slot[s].core, bn) # 0 /\ h.slot[s].core = d
            BY <2>1, <2>3 DEF d
          <6> QED BY <3>8, <6>2, <6>3
        <5> QED BY <5>1, <5>2
      <4> QED BY <1>0, <3>1, <3>2, <3>8, <4>1 DEF InodeSound
    <3>10. InodeSound(g, c) /\ Owned(g, c) = Owned(k, c) /\ Owned(g, c) = Owned(k, d)
      <4>1. \A b \in Owned(k, c) \ {0} : g.blk[b] = k.blk[b]
        BY <3>6
      <4> QED BY <3>8, <3>9, <4>1, InodeFrame
    <3>11. D[i] = d /\ [D EXCEPT ![i] = c] = [f.dinode EXCEPT ![i] = c]
      BY <1>0, <3>1
    <3> HIDE DEF D, i, core
    <3>12. 0 \in k.bitmap /\ \A b \in Owned(k, d) : b \in k.bitmap
      BY <1>0, <3>1, <3>11, OwnedMarked
    <3>13. \A b : b \in g.bitmap <=> \/ b = 0 \/ (b \in k.bitmap /\ b \notin Owned(k, D[i]))
                                     \/ b \in Owned(g, c)
      BY <3>6, <3>10, <3>11, <3>12
    <3>14. DOMAIN g.blk = AllBlocks /\ \A b \in k.bitmap \ Owned(k, D[i]) : g.blk[b] = k.blk[b]
      BY <3>1, <3>6
    <3>15. \A b \in Owned(g, c) \ {0} : b \in Owned(k, D[i]) \/ b \notin k.bitmap
      BY <3>10, <3>11
    <3>16. DiskSound([D EXCEPT ![i] = c], g)
      BY <1>0, <3>1, <3>2, <3>10, <3>13, <3>14, <3>15, OneInode
    <3>17. DiskSound(g.dinode, g)
      BY <3>6, <3>11, <3>16
    <3>18. \A n \in Nat : n < f.slot[s].core.size => n < c.size
      BY <2>6, <3>0, <3>2 DEF core
    <3>19. c.type = f.slot[s].core.type
      BY <3>2 DEF core
    <3> QED BY <3>2, <3>7, <3>17, <3>18, <3>19, Updated
  <2> QED BY <2>7, <2>8
<1> QED BY <1>4, <1>5

-----------------------------------------------------------------------------
(* Directories *)

LEMMA EntriesAre ==
  ASSUME NEW f, Good(f), NEW s, Ready(f, s), NEW n, n = f.slot[s].core.size
  PROVE  /\ n \in Nat /\ n <= MAXFILE * UPB
         /\ DOMAIN Entries(f, s) = 1 .. n /\ Len(Entries(f, s)) = n
         /\ f.slot[s].core.type = "dir" =>
              \A u \in 1 .. n : Entries(f, s)[u].inum \in {0} \cup Inums
<1> DEFINE core == f.slot[s].core
           b(u) == BlockOf(f, core, (u - 1) \div UPB + 1)
           e == [u \in 1 .. n |-> f.blk[b(u)][((u - 1) % UPB) + 1]]
           M == MAXFILE * UPB
<1>1. core \in Cores /\ InodeSound(f, core)
  BY ReadyCore
<1>2. M \in Nat
  BY Sizes
<1>3. n \in 0 .. M
  BY <1>1 DEF Cores
<1>4. Entries(f, s) = e
  BY DEF Entries, Content
<1>5. DOMAIN e = 1 .. n /\ Len(e) = n
  <2> HIDE DEF M
  <2>1. n \in Nat
    BY <1>2, <1>3
  <2> HIDE DEF b
  <2> QED BY <2>1
<1>6. ASSUME core.type = "dir", NEW u \in 1 .. n
      PROVE  e[u].inum \in {0} \cup Inums
  <2> DEFINE off == u - 1
  <2>1. off \in Nat /\ off < M
    <3> HIDE DEF M
    <3> QED BY <1>2, <1>3
  <2>2. off \div UPB + 1 \in 1 .. MAXFILE /\ (off % UPB) + 1 \in 1 .. UPB
    <3> HIDE DEF off
    <3> QED BY <2>1, InUnits
  <2>3. b(u) # 0
    BY <1>1 DEF InodeSound
  <2>4. b(u) \in DataBlocks(f, core) \ {0}
    BY <1>1, <2>2, <2>3, BlockFound
  <2>5. DirBlock(f.blk[b(u)])
    BY <1>1, <1>6, <2>4 DEF InodeSound
  <2> HIDE DEF b
  <2>6. f.blk[b(u)][(off % UPB) + 1].inum \in {0} \cup Inums
    BY <2>2, <2>5 DEF DirBlock
  <2> QED BY <2>6
<1> HIDE DEF e
<1> QED BY <1>2, <1>3, <1>4, <1>5, <1>6

\* dirlookup() of a name that is there.
LEMMA LookupFinds ==
  ASSUME NEW f, Good(f), NEW s, Ready(f, s), f.slot[s].core.type = "dir",
         NEW name, NEW off, off = Offset(f, s, name), off # -1
  PROVE  off \in Nat /\ off < f.slot[s].core.size /\ InumAt(f, s, off) \in Inums
<1> DEFINE e == Entries(f, s)
           n == f.slot[s].core.size
           S == {u \in DOMAIN e : e[u].inum # 0 /\ e[u].name = name}
<1>1. n \in Nat /\ DOMAIN e = 1 .. n /\ \A u \in 1 .. n : e[u].inum \in {0} \cup Inums
  BY EntriesAre
<1>2. off = IF S = {} THEN -1 ELSE Min(S) - 1
  BY DEF Offset, dirlookup, First
<1> HIDE DEF e, n
<1>3. S # {} /\ S \subseteq Nat
  BY <1>1, <1>2
<1>4. Min(S) \in S
  BY <1>3, LeastIn
<1> DEFINE m == Min(S)
<1>5. m \in 1 .. n /\ e[m].inum \in Inums /\ off = m - 1
  BY <1>1, <1>2, <1>3, <1>4
<1> HIDE DEF m
<1>6. off \in Nat /\ off < n /\ off + 1 = m
  BY <1>1, <1>5
<1> QED BY <1>5, <1>6 DEF InumAt, e, n

LEMMA FreePlaceIn ==
  ASSUME NEW f, Good(f), NEW s, Ready(f, s), NEW off, off = FreePlace(Entries(f, s))
  PROVE  off \in Nat /\ off <= f.slot[s].core.size
<1> DEFINE e == Entries(f, s)
           n == f.slot[s].core.size
           S == {u \in DOMAIN e : e[u].inum = 0}
<1>1. n \in Nat /\ DOMAIN e = 1 .. n /\ Len(e) = n
  BY EntriesAre
<1>2. off = IF S = {} THEN Len(e) ELSE Min(S) - 1
  BY DEF FreePlace, First
<1> HIDE DEF e, n
<1>3. CASE S = {}
  BY <1>1, <1>2, <1>3 DEF n
<1>4. CASE S # {}
  <2>1. S \subseteq Nat
    BY <1>1
  <2>2. Min(S) \in S
    BY <1>4, <2>1, LeastIn
  <2> DEFINE m == Min(S)
  <2>3. m \in 1 .. n /\ off = m - 1
    BY <1>1, <1>2, <1>4, <2>2
  <2> HIDE DEF m
  <2> QED BY <1>1, <2>3 DEF n
<1> QED BY <1>3, <1>4

\* The directory d of f may be written.
IsDir(f, d) == Good(f) /\ Ready(f, d) /\ f.slot[d].core.type = "dir"

\* dirlink() of a name that is not there.
LEMMA EntryGrows ==
  ASSUME NEW f, NEW d, f.panic = "none" => IsDir(f, d), NEW name, NEW inum \in Inums,
         NEW g, g = AddEntry(f, d, name, inum)
  PROVE  Grows(f, g)
<1>1. CASE f.panic # "none"
  BY <1>1 DEF AddEntry, Grows
<1>2. CASE f.panic = "none"
  <2> DEFINE off == FreePlace(Entries(f, d))
             unit == [name |-> name, inum |-> inum]
  <2>1. g = PutEntry(f, d, off, unit)
    BY <1>2 DEF AddEntry
  <2>2. Good(f) /\ Ready(f, d) /\ unit.inum \in {0} \cup Inums
    BY <1>2 DEF IsDir
  <2>3. off \in Nat /\ off <= f.slot[d].core.size
    BY <2>2, FreePlaceIn
  <2> HIDE DEF off, unit
  <2>4. CASE off >= MAXFILE * UPB
    <3>1. g = Panic(f, "dirlink: write error")
      BY <2>1, <2>4 DEF PutEntry
    <3>2. g.panic # "none"
      BY <2>2, <3>1, PanicKeeps DEF Good
    <3> QED BY <3>2 DEF Grows
  <2>5. CASE ~(off >= MAXFILE * UPB)
    <3>1. g = writei(f, d, off, unit)
      BY <2>1, <2>5 DEF PutEntry
    <3>2. off < MAXFILE * UPB
      <4> DEFINE M == MAXFILE * UPB
      <4>1. M \in Nat
        BY Sizes
      <4> HIDE DEF M
      <4>2. off < M
        BY <2>3, <2>5, <4>1 DEF M
      <4> QED BY <4>2 DEF M
    <3> QED BY <2>2, <2>3, <3>1, <3>2, WriteGrows
  <2> QED BY <2>4, <2>5
<1> QED BY <1>1, <1>2

\* An inode without blocks, whatever its type.
LEMMA NoBlocks ==
  ASSUME NEW f, NEW core, core.addrs = FreeInode.addrs
  PROVE  /\ DataBlocks(f, core) = {0} /\ Owned(f, core) = {0} /\ Indirect(core) = 0
<1>1. FreeInode.addrs = [i \in 1 .. NDIRECT + 1 |-> 0]
  BY DEF FreeInode
<1>2. Indirect(core) = 0
  BY <1>1, Sizes DEF Indirect
<1>3. \A k \in 1 .. NDIRECT : core.addrs[k] = 0
  BY <1>1, Sizes
<1>4. 1 \in 1 .. NDIRECT
  BY Sizes
<1>5. DataBlocks(f, core) = {0}
  BY <1>2, <1>3, <1>4 DEF DataBlocks
<1> QED BY <1>2, <1>5 DEF Owned

LEMMA EmptySound ==
  ASSUME NEW f, NEW core, core.addrs = FreeInode.addrs, core.size = 0
  PROVE  InodeSound(f, core)
BY NoBlocks DEF InodeSound

FileTypes == {"file", "dir", "dev"}

Typed(f, i, type) == [f EXCEPT !.dinode[i] = [FreeInode EXCEPT !.type = type]]

\* An inode of f that has no type gets one.
LEMMA TypedGrows ==
  ASSUME NEW f, Good(f), NEW i \in FreeInums(f), NEW type \in FileTypes,
         NEW g, g = Typed(f, i, type)
  PROVE  Grows(f, g) /\ Good(g) /\ g.dinode[i].type = type /\ g.slot = f.slot /\ g.panic = f.panic
<1> DEFINE c == [FreeInode EXCEPT !.type = type]
<1>1. i \in Inums /\ f.dinode[i].type = "free" /\ FsShape(f) /\ RefsNat(f)
  BY DEF FreeInums, Good
<1>2. /\ DiskSound(f.dinode, f) /\ f.dinode \in [Inums -> Cores] /\ DOMAIN f.blk = AllBlocks
      /\ InodeSound(f, f.dinode[i])
  BY <1>1 DEF Good, DiskSound
<1>3. c \in Cores /\ c.type = type /\ c.addrs = FreeInode.addrs /\ c.size = 0
  <2> DEFINE M == MAXFILE * UPB
  <2>1. M \in Nat /\ 0 \in AllBlocks
    BY Sizes
  <2> HIDE DEF M
  <2>2. 0 \in 0 .. M
    BY <2>1
  <2> DEFINE A == [k \in 1 .. NDIRECT + 1 |-> 0]
  <2>3. A \in [1 .. NDIRECT + 1 -> AllBlocks]
    BY <2>1
  <2>4. FreeInode = [type |-> "free", nlink |-> 0, size |-> 0, addrs |-> A]
    BY DEF FreeInode
  <2> HIDE DEF A
  <2> QED BY <2>2, <2>3, <2>4 DEF Cores, FileTypes, M
<1> HIDE DEF c
<1>4. /\ FsShape(g) /\ g.slot = f.slot /\ g.blk = f.blk /\ g.bitmap = f.bitmap
      /\ g.panic = f.panic /\ g.dinode = [f.dinode EXCEPT ![i] = c]
  BY <1>1 DEF FsShape, c, Typed
<1>5. g.dinode[i] = c /\ \A j \in Inums : j # i => g.dinode[j] = f.dinode[j]
  BY <1>1, <1>2, <1>4
<1>6. Owned(f, f.dinode[i]) = {0}
  BY <1>1, <1>2, NoBlocks DEF InodeSound
<1>7. InodeSound(g, c) /\ Owned(g, c) = {0}
  BY <1>3, EmptySound, NoBlocks
<1>8. 0 \in f.bitmap
  BY <1>1, <1>2, OwnedMarked
<1>9. DiskSound([f.dinode EXCEPT ![i] = c], g)
  <2>1. \A b \in f.bitmap \ Owned(f, f.dinode[i]) : g.blk[b] = f.blk[b]
    BY <1>4
  <2>2. \A b \in Owned(g, c) \ {0} : b \in Owned(f, f.dinode[i]) \/ b \notin f.bitmap
    BY <1>7
  <2>3. \A b : b \in g.bitmap <=> \/ b = 0 \/ (b \in f.bitmap /\ b \notin Owned(f, f.dinode[i]))
                                  \/ b \in Owned(g, c)
    BY <1>4, <1>6, <1>7, <1>8
  <2>4. DOMAIN g.blk = AllBlocks
    BY <1>2, <1>4
  <2> DEFINE D == f.dinode
  <2>5. DiskSound(D, f) /\ i \in Inums /\ c \in Cores /\ InodeSound(g, c)
    BY <1>1, <1>2, <1>3, <1>7
  <2>6. \A b \in f.bitmap \ Owned(f, D[i]) : g.blk[b] = f.blk[b]
    BY <2>1
  <2>7. \A b \in Owned(g, c) \ {0} : b \in Owned(f, D[i]) \/ b \notin f.bitmap
    BY <2>2
  <2>8. \A b : b \in g.bitmap <=> \/ b = 0 \/ (b \in f.bitmap /\ b \notin Owned(f, D[i]))
                                  \/ b \in Owned(g, c)
    BY <2>3
  <2> HIDE DEF D
  <2>9. DiskSound([D EXCEPT ![i] = c], g)
    BY <2>4, <2>5, <2>6, <2>7, <2>8, OneInode
  <2> QED BY <2>9 DEF D
<1>10. RefsNat(g)
  BY <1>1, <1>4 DEF RefsNat
<1>11. CacheSound(g)
  <2>1. ASSUME NEW s \in Slots, f.slot[s].ref > 0, f.slot[s].valid
        PROVE  f.slot[s].inum \in Inums /\ f.slot[s].inum # i
    BY <1>1, <2>1 DEF Good, CacheSound
  <2> QED BY <1>4, <1>5, <2>1 DEF Good, CacheSound
<1>12. Good(g)
  BY <1>4, <1>9, <1>10, <1>11 DEF Good
<1>13. ASSUME NEW s \in Slots, f.slot[s].ref > 0 PROVE Steady(f, g, s)
  <2>1. f.slot[s].inum \in Inums
    BY <1>13 DEF Good, CacheSound
  <2> QED BY <1>1, <1>4, <1>5, <2>1 DEF Steady
<1> QED BY <1>3, <1>4, <1>5, <1>12, <1>13 DEF Grows

LEMMA AllocGrows ==
  ASSUME NEW f, Good(f), NEW type \in FileTypes, NEW g, g = ialloc(f, type),
         NEW s, s = SlotOf(f, Min(FreeInums(f)))
  PROVE  /\ Grows(f, g)
         /\ g.panic = "none" => /\ s \in Slots /\ g.slot[s].ref > 0
                                /\ g.dinode[g.slot[s].inum].type = type
<1>1. CASE FreeInums(f) = {}
  <2>1. g = Panic(f, "ialloc: no inodes")
    BY <1>1 DEF ialloc
  <2>2. g.panic # "none"
    BY <2>1, PanicKeeps DEF Good
  <2> QED BY <2>2 DEF Grows
<1>2. CASE FreeInums(f) # {}
  <2> DEFINE i == Min(FreeInums(f))
             h == Typed(f, i, type)
  <2>1. FreeInums(f) \subseteq Nat
    BY SizesAssumption DEF FreeInums
  <2>2. i \in FreeInums(f)
    BY <1>2, <2>1, LeastIn
  <2>3. i \in Inums
    BY <2>2 DEF FreeInums
  <2>4. g = iget(h, i)
    BY <1>2 DEF ialloc, Typed
  <2> HIDE DEF i
  <2>a. h = Typed(f, i, type)
    OBVIOUS
  <2> HIDE DEF h
  <2>5. Grows(f, h) /\ Good(h) /\ h.dinode[i].type = type /\ h.slot = f.slot
    BY <2>2, <2>a, TypedGrows
  <2>6. s = SlotOf(h, i)
    BY <2>5 DEF i, SlotOf, Matching, Unused
  <2>7. /\ Grows(h, g)
        /\ g.panic = "none" => s \in Slots /\ g.slot[s].inum = i /\ g.slot[s].ref > 0
        /\ g.dinode = h.dinode
    BY <2>3, <2>4, <2>5, <2>6, GetGrows
  <2> QED BY <2>5, <2>7, GrowsGrows
<1> QED BY <1>1, <1>2

\* An inode of a slot in use is one of the disk.
LEMMA InumOf ==
  ASSUME NEW f, Good(f), NEW s, Ready(f, s)
  PROVE  f.slot[s].inum \in Inums /\ f.slot[s].core.nlink \in Int
<1>1. f.slot[s].inum \in Inums /\ f.slot[s].core \in Cores
  BY ReadyCore
<1> QED BY <1>1 DEF Cores

LEMMA DirStays ==
  ASSUME NEW f, NEW g, Grows(f, g), g.panic = "none", NEW d, IsDir(f, d)
  PROVE  IsDir(g, d) /\ g.slot[d].inum = f.slot[d].inum
BY ReadyStays DEF IsDir

\* The names that create() writes into a new directory.
LEMMA DotsGrow ==
  ASSUME NEW f, NEW s, NEW d, IsDir(f, s), IsDir(f, d), NEW g, g = WithDots(f, s, d)
  PROVE  Grows(f, g)
<1> DEFINE v == f.slot[d].core.nlink + 1
           h == iupdate([f EXCEPT !.slot[d].core.nlink = v], d)
           k == AddEntry(h, s, ".", f.slot[s].inum)
           m == AddEntry(k, s, "..", f.slot[d].inum)
<1>1. g = m
  BY DEF WithDots
<1>2. Good(f) /\ Ready(f, d) /\ Ready(f, s)
  BY DEF IsDir
<1>3. v \in Int /\ f.slot[s].inum \in Inums /\ f.slot[d].inum \in Inums
  BY <1>2, InumOf
<1>4. Grows(f, h)
  <2> HIDE DEF v
  <2> QED BY <1>2, <1>3, LinksGrow
<1> HIDE DEF h
<1>5. h.panic = "none" => IsDir(h, s)
  BY <1>4, DirStays
<1>6. Grows(h, k)
  BY <1>3, <1>5, EntryGrows
<1> HIDE DEF k
<1>7. Grows(f, k)
  BY <1>4, <1>6, GrowsGrows
<1>8. k.panic = "none" => IsDir(k, s)
  BY <1>7, DirStays
<1>9. Grows(k, m)
  BY <1>3, <1>8, EntryGrows
<1> HIDE DEF m
<1> QED BY <1>1, <1>7, <1>9, GrowsGrows

LEMMA NewInodeGrows ==
  ASSUME NEW f, NEW s, NEW d, IsDir(f, d), Ready(f, s), NEW type, f.slot[s].core.type = type,
         NEW name, NEW g, g = NewInode(f, s, d, name, type)
  PROVE  Grows(f, g)
<1> DEFINE h == iupdate([f EXCEPT !.slot[s].core.nlink = 1], s)
           k == IF type = "dir" THEN WithDots(h, s, d) ELSE h
           m == AddEntry(k, d, name, f.slot[s].inum)
<1>1. g = m
  BY DEF NewInode
<1>2. Good(f) /\ FsShape(f)
  BY DEF IsDir, Good
<1>3. f.slot[s].inum \in Inums
  BY <1>2, InumOf
<1>4. Grows(f, h)
  BY <1>2, LinksGrow
<1>5. FsShape(h)
  BY <1>2, CoreKeeps, UpdateKeeps, KeepsShape
<1> HIDE DEF h
<1>6. CASE h.panic # "none"
  <2>1. Keeps(h, k)
    BY <1>5, DotsKeep DEF Keeps
  <2>2. FsShape(k)
    BY <2>1, KeepsShape
  <2> HIDE DEF k
  <2>3. Keeps(k, m)
    BY <2>2, EntryKeeps
  <2> HIDE DEF m
  <2> QED BY <1>1, <1>6, <2>1, <2>3 DEF Keeps, Grows
<1>7. CASE h.panic = "none"
  <2>1. IsDir(h, d) /\ Ready(h, s) /\ h.slot[s].core.type = type /\ Good(h)
    BY <1>4, <1>7, DirStays, ReadyStays
  <2>2. Grows(h, k)
    BY <2>1, DotsGrow, GrowsSelf DEF IsDir
  <2> HIDE DEF k
  <2>3. Grows(f, k)
    BY <1>4, <2>2, GrowsGrows
  <2>4. k.panic = "none" => IsDir(k, d)
    BY <2>3, DirStays
  <2>5. Grows(k, m)
    BY <1>3, <2>4, EntryGrows
  <2> HIDE DEF m
  <2> QED BY <1>1, <2>3, <2>5, GrowsGrows
<1> QED BY <1>6, <1>7

-----------------------------------------------------------------------------
(* iput() *)

\* What is left of f once the inode in slot s is free.
Freed(f, g, s) ==
  LET c == [f.slot[s].core EXCEPT !.addrs = FreeInode.addrs, !.size = 0, !.type = "free"] IN
  /\ FsShape(g) /\ g.panic = f.panic
  /\ g.blk = f.blk /\ g.bitmap = f.bitmap \ (Owned(f, f.slot[s].core) \ {0})
  /\ g.dinode = [f.dinode EXCEPT ![f.slot[s].inum] = c]
  /\ \A x \in Slots : /\ g.slot[x].inum = f.slot[x].inum /\ g.slot[x].ref = f.slot[x].ref
                      /\ x # s => /\ g.slot[x].valid = f.slot[x].valid
                                  /\ g.slot[x].core = f.slot[x].core
  /\ g.slot[s].valid = FALSE

LEMMA PutFrees ==
  ASSUME NEW f, Good(f), NEW s, Ready(f, s), f.slot[s].core.nlink = 0, f.slot[s].ref = 1,
         NEW g, g = PutBody(f, s)
  PROVE  Freed(f, g, s) \/ g.panic # "none"
<1> DEFINE core == f.slot[s].core
           i == f.slot[s].inum
           ind == core.addrs[NDIRECT + 1]
           own == {core.addrs[k] : k \in 1 .. NDIRECT + 1}
                  \cup (IF ind = 0 THEN {} ELSE {f.blk[ind][k] : k \in 1 .. NINDIRECT})
           S == own \ {0}
           h == [f EXCEPT !.bitmap = @ \ S]
           k == [h EXCEPT !.slot[s].core.addrs = FreeInode.addrs, !.slot[s].core.size = 0]
           l == iupdate(k, s)
           m == [l EXCEPT !.slot[s].core.type = "free"]
           n == iupdate(m, s)
           r == [n EXCEPT !.slot[s].valid = FALSE]
           c == [core EXCEPT !.addrs = FreeInode.addrs, !.size = 0]
           e == [c EXCEPT !.type = "free"]
<1>1. /\ i \in Inums /\ core = f.dinode[i] /\ core \in Cores /\ FsShape(f) /\ s \in Slots
      /\ f.dinode \in [Inums -> Cores] /\ DiskSound(f.dinode, f) /\ f.slot[s].valid
  BY ReadyCore DEF Good, Ready, DiskSound
<1>2. own = Owned(f, core)
  <2>1. {core.addrs[j] : j \in 1 .. NDIRECT + 1} = {core.addrs[j] : j \in 1 .. NDIRECT} \cup {ind}
    BY Sizes
  <2> QED BY <2>1 DEF Owned, DataBlocks, Indirect
<1>3. S \subseteq f.bitmap
  BY <1>1, <1>2, OwnedMarked
<1>4. bfree(f, S) = h
  BY <1>3 DEF bfree
<1>5. g = [iupdate([itrunc(f, s) EXCEPT !.slot[s].core.type = "free"], s) EXCEPT !.slot[s].valid = FALSE]
  BY <1>1 DEF PutBody
<1>6. itrunc(f, s) = IF Overrun(f, s) # 0 THEN Panic(h, "idestart: block out of range") ELSE l
  <2> DEFINE q == bfree(f, S)
  <2>1. itrunc(f, s) = IF Overrun(f, s) # 0 THEN Panic(q, "idestart: block out of range")
                       ELSE iupdate([q EXCEPT !.slot[s].core.addrs = FreeInode.addrs,
                                              !.slot[s].core.size = 0], s)
    BY Zenon DEF itrunc
  <2>2. q = h
    BY <1>4
  <2> HIDE DEF q, h
  <2> QED BY <2>1, <2>2
<1>7. FsShape(h) /\ h.panic = f.panic /\ h.blk = f.blk /\ h.bitmap = f.bitmap \ S
      /\ h.dinode = f.dinode /\ h.slot = f.slot
  BY <1>1 DEF FsShape
<1> HIDE DEF h, S, own
<1>8. CASE Overrun(f, s) # 0
  <2> DEFINE a == itrunc(f, s)
             b == [a EXCEPT !.slot[s].core.type = "free"]
             d == iupdate(b, s)
  <2>1. FsShape(a) /\ a.panic # "none"
    BY <1>6, <1>7, <1>8, PanicKeeps, KeepsShape
  <2>2. g = [d EXCEPT !.slot[s].valid = FALSE]
    BY <1>5
  <2> HIDE DEF a
  <2>3. Keeps(a, b)
    BY <2>1, CoreKeeps
  <2>4. FsShape(b)
    BY <2>3, KeepsShape
  <2> HIDE DEF b
  <2>5. Keeps(b, d)
    BY <2>4, UpdateKeeps
  <2>6. FsShape(d)
    BY <2>5, KeepsShape
  <2> HIDE DEF d
  <2>7. Keeps(d, g)
    BY <2>2, <2>6 DEF Keeps, FsShape
  <2> QED BY <2>1, <2>3, <2>5, <2>7 DEF Keeps
<1>9. CASE ~(Overrun(f, s) # 0)
  <2>1. g = r
    BY <1>5, <1>6, <1>9
  <2>2. FsShape(k) /\ k.panic = h.panic /\ k.blk = h.blk /\ k.bitmap = h.bitmap /\ k.dinode = h.dinode
        /\ k.slot[s].core = c
        /\ \A x \in Slots : /\ k.slot[x].inum = h.slot[x].inum /\ k.slot[x].ref = h.slot[x].ref
                            /\ k.slot[x].valid = h.slot[x].valid
                            /\ x # s => k.slot[x].core = h.slot[x].core
    <3> DEFINE j == [h EXCEPT !.slot[s].core.addrs = FreeInode.addrs]
               v == [core EXCEPT !.addrs = FreeInode.addrs]
               w == FreeInode.addrs
    <3>0. k = [j EXCEPT !.slot[s].core.size = 0] /\ h.slot[s].core = core /\ c = [v EXCEPT !.size = 0]
      BY <1>7
    <3>1. j = [h EXCEPT !.slot[s].core.addrs = w] /\ v = [core EXCEPT !.addrs = w]
      OBVIOUS
    <3> HIDE DEF k, c, v, w, j, core
    <3>2. FsShape(j) /\ j.panic = h.panic /\ j.blk = h.blk /\ j.bitmap = h.bitmap /\ j.dinode = h.dinode
          /\ j.slot[s].core = v
          /\ \A x \in Slots : /\ j.slot[x].inum = h.slot[x].inum /\ j.slot[x].ref = h.slot[x].ref
                              /\ j.slot[x].valid = h.slot[x].valid
                              /\ x # s => j.slot[x].core = h.slot[x].core
      BY <1>1, <1>7, <3>0, <3>1 DEF FsShape
    <3>3. FsShape(k) /\ k.panic = j.panic /\ k.blk = j.blk /\ k.bitmap = j.bitmap /\ k.dinode = j.dinode
          /\ k.slot[s].core = [j.slot[s].core EXCEPT !.size = 0]
          /\ \A x \in Slots : /\ k.slot[x].inum = j.slot[x].inum /\ k.slot[x].ref = j.slot[x].ref
                              /\ k.slot[x].valid = j.slot[x].valid
                              /\ x # s => k.slot[x].core = j.slot[x].core
      BY <1>1, <3>0, <3>2 DEF FsShape
    <3> QED BY <3>0, <3>2, <3>3
  <2> HIDE DEF k, c
  <2>3. FsShape(l) /\ l.panic = k.panic /\ l.blk = k.blk /\ l.bitmap = k.bitmap /\ l.slot = k.slot
        /\ l.dinode = [k.dinode EXCEPT ![k.slot[s].inum] = k.slot[s].core]
    <3>1. FsShape(l)
      BY <2>2, UpdateKeeps, KeepsShape
    <3> QED BY <2>2, <3>1 DEF FsShape, iupdate
  <2> HIDE DEF l
  <2>4. FsShape(m) /\ m.panic = l.panic /\ m.blk = l.blk /\ m.bitmap = l.bitmap /\ m.dinode = l.dinode
        /\ m.slot[s].core = [l.slot[s].core EXCEPT !.type = "free"]
        /\ \A x \in Slots : /\ m.slot[x].inum = l.slot[x].inum /\ m.slot[x].ref = l.slot[x].ref
                            /\ m.slot[x].valid = l.slot[x].valid
                            /\ x # s => m.slot[x].core = l.slot[x].core
    <3>1. FsShape(m)
      BY <2>3, CoreKeeps, KeepsShape
    <3> QED BY <1>1, <2>3, <3>1 DEF FsShape
  <2> HIDE DEF m
  <2>5. FsShape(n) /\ n.panic = m.panic /\ n.blk = m.blk /\ n.bitmap = m.bitmap /\ n.slot = m.slot
        /\ n.dinode = [m.dinode EXCEPT ![m.slot[s].inum] = m.slot[s].core]
    <3>1. FsShape(n)
      BY <2>4, UpdateKeeps, KeepsShape
    <3> QED BY <2>4, <3>1 DEF FsShape, iupdate
  <2> HIDE DEF n
  <2>6. FsShape(r) /\ r.panic = n.panic /\ r.blk = n.blk /\ r.bitmap = n.bitmap /\ r.dinode = n.dinode
        /\ r.slot[s].valid = FALSE
        /\ \A x \in Slots : /\ r.slot[x].inum = n.slot[x].inum /\ r.slot[x].ref = n.slot[x].ref
                            /\ r.slot[x].core = n.slot[x].core
                            /\ x # s => r.slot[x].valid = n.slot[x].valid
    <3>1. FsShape(r)
      BY <2>5, SlotKeeps, KeepsShape
    <3> QED BY <1>1, <2>5, <3>1 DEF FsShape
  <2> HIDE DEF r
  <2>7. r.panic = f.panic /\ r.blk = f.blk
    BY <1>7, <2>2, <2>3, <2>4, <2>5, <2>6
  <2>8. r.bitmap = f.bitmap \ (Owned(f, core) \ {0})
    BY <1>2, <1>7, <2>2, <2>3, <2>4, <2>5, <2>6 DEF S
  <2>9. /\ \A x \in Slots : /\ r.slot[x].inum = f.slot[x].inum /\ r.slot[x].ref = f.slot[x].ref
                            /\ x # s => /\ r.slot[x].valid = f.slot[x].valid
                                        /\ r.slot[x].core = f.slot[x].core
    BY <1>7, <2>2, <2>3, <2>4, <2>5, <2>6
  <2>10. k.slot[s].inum = i /\ m.slot[s].inum = i /\ m.slot[s].core = e
    BY <1>1, <1>7, <2>2, <2>3, <2>4
  <2>11. l.dinode = [f.dinode EXCEPT ![i] = c]
    BY <1>7, <2>2, <2>3, <2>10
  <2>12. r.dinode = [[f.dinode EXCEPT ![i] = c] EXCEPT ![i] = e]
    BY <2>4, <2>5, <2>6, <2>10, <2>11
  <2>13. r.dinode = [f.dinode EXCEPT ![i] = e]
    <3> HIDE DEF e, i, core
    <3> QED BY <1>1, <2>12
  <2>14. e = [core EXCEPT !.addrs = FreeInode.addrs, !.size = 0, !.type = "free"]
    BY DEF c
  <2> HIDE DEF e
  <2> QED BY <2>1, <2>6, <2>7, <2>8, <2>9, <2>13, <2>14 DEF Freed
<1> QED BY <1>8, <1>9

LEMMA FreedSteady ==
  ASSUME NEW f, Good(f), NEW s, Ready(f, s), NEW g, Freed(f, g, s)
  PROVE  Good(g) /\ \A x \in Slots \ {s} : f.slot[x].ref > 0 => Steady(f, g, x)
<1> DEFINE core == f.slot[s].core
           i == f.slot[s].inum
           D == f.dinode
           c == [core EXCEPT !.addrs = FreeInode.addrs, !.size = 0, !.type = "free"]
<1>1. /\ i \in Inums /\ core = D[i] /\ core \in Cores /\ FsShape(f) /\ s \in Slots
      /\ D \in [Inums -> Cores] /\ DiskSound(D, f) /\ f.slot[s].ref > 0
      /\ DOMAIN f.blk = AllBlocks
  BY ReadyCore DEF Good, Ready, DiskSound
<1>2. /\ FsShape(g) /\ g.panic = f.panic
      /\ g.blk = f.blk /\ g.bitmap = f.bitmap \ (Owned(f, core) \ {0})
      /\ g.dinode = [D EXCEPT ![i] = c]
      /\ \A x \in Slots : /\ g.slot[x].inum = f.slot[x].inum /\ g.slot[x].ref = f.slot[x].ref
                          /\ x # s => /\ g.slot[x].valid = f.slot[x].valid
                                      /\ g.slot[x].core = f.slot[x].core
      /\ g.slot[s].valid = FALSE
  BY DEF Freed
<1>3. c \in Cores /\ c.addrs = FreeInode.addrs /\ c.size = 0
  <2> DEFINE M == MAXFILE * UPB
             A == FreeInode.addrs
  <2>1. M \in Nat /\ 0 \in AllBlocks
    BY Sizes
  <2>2. A \in [1 .. NDIRECT + 1 -> AllBlocks]
    BY <2>1 DEF FreeInode
  <2> HIDE DEF M, A
  <2>3. 0 \in 0 .. M
    BY <2>1
  <2> HIDE DEF core
  <2>4. core \in [type : {"free", "file", "dir", "dev"}, nlink : Int, size : 0 .. M,
                  addrs : [1 .. NDIRECT + 1 -> AllBlocks]]
    BY <1>1 DEF Cores, M
  <2> QED BY <2>2, <2>3, <2>4 DEF Cores, M, A
<1> HIDE DEF c
<1>4. InodeSound(g, c) /\ Owned(g, c) = {0}
  BY <1>3, EmptySound, NoBlocks
<1>5. DOMAIN g.blk = AllBlocks /\ \A b \in f.bitmap \ Owned(f, D[i]) : g.blk[b] = f.blk[b]
  BY <1>1, <1>2
<1>6. \A b \in Owned(g, c) \ {0} : b \in Owned(f, D[i]) \/ b \notin f.bitmap
  BY <1>4
<1> HIDE DEF D, i, core
<1>7. 0 \in f.bitmap
  BY <1>1, OwnedMarked
<1>8. \A b : b \in g.bitmap <=> \/ b = 0 \/ (b \in f.bitmap /\ b \notin Owned(f, D[i]))
                                \/ b \in Owned(g, c)
  BY <1>1, <1>2, <1>4, <1>7
<1>9. DiskSound([D EXCEPT ![i] = c], g)
  <2>1. DiskSound(D, f) /\ i \in Inums /\ c \in Cores /\ InodeSound(g, c)
    BY <1>1, <1>3, <1>4
  <2> QED BY <1>5, <1>6, <1>8, <2>1, OneInode
<1>10. DiskSound(g.dinode, g)
  BY <1>2, <1>9
<1>11. \A j \in Inums \ {i} : g.dinode[j] = D[j]
  BY <1>1, <1>2
<1>12. ASSUME NEW x \in Slots \ {s}, f.slot[x].ref > 0
       PROVE  f.slot[x].inum \in Inums \ {i}
  BY <1>1, <1>12 DEF Good, CacheSound, i
<1>13. RefsNat(g)
  BY <1>2 DEF Good, RefsNat
<1>14. CacheSound(g)
  <2>1. ASSUME NEW x \in Slots, g.slot[x].ref > 0
        PROVE  /\ g.slot[x].inum \in Inums
               /\ g.slot[x].valid => /\ g.slot[x].core = g.dinode[g.slot[x].inum]
                                     /\ g.slot[x].core.type # "free"
    <3>1. CASE x = s
      BY <1>1, <1>2, <3>1 DEF i
    <3>2. CASE x # s
      BY <1>2, <1>11, <1>12, <2>1, <3>2 DEF Good, CacheSound, D
    <3> QED BY <3>1, <3>2
  <2>2. ASSUME NEW x \in Slots, NEW y \in Slots, g.slot[x].ref > 0, g.slot[y].ref > 0,
               g.slot[x].inum = g.slot[y].inum
        PROVE  x = y
    BY <1>2, <2>2 DEF Good, CacheSound
  <2> QED BY <2>1, <2>2 DEF CacheSound
<1>15. ASSUME NEW x \in Slots \ {s}, f.slot[x].ref > 0 PROVE Steady(f, g, x)
  BY <1>2, <1>11, <1>12, <1>15 DEF Steady, D
<1> QED BY <1>2, <1>10, <1>13, <1>14, <1>15 DEF Good

\* The first half of iput(): all keep what they refer to, or it was the
\* last reference.
LEMMA PutSteady ==
  ASSUME NEW f, Good(f), NEW s \in Slots, f.slot[s].ref > 0, NEW g, g = PutBody(f, s),
         g.panic = "none"
  PROVE  /\ f.panic = "none" /\ Good(g)
         /\ \A x \in Slots : f.slot[x].ref > 0 => Steady(f, g, x) \/ (x = s /\ f.slot[s].ref = 1)
<1>1. CASE f.slot[s].valid /\ f.slot[s].core.nlink = 0 /\ f.slot[s].ref = 1
  <2>1. Ready(f, s)
    BY <1>1 DEF Ready
  <2>2. Freed(f, g, s)
    BY <1>1, <2>1, PutFrees
  <2>3. Good(g) /\ \A x \in Slots \ {s} : f.slot[x].ref > 0 => Steady(f, g, x)
    BY <2>1, <2>2, FreedSteady
  <2> QED BY <1>1, <2>2, <2>3 DEF Freed
<1>2. CASE ~(f.slot[s].valid /\ f.slot[s].core.nlink = 0 /\ f.slot[s].ref = 1)
  <2>1. g = f
    BY <1>2 DEF PutBody
  <2> QED BY <2>1 DEF Steady
<1> QED BY <1>1, <1>2

-----------------------------------------------------------------------------
(* A step of one process *)

Whole == Sound /\ DiskInv

LEMMA WholeFacts ==
  ASSUME Whole
  PROVE  /\ Sound /\ fs.panic = "none" /\ Good(fs)
         /\ \A p \in Procs : CallHolds(fs, ftable, ofile[p], th[p])
         /\ \A i \in 1 .. NFILE : FileHolds(fs, ftable[i])
<1>1. Sound /\ fs.panic = "none"
  BY DEF Whole, Sound
<1> QED BY <1>1, SoundFacts DEF Whole, DiskInv, Good

\* A slot that a process or an open file refers to is in use.
LEMMA InUse ==
  ASSUME Sound, NEW p \in Procs, NEW s \in Slots
  PROVE  /\ s \in {cwd[p], th[p].ip, th[p].dp, th[p].old} => fs.slot[s].ref > 0
         /\ th[p].pc \in {"put", "drop"} /\ s = Head(th[p].puts) => fs.slot[s].ref > 0
         /\ \A i \in 1 .. NFILE : ftable[i].type = "inode" /\ ftable[i].ip = s => fs.slot[s].ref > 0
<1> DEFINE t == th[p]
           q == t.puts
           F == FilesOn(s)
           n == Cardinality(F)
           r == fs.slot[s].ref
<1>1. r \in Nat /\ r >= Tally(cwd[p], t, s) + n
  BY RefsAtLeast
<1>2. n \in Nat /\ IsFiniteSet(F)
  BY FilesOnFinite
<1>3. Tally(cwd[p], t, s) \in Nat
  BY TallyNat
<1> HIDE DEF r, n, t
<1>4. s \in {cwd[p], t.ip, t.dp, t.old} => Tally(cwd[p], t, s) > 0
  <2>1. SeqTally(q, s) \in Nat
    BY TallyNat
  <2> HIDE DEF q
  <2> QED BY <2>1 DEF Tally, Is, q
<1>5. t.pc \in {"put", "drop"} /\ s = Head(q) => Tally(cwd[p], t, s) > 0
  <2> SUFFICES ASSUME t.pc \in {"put", "drop"}, s = Head(q) PROVE Tally(cwd[p], t, s) > 0
    OBVIOUS
  <2>1. CallShape(t) /\ CallKeeps(t)
    BY SoundFacts DEF t
  <2>2. q # <<>> /\ q \in Seq({0} \cup Slots)
    BY <2>1 DEF CallShape, CallKeeps
  <2> HIDE DEF q
  <2>3. Len(q) >= 1 /\ q[1] = s
    BY <2>2
  <2>4. Is(Len(q) >= 1 /\ q[1] = s) = 1
    BY <2>3 DEF Is
  <2>5. SeqTally(q, s) >= 1
    BY <2>4 DEF SeqTally, Is
  <2>6. SeqTally(q, s) \in Nat
    BY TallyNat
  <2> QED BY <2>5, <2>6 DEF Tally, Is, q
<1>6. ASSUME NEW i \in 1 .. NFILE, ftable[i].type = "inode", ftable[i].ip = s
      PROVE  n > 0
  <2>1. F # {}
    BY <1>6 DEF FilesOn
  <2>2. Cardinality(F) # 0
    BY <1>2, <2>1, FS_EmptySet
  <2> QED BY <1>2, <2>2 DEF n
<1>7. Tally(cwd[p], t, s) > 0 \/ n > 0 => r > 0
  BY <1>1, <1>2, <1>3
<1>8. t = th[p] /\ q = th[p].puts
  BY DEF t
<1> HIDE DEF q
<1> QED BY <1>4, <1>5, <1>6, <1>7, <1>8 DEF r

\* A file is as it was to those who have it open.
FileStays(i) ==
  /\ ftable'[i].type = ftable[i].type
  /\ ftable'[i].ip = ftable[i].ip /\ ftable'[i].writable = ftable[i].writable

\* The slots of the calls of others, and the files, stay.
OthersSteady(p) ==
  \A q \in Procs \ {p} :
    /\ th'[q] = th[q] /\ ofile'[q] = ofile[q]
    /\ \A s \in Slots : s \in {th[q].ip, th[q].dp, th[q].old} => Steady(fs, fs', s)
    /\ \A d \in 1 .. NOFILE :
         ofile[q][d] # 0 /\ ftable[ofile[q][d]].type = "inode" => FileStays(ofile[q][d])

FilesSteady ==
  \A i \in 1 .. NFILE :
    \/ FileStays(i) /\ (ftable[i].type = "inode" => Steady(fs, fs', ftable[i].ip))
    \/ FileHolds(fs', ftable'[i])

LEMMA CallSteady ==
  ASSUME NEW f, NEW files, NEW fds, NEW t, CallShape(t), CallHolds(f, files, fds, t),
         NEW g, \A s \in Slots : s \in {t.ip, t.dp, t.old} => Steady(f, g, s),
         NEW tab, fds[t.fd] # 0 /\ t.fd \in 1 .. NOFILE /\ files[fds[t.fd]].type = "inode" =>
           tab[fds[t.fd]].type = files[fds[t.fd]].type
           /\ tab[fds[t.fd]].writable = files[fds[t.fd]].writable
  PROVE  CallHolds(g, tab, fds, t)
<1> DEFINE at == GoesOn(t)
           i == fds[t.fd]
<1>1. \A s \in {t.ip, t.dp, t.old} : IsLoaded(f, s) =>
        /\ IsLoaded(g, s) /\ g.slot[s].core.type = f.slot[s].core.type
        /\ \A n \in Nat : n < f.slot[s].core.size => n < g.slot[s].core.size
  BY DEF IsLoaded, Steady
<1>2. at = "create_new" => g.dinode[g.slot[t.ip].inum].type = TypeOf(t.op)
  <2> SUFFICES ASSUME at = "create_new" PROVE g.dinode[g.slot[t.ip].inum].type = TypeOf(t.op)
    OBVIOUS
  <2>1. t.ip \in Slots /\ f.dinode[f.slot[t.ip].inum].type = TypeOf(t.op)
    BY DEF CallHolds
  <2>2. TypeOf(t.op) # "free"
    BY DEF TypeOf
  <2> QED BY <2>1, <2>2 DEF Steady
<1> HIDE DEF at, i
<1>3. /\ t.old # 0 => IsLoaded(g, t.old)
      /\ at = "walk" /\ t.op \in {"create", "mkdir", "mknod", "unlink"} => t.par
      /\ at \in {"create", "unlink", "link2"} => IsLoaded(g, t.ip) /\ g.slot[t.ip].core.type = "dir"
      /\ at = "link2" => t.old # 0
  BY <1>1 DEF CallHolds, at
<1>4. /\ at = "create_new" => IsLoaded(g, t.dp) /\ g.slot[t.dp].core.type = "dir" /\ t.ip \in Slots
      /\ at = "create_end" => IsLoaded(g, t.ip) /\ g.slot[t.ip].core.type = TypeOf(t.op)
      /\ at = "unlink_drop" => IsLoaded(g, t.ip)
  BY <1>1 DEF CallHolds, at
<1>5. at = "unlink_ip" => IsLoaded(g, t.dp) /\ t.n \in Nat /\ t.n < g.slot[t.dp].core.size
  BY <1>1 DEF CallHolds, at
<1>6. at = "write" => t.fd \in 1 .. NOFILE /\ i # 0 /\ tab[i].type = "inode" /\ tab[i].writable
  BY DEF CallHolds, at, i
<1> QED BY <1>2, <1>3, <1>4, <1>5, <1>6 DEF CallHolds, at, i

LEMMA HoldStep ==
  ASSUME Whole, NEW p \in Procs, Good(fs'), OthersSteady(p), FilesSteady,
         CallHolds(fs', ftable', ofile'[p], th'[p])
  PROVE  DiskInv'
<1>1. ASSUME NEW q \in Procs \ {p} PROVE CallHolds(fs', ftable', ofile'[q], th'[q])
  <2> DEFINE t == th[q]
             i == ofile[q][t.fd]
  <2>1. th'[q] = t /\ ofile'[q] = ofile[q] /\ CallShape(t)
    BY WholeFacts, SoundFacts DEF OthersSteady
  <2>2. CallHolds(fs, ftable, ofile[q], t)
    BY WholeFacts
  <2>3. \A s \in Slots : s \in {t.ip, t.dp, t.old} => Steady(fs, fs', s)
    BY DEF OthersSteady
  <2>4. i # 0 /\ t.fd \in 1 .. NOFILE /\ ftable[i].type = "inode" =>
          ftable'[i].type = ftable[i].type /\ ftable'[i].writable = ftable[i].writable
    BY DEF OthersSteady, FileStays
  <2> HIDE DEF t
  <2>5. CallHolds(fs', ftable', ofile[q], t)
    BY <2>1, <2>2, <2>3, <2>4, CallSteady
  <2> QED BY <2>1, <2>5
<1>2. ASSUME NEW i \in 1 .. NFILE PROVE FileHolds(fs', ftable'[i])
  <2>1. FileHolds(fs, ftable[i])
    BY WholeFacts
  <2>2. CASE FileStays(i) /\ (ftable[i].type = "inode" => Steady(fs, fs', ftable[i].ip))
    BY <2>1, <2>2 DEF FileHolds, FileStays, IsLoaded, Steady
  <2> QED BY <2>2 DEF FilesSteady
<1>3. \A q \in Procs : CallHolds(fs', ftable', ofile'[q], th'[q])
  BY <1>1
<1> QED BY <1>2, <1>3 DEF DiskInv, Good

\* Only the call of p changes, and what every reference is to stays.
Alone(p) ==
  \A q \in Procs \ {p} :
    /\ th'[q] = th[q] /\ ofile'[q] = ofile[q]
    /\ \A d \in 1 .. NOFILE :
         ofile[q][d] # 0 /\ ftable[ofile[q][d]].type = "inode" => FileStays(ofile[q][d])

LEMMA GrowTables ==
  ASSUME Whole, NEW p \in Procs, Grows(fs, fs'), Alone(p),
         fs'.panic = "none" =>
           /\ \A i \in 1 .. NFILE : FileStays(i) \/ FileHolds(fs', ftable'[i])
           /\ CallHolds(fs', ftable', ofile'[p], th'[p])
  PROVE  DiskInv'
<1>1. CASE fs'.panic # "none"
  BY <1>1 DEF DiskInv
<1>2. CASE fs'.panic = "none"
  <2>1. Good(fs') /\ \A s \in Slots : fs.slot[s].ref > 0 => Steady(fs, fs', s)
    BY <1>2 DEF Grows
  <2>2. OthersSteady(p)
    <3>1. ASSUME NEW q \in Procs, NEW s \in Slots, s \in {th[q].ip, th[q].dp, th[q].old}
          PROVE  fs.slot[s].ref > 0
      BY <3>1, WholeFacts, InUse
    <3> QED BY <2>1, <3>1 DEF OthersSteady, Alone
  <2>3. FilesSteady
    <3>1. ASSUME NEW i \in 1 .. NFILE, ftable[i].type = "inode"
          PROVE  fs.slot[ftable[i].ip].ref > 0 /\ ftable[i].ip \in Slots
      <4>1. ftable[i].ip # 0 /\ ftable[i].ip \in {0} \cup Slots
        <5>1. FileHolds(fs, ftable[i]) /\ ftable \in [1 .. NFILE -> Files]
          BY WholeFacts, SoundFacts DEF TablesShape
        <5> QED BY <3>1, <5>1 DEF FileHolds, Files
      <4> QED BY <3>1, <4>1, WholeFacts, InUse
    <3> QED BY <1>2, <2>1, <3>1 DEF FilesSteady
  <2> QED BY <1>2, <2>1, <2>2, <2>3, HoldStep
<1> QED BY <1>1, <1>2

LEMMA GrowStep ==
  ASSUME Whole, NEW p \in Procs, Grows(fs, fs'), UNCHANGED <<ftable, ofile>>, NEW u, Goto(p, u),
         fs'.panic = "none" => CallHolds(fs', ftable, ofile[p], u)
  PROVE  DiskInv'
<1>1. th'[p] = u /\ \A q \in Procs \ {p} : th'[q] = th[q]
  BY WholeFacts, SoundFacts DEF TablesShape, Goto
<1>2. \A i : FileStays(i)
  BY DEF FileStays
<1>3. Alone(p)
  BY <1>1, <1>2 DEF Alone
<1> QED BY <1>1, <1>2, <1>3, GrowTables

\* A call at these points relies on nothing but its inode of link().
Neutral == {"idle", "gone", "exit", "open", "create_found", "link", "chdir", "exec",
            "unlink_bad", "link_exists", "link_bad", "pipe", "pipe_fds", "pipe_bad"}

LEMMA NeutralHolds ==
  ASSUME NEW f, NEW files, NEW fds, NEW t,
         \/ GoesOn(t) \in Neutral
         \/ GoesOn(t) = "walk" /\ (t.op \in {"create", "mkdir", "mknod", "unlink"} => t.par),
         t.old # 0 => IsLoaded(f, t.old)
  PROVE  CallHolds(f, files, fds, t)
BY DEF CallHolds, Neutral

\* The call puts its inode and goes on where it relies on nothing.
LEMMA PutIpHolds ==
  ASSUME Whole, NEW p \in Procs, Grows(fs, fs'), UNCHANGED <<ftable, ofile>>,
         NEW after, after \in Neutral, Goto(p, Puts([th[p] EXCEPT !.ip = 0], <<th[p].ip>>, after)),
         th[p].pc \notin {"put", "drop"}
  PROVE  DiskInv'
<1> DEFINE t == th[p]
           u == Puts([t EXCEPT !.ip = 0], <<t.ip>>, after)
<1>1. CallShape(t) /\ t.puts = <<>>
  BY WholeFacts, AtPc
<1>2. IsPutIp(u, t, after)
  BY <1>1, PutIp
<1>3. GoesOn(u) = after /\ u.old = t.old
  BY <1>2 DEF IsPutIp, IsPut, GoesOn
<1>4. t.old # 0 => IsLoaded(fs, t.old) /\ t.old \in Slots /\ fs.slot[t.old].ref > 0
  <2>1. CallHolds(fs, ftable, ofile[p], t) /\ t.old \in {0} \cup Slots
    BY <1>1, WholeFacts DEF CallShape
  <2> QED BY <2>1, WholeFacts, InUse DEF CallHolds
<1>5. fs'.panic = "none" /\ t.old # 0 => IsLoaded(fs', t.old)
  BY <1>4 DEF Grows, Steady, IsLoaded
<1> HIDE DEF t, u
<1>6. fs'.panic = "none" => CallHolds(fs', ftable, ofile[p], u)
  BY <1>3, <1>5, NeutralHolds
<1> QED BY <1>6, GrowStep DEF u, t

\* What a call that is not putting anything knows.
LEMMA AtCall ==
  ASSUME Whole, NEW p \in Procs, th[p].pc \notin {"put", "drop"}
  PROVE  /\ Sound /\ Good(fs) /\ fs.panic = "none" /\ Grows(fs, fs)
         /\ GoesOn(th[p]) = th[p].pc /\ th[p].puts = <<>>
         /\ CallShape(th[p]) /\ CallKeeps(th[p]) /\ CallHolds(fs, ftable, ofile[p], th[p])
         /\ \A s \in {th[p].ip, th[p].dp, th[p].old, cwd[p]} :
              /\ s \in {0} \cup Slots
              /\ s # 0 => s \in Slots /\ fs.slot[s].ref > 0
<1>1. Sound /\ Good(fs) /\ fs.panic = "none" /\ CallHolds(fs, ftable, ofile[p], th[p])
  BY WholeFacts
<1>2. th[p].puts = <<>> /\ GoesOn(th[p]) = th[p].pc
      /\ CallShape(th[p]) /\ CallKeeps(th[p]) /\ cwd[p] \in {0} \cup Slots
  BY <1>1, AtPc
<1>3. \A s \in {th[p].ip, th[p].dp, th[p].old, cwd[p]} : s \in {0} \cup Slots
  BY <1>2 DEF CallShape
<1>4. \A s \in Slots : s \in {cwd[p], th[p].ip, th[p].dp, th[p].old} => fs.slot[s].ref > 0
  BY <1>1, InUse
<1> QED BY <1>1, <1>2, <1>3, <1>4, GrowsSelf

LEMMA IpLoaded ==
  ASSUME Whole, NEW p \in Procs, th[p].pc \notin {"put", "drop"}, th[p].ip # 0,
         NEW f, f = Loaded(fs, th[p].ip)
  PROVE  /\ th[p].ip \in Slots /\ Grows(fs, f)
         /\ f.panic = "none" => Ready(f, th[p].ip) /\ Good(f)
<1>1. th[p].ip \in Slots /\ Good(fs)
  BY AtCall
<1>2. Grows(fs, f) /\ (f.panic = "none" => Ready(f, th[p].ip))
  BY <1>1, LoadedGrows
<1> QED BY <1>1, <1>2 DEF Grows

\* The call of p goes on where it relies on nothing.
LEMMA NeutralStep ==
  ASSUME Whole, NEW p \in Procs, Grows(fs, fs'), UNCHANGED <<ftable, ofile>>, NEW u, Goto(p, u),
         th[p].pc \notin {"put", "drop"},
         \/ GoesOn(u) \in Neutral
         \/ GoesOn(u) = "walk" /\ (u.op \in {"create", "mkdir", "mknod", "unlink"} => u.par),
         u.old # 0 => u.old = th[p].old
  PROVE  DiskInv'
<1>1. u.old # 0 => IsLoaded(fs, u.old) /\ fs.slot[u.old].ref > 0
  BY AtCall DEF CallHolds, IsLoaded
<1>2. fs'.panic = "none" /\ u.old # 0 => IsLoaded(fs', u.old)
  BY <1>1 DEF Grows, Steady, IsLoaded
<1>3. fs'.panic = "none" => CallHolds(fs', ftable, ofile[p], u)
  BY <1>2, NeutralHolds
<1> QED BY <1>3, GrowStep

LEMMA execHolds ==
  ASSUME Whole, NEW p \in Procs, exec(p)
  PROVE  DiskInv'
<1>1. th[p].pc = "exec" /\ th[p].ip # 0 /\ fs' = Loaded(fs, th[p].ip)
  BY DEF exec, Running, LockFree
<1>2. Grows(fs, fs')
  BY <1>1, IpLoaded
<1> QED BY <1>1, <1>2, PutIpHolds DEF exec, Neutral

LEMMA sys_chdirHolds ==
  ASSUME Whole, NEW p \in Procs, sys_chdir(p)
  PROVE  DiskInv'
<1> DEFINE t == th[p]
<1>1. t.pc = "chdir" /\ t.ip # 0 /\ fs' = Loaded(fs, t.ip) /\ UNCHANGED <<ftable, ofile>>
  BY DEF sys_chdir, Running, LockFree
<1>2. Grows(fs, fs')
  BY <1>1, IpLoaded
<1>3. CASE Goto(p, Puts([t EXCEPT !.ip = 0], <<t.ip>>, "idle"))
  BY <1>1, <1>2, <1>3, PutIpHolds DEF Neutral
<1>4. CASE Goto(p, Puts([t EXCEPT !.ip = 0], <<cwd[p]>>, "idle"))
  <2> DEFINE v == [t EXCEPT !.ip = 0]
             u == Puts(v, <<cwd[p]>>, "idle")
  <2>1. CallShape(v) /\ cwd[p] \in {0} \cup Slots /\ t.old = v.old
    BY <1>1, AtCall, Refit DEF CallShape, Idle
  <2> HIDE DEF v
  <2>2. IsPut(u, v, <<cwd[p]>>, "idle")
    BY <2>1, PutOne
  <2>3. Goto(p, u)
    BY <1>4 DEF v
  <2> HIDE DEF u
  <2>4. GoesOn(u) = "idle" /\ u.old = t.old
    BY <2>1, <2>2 DEF IsPut
  <2> QED BY <1>1, <1>2, <2>3, <2>4, NeutralStep DEF Neutral
<1> QED BY <1>3, <1>4 DEF sys_chdir

\* The call of p puts what is in dp.
LEMMA PutDpHolds ==
  ASSUME Whole, NEW p \in Procs, Grows(fs, fs'), UNCHANGED <<ftable, ofile>>,
         NEW after, Goto(p, Puts([th[p] EXCEPT !.dp = 0], <<th[p].dp>>, after)),
         th[p].pc \notin {"put", "drop"}, after \in Neutral
  PROVE  DiskInv'
<1> DEFINE t == th[p]
           v == [t EXCEPT !.dp = 0]
           u == Puts(v, <<t.dp>>, after)
<1>1. CallShape(v) /\ t.dp \in {0} \cup Slots /\ t.old = v.old
  BY AtCall, Refit DEF CallShape, Idle
<1> HIDE DEF v
<1>2. GoesOn(u) = after /\ u.old = t.old
  BY <1>1, PutOne DEF IsPut
<1>3. Goto(p, u)
  BY DEF v
<1> HIDE DEF u
<1> QED BY <1>2, <1>3, NeutralStep

LEMMA unlink_badHolds ==
  ASSUME Whole, NEW p \in Procs, unlink_bad(p)
  PROVE  DiskInv'
<1>1. th[p].pc = "unlink_bad" /\ fs' = Unlock(fs, th[p].dp)
  BY DEF unlink_bad, Running
<1>2. Grows(fs, fs')
  BY <1>1, AtCall, LockGrows
<1> QED BY <1>1, <1>2, PutDpHolds DEF unlink_bad, Neutral

LEMMA link_existsHolds ==
  ASSUME Whole, NEW p \in Procs, link_exists(p)
  PROVE  DiskInv'
<1>1. th[p].pc = "link_exists" /\ fs' = Unlock(fs, th[p].dp)
  BY DEF link_exists, Running
<1>2. Grows(fs, fs')
  BY <1>1, AtCall, LockGrows
<1> QED BY <1>1, <1>2, PutDpHolds DEF link_exists, Neutral

LEMMA link_badHolds ==
  ASSUME Whole, NEW p \in Procs, link_bad(p)
  PROVE  DiskInv'
<1> DEFINE t == th[p]
           s == t.old
           n == fs.slot[s].core.nlink - 1
           v == [t EXCEPT !.old = 0]
           u == Puts(v, <<s>>, "idle")
<1>1. t.pc = "link_bad" /\ s # 0 /\ fs' = iupdate([fs EXCEPT !.slot[s].core.nlink = @ - 1], s)
      /\ Goto(p, u) /\ UNCHANGED <<ftable, ofile>>
  BY DEF link_bad, Running, LockFree
<1>2. Ready(fs, s) /\ Good(fs)
  BY <1>1, AtCall DEF CallHolds, IsLoaded, Ready
<1>3. n \in Int
  BY <1>2, InumOf
<1>4. fs' = iupdate([fs EXCEPT !.slot[s].core.nlink = n], s)
  BY <1>1
<1> HIDE DEF n
<1>5. Grows(fs, fs')
  BY <1>2, <1>3, <1>4, LinksGrow
<1>6. CallShape(v) /\ v.old = 0 /\ s \in {0} \cup Slots
  BY <1>1, AtCall, Refit DEF CallShape, Idle
<1> HIDE DEF v
<1>7. IsPut(u, v, <<s>>, "idle")
  BY <1>6, PutOne
<1> HIDE DEF u
<1>8. GoesOn(u) = "idle" /\ u.old = 0
  BY <1>6, <1>7 DEF IsPut
<1> QED BY <1>1, <1>5, <1>8, NeutralStep DEF Neutral

LEMMA unlink_dropHolds ==
  ASSUME Whole, NEW p \in Procs, unlink_drop(p)
  PROVE  DiskInv'
<1> DEFINE t == th[p]
           s == t.ip
           n == fs.slot[s].core.nlink - 1
           f == iupdate([fs EXCEPT !.slot[s].core.nlink = n], s)
<1>1. t.pc = "unlink_drop" /\ fs' = Unlock(f, s)
      /\ Goto(p, Puts([t EXCEPT !.ip = 0], <<s>>, "idle")) /\ UNCHANGED <<ftable, ofile>>
  BY DEF unlink_drop, Running
<1>2. Ready(fs, s) /\ Good(fs)
  <2>1. IsLoaded(fs, s)
    <3>1. CallHolds(fs, ftable, ofile[p], t) /\ GoesOn(t) = "unlink_drop"
      BY <1>1, AtCall
    <3> QED BY <3>1 DEF CallHolds
  <2>2. s \in Slots => s # 0
    BY SizesAssumption DEF Slots
  <2> QED BY <1>1, <2>1, <2>2, AtCall DEF IsLoaded, Ready
<1>3. n \in Int
  BY <1>2, InumOf
<1> HIDE DEF n
<1>4. Grows(fs, f)
  BY <1>2, <1>3, LinksGrow
<1> HIDE DEF f
<1>5. Grows(fs, fs')
  <2>1. CASE f.panic = "none"
    <3>1. Grows(f, Unlock(f, s))
      BY <1>4, <2>1, LockGrows DEF Grows
    <3> QED BY <1>1, <1>4, <3>1, GrowsGrows
  <2>2. CASE f.panic # "none"
    <3>1. Unlock(f, s).panic = f.panic
      BY DEF Unlock
    <3> QED BY <1>1, <2>2, <3>1 DEF Grows
  <2> QED BY <2>1, <2>2
<1> QED BY <1>1, <1>5, PutIpHolds DEF Neutral

\* nlink is changed and written, if the machine has not panicked before.
LEMMA LinksGrowIf ==
  ASSUME NEW f, NEW s, f.panic = "none" => Good(f) /\ Ready(f, s), NEW v,
         f.panic = "none" => v \in Int,
         NEW g, g = iupdate([f EXCEPT !.slot[s].core.nlink = v], s)
  PROVE  Grows(f, g)
<1>1. CASE f.panic = "none"
  BY <1>1, LinksGrow
<1>2. CASE f.panic # "none"
  <2>1. g.panic = f.panic
    BY DEF iupdate
  <2> QED BY <1>2, <2>1 DEF Grows
<1> QED BY <1>1, <1>2

LEMMA LocksGrow ==
  ASSUME NEW f, NEW g, Grows(f, g), NEW s, NEW p
  PROVE  /\ Grows(f, Lock(g, s, p)) /\ Grows(f, Unlock(g, s))
         /\ Lock(g, s, p).panic = g.panic /\ Unlock(g, s).panic = g.panic
         /\ \A d : Grows(f, Unlock(Lock(g, s, p), d)) /\ Unlock(Lock(g, s, p), d).panic = g.panic
<1>1. /\ Lock(g, s, p).panic = g.panic /\ Unlock(g, s).panic = g.panic
      /\ \A d : Unlock(Lock(g, s, p), d).panic = g.panic
  BY DEF Lock, Unlock
<1>2. CASE g.panic # "none"
  BY <1>1, <1>2 DEF Grows
<1>3. CASE g.panic = "none"
  <2> DEFINE h == Lock(g, s, p)
  <2>1. Good(g)
    BY <1>3 DEF Grows
  <2>2. Grows(g, h) /\ Grows(g, Unlock(g, s))
    BY <2>1, LockGrows
  <2>3. h.panic = "none"
    BY <1>1, <1>3
  <2> HIDE DEF h
  <2>4. Good(h)
    BY <2>2, <2>3 DEF Grows
  <2>5. ASSUME NEW d PROVE Grows(f, Unlock(h, d))
    <3>1. Grows(h, Unlock(h, d))
      BY <2>4, LockGrows
    <3>2. Grows(f, h)
      BY <2>2, GrowsGrows
    <3> QED BY <3>1, <3>2, GrowsGrows
  <2>6. Grows(f, h) /\ Grows(f, Unlock(g, s))
    BY <2>2, GrowsGrows
  <2> QED BY <1>1, <2>5, <2>6 DEF h
<1> QED BY <1>2, <1>3

LEMMA StartGrows ==
  ASSUME NEW f, Good(f), NEW p, cwd[p] \in {0} \cup Slots,
         cwd[p] # 0 => f.slot[cwd[p]].ref > 0, NEW path
  PROVE  Grows(f, StartFs(f, p, path))
<1>1. Grows(f, idup(f, cwd[p]))
  BY DupGrows
<1>2. ROOTINO \in Inums
  BY SizesAssumption DEF ROOTINO
<1>3. Grows(f, iget(f, ROOTINO))
  BY <1>2, GetGrows
<1> QED BY <1>1, <1>3 DEF StartFs

LEMMA BeginHolds ==
  ASSUME Whole, NEW p \in Procs, NEW call, Begin(p, call)
  PROVE  DiskInv'
<1> DEFINE c == call.op
           w == call.op \in {"create", "mkdir", "mknod", "unlink"}
           u == [Idle EXCEPT !.pc = "walk", !.op = call.op, !.path = Rest(call.path),
                             !.new = call.new, !.n = call.n, !.ip = StartIp(fs, p, call.path),
                             !.par = w]
<1>1. th[p].pc = "idle" /\ fs' = StartFs(fs, p, call.path) /\ Goto(p, u) /\ UNCHANGED <<ftable, ofile>>
  BY DEF Begin, Running
<1>2. Grows(fs, fs')
  BY <1>1, AtCall, StartGrows
<1>3. u.pc = "walk" /\ u.op = c /\ u.par = w /\ u.old = 0
  BY DEF Idle
<1>4. GoesOn(u) = "walk"
  BY <1>3 DEF GoesOn
<1>5. u.op \in {"create", "mkdir", "mknod", "unlink"} => u.par
  BY <1>3
<1> HIDE DEF u
<1> QED BY <1>1, <1>2, <1>3, <1>4, <1>5, NeutralStep

LEMMA sys_linkHolds ==
  ASSUME Whole, NEW p \in Procs, sys_link(p)
  PROVE  DiskInv'
<1> DEFINE t == th[p]
           s == t.ip
           f == Loaded(fs, s)
           n == f.slot[s].core.nlink + 1
           g == iupdate([f EXCEPT !.slot[s].core.nlink = n], s)
           u == [t EXCEPT !.pc = "walk", !.path = Rest(t.new), !.par = TRUE,
                          !.old = s, !.ip = StartIp(g, p, t.new), !.fail = "link_bad"]
<1>1. t.pc = "link" /\ s # 0 /\ UNCHANGED <<ftable, ofile>>
  BY DEF sys_link, Running, LockFree
<1>2. s \in Slots /\ Grows(fs, f) /\ (f.panic = "none" => Ready(f, s) /\ Good(f))
  BY <1>1, IpLoaded
<1>3. CASE fs' = f /\ Goto(p, Puts([t EXCEPT !.ip = 0], <<s>>, "idle"))
  BY <1>1, <1>2, <1>3, PutIpHolds DEF Neutral
<1>4. CASE fs' = StartFs(g, p, t.new) /\ Goto(p, u)
  <2>0. cwd[p] \in {0} \cup Slots /\ (cwd[p] # 0 => cwd[p] \in Slots /\ fs.slot[cwd[p]].ref > 0) /\ FsShape(fs) /\ RefsNat(fs)
    BY <1>1, AtCall DEF Good
  <2>1. f.panic = "none" => n \in Int
    BY <1>2, InumOf
  <2>2. Keeps(fs, f) /\ Keeps(f, g)
    <3>1. Keeps(fs, f)
      BY <2>0, LoadedKeeps
    <3>2. FsShape(f)
      BY <3>1, KeepsShape
    <3> HIDE DEF f
    <3>3. Keeps(f, [f EXCEPT !.slot[s].core.nlink = n])
      BY <3>2, CoreKeeps
    <3>4. Keeps([f EXCEPT !.slot[s].core.nlink = n], g)
      BY <3>3, KeepsShape, UpdateKeeps
    <3> QED BY <3>1, <3>3, <3>4, KeepsKeeps DEF f
  <2> HIDE DEF n
  <2>3. Grows(f, g)
    BY <1>2, <2>1, LinksGrowIf
  <2> HIDE DEF g, f
  <2>4. Grows(fs, g)
    BY <1>2, <2>3, GrowsGrows
  <2>5. FsShape(g) /\ RefsNat(g)
    BY <2>0, <2>2, KeepsKeeps, KeepsShape, KeepsNat
  <2>6. fs'.panic = "none" => g.panic = "none" /\ f.panic = "none"
    <3>1. Takes(g, fs', StartIp(g, p, t.new))
      BY <1>4, <2>0, <2>5, StartTakes
    <3> QED BY <2>2, <3>1 DEF Takes, Keeps
  <2>7. g.panic = "none" => Grows(g, fs')
    <3> SUFFICES ASSUME g.panic = "none" PROVE Grows(g, fs')
      OBVIOUS
    <3>1. Good(g) /\ (cwd[p] # 0 => g.slot[cwd[p]].ref > 0)
      BY <2>0, <2>4 DEF Grows
    <3> QED BY <1>4, <2>0, <3>1, StartGrows
  <2>8. fs'.panic = "none" => Grows(f, fs') /\ Grows(fs, fs')
    BY <2>3, <2>4, <2>6, <2>7, GrowsGrows
  <2>9. CASE fs'.panic # "none"
    BY <2>9 DEF DiskInv
  <2>10. CASE fs'.panic = "none"
    <3>1. IsLoaded(fs', s)
      BY <1>2, <2>6, <2>8, <2>10, ReadyStays DEF Ready, IsLoaded
    <3>2. u.pc = "walk" /\ u.par = TRUE /\ u.old = s
      BY <1>1, AtCall DEF CallShape, Idle
    <3> HIDE DEF u
    <3>3. GoesOn(u) = "walk"
      BY <3>2 DEF GoesOn
    <3>4. CallHolds(fs', ftable, ofile[p], u)
      BY <3>1, <3>2, <3>3, NeutralHolds
    <3> QED BY <1>1, <1>4, <2>8, <2>10, <3>4, GrowStep
  <2> QED BY <2>9, <2>10
<1> QED BY <1>3, <1>4 DEF sys_link

\* The call of p puts the inode a and goes on with other references; it has
\* the one of link() as before.
LEMMA PutHolds ==
  ASSUME Whole, NEW p \in Procs, Grows(fs, fs'), UNCHANGED <<ftable, ofile>>,
         th[p].pc \notin {"put", "drop"}, NEW v, CallShape(v), v.old = th[p].old, NEW a \in {0} \cup Slots,
         NEW after, Goto(p, Puts(v, <<a>>, after)),
         after \in Neutral \/ (after = "walk" /\ (v.op \in {"create", "mkdir", "mknod", "unlink"} => v.par))
  PROVE  DiskInv'
<1> DEFINE u == Puts(v, <<a>>, after)
<1>1. IsPut(u, v, <<a>>, after)
  BY PutOne
<1> HIDE DEF u
<1>2. GoesOn(u) = after /\ u.old = v.old /\ u.op = v.op /\ u.par = v.par
  BY <1>1 DEF IsPut
<1>3. Goto(p, u)
  BY DEF u
<1> QED BY <1>2, <1>3, NeutralStep

LEMMA WalkEnds ==
  ASSUME Whole, NEW p \in Procs, th[p].pc = "walk", Grows(fs, fs'), UNCHANGED <<ftable, ofile>>,
         Goto(p, Puts([th[p] EXCEPT !.ip = 0], <<th[p].ip>>, th[p].fail))
  PROVE  DiskInv'
<1>1. th[p].fail \in Neutral
  BY AtCall DEF CallKeeps, Neutral
<1> QED BY <1>1, PutIpHolds

LEMMA namexHolds ==
  ASSUME Whole, NEW p \in Procs, namex(p)
  PROVE  DiskInv'
<1> DEFINE t == th[p]
           s == t.ip
           f == Loaded(fs, s)
           at == IF t.old = 0 THEN AfterWalk(t.op) ELSE "link2"
<1>1. t.pc = "walk" /\ UNCHANGED <<ftable, ofile>>
  BY DEF namex, Running
<1>2. t.op \in ByPath /\ (t.op \in {"create", "mkdir", "mknod", "unlink"} => t.par)
  BY <1>1, AtCall DEF CallKeeps, CallHolds
<1>3. CASE t.path = <<>> /\ ~t.par /\ Goto(p, [t EXCEPT !.pc = AfterWalk(t.op)]) /\ UNCHANGED fs
  <2> DEFINE u == [t EXCEPT !.pc = AfterWalk(t.op)]
  <2>1. AfterWalk(t.op) \in Neutral
    BY <1>2, <1>3 DEF ByPath, AfterWalk, Neutral
  <2>2. u.pc = AfterWalk(t.op) /\ u.old = t.old
    BY <1>1, AtCall DEF CallShape, Idle
  <2> HIDE DEF u
  <2>3. GoesOn(u) \in Neutral
    BY <2>1, <2>2 DEF GoesOn, Neutral
  <2>4. Grows(fs, fs') /\ Goto(p, u)
    BY <1>1, <1>3, AtCall DEF u
  <2> QED BY <1>1, <2>2, <2>3, <2>4, NeutralStep
<1>4. CASE Goto(p, Puts([t EXCEPT !.ip = 0], <<s>>, t.fail)) /\ UNCHANGED fs
  BY <1>1, <1>4, AtCall, WalkEnds
<1>5. CASE LockFree(s)
  <2>1. s \in Slots /\ Grows(fs, f) /\ (f.panic = "none" => Ready(f, s) /\ Good(f))
    BY <1>1, <1>5, IpLoaded DEF LockFree
  <2>2. CASE fs' = f /\ Goto(p, Puts([t EXCEPT !.ip = 0], <<s>>, t.fail))
    BY <1>1, <2>1, <2>2, WalkEnds
  <2>3. ASSUME f.panic = "none", f.slot[s].core.type = "dir", fs' = f, NEW name,
               Goto(p, [t EXCEPT !.pc = at, !.name = name, !.path = <<>>])
        PROVE  DiskInv'
    <3> DEFINE u == [t EXCEPT !.pc = at, !.name = name, !.path = <<>>]
    <3>1. u.pc = at /\ u.ip = s /\ u.old = t.old
      BY <1>1, AtCall DEF CallShape, Idle
    <3>2. at \in Neutral \/ at \in {"create", "unlink"} \/ (at = "link2" /\ t.old # 0)
      BY <1>2 DEF ByPath, AfterWalk, Neutral
    <3>3. IsLoaded(fs', s) /\ fs'.slot[s].core.type = "dir"
      BY <2>1, <2>3 DEF Ready, IsLoaded
    <3>4. t.old # 0 => IsLoaded(fs', t.old)
      <4>1. t.old # 0 => IsLoaded(fs, t.old) /\ fs.slot[t.old].ref > 0
        BY <1>1, AtCall DEF CallHolds, IsLoaded
      <4> HIDE DEF f
      <4> QED BY <2>1, <2>3, <4>1 DEF Grows, Steady, IsLoaded
    <3> HIDE DEF u, f, at
    <3>5. GoesOn(u) = at
      BY <3>1, <3>2 DEF GoesOn, Neutral
    <3>6. CallHolds(fs', ftable, ofile[p], u)
      BY <3>1, <3>2, <3>3, <3>4, <3>5 DEF CallHolds, Neutral
    <3>7. Goto(p, u) /\ Grows(fs, fs')
      BY <2>1, <2>3 DEF u
    <3> QED BY <1>1, <3>6, <3>7, GrowStep
  <2>4. ASSUME f.panic = "none", f.slot[s].core.type = "dir", NEW off, off = Offset(f, s, Head(t.path)),
               off # -1, fs' = iget(f, InumAt(f, s, off)),
               NEW k, k = SlotOf(f, InumAt(f, s, off)),
               Goto(p, Puts([t EXCEPT !.ip = k, !.path = Tail(@)], <<s>>, "walk"))
        PROVE  DiskInv'
    <3> HIDE DEF f
    <3>1. InumAt(f, s, off) \in Inums
      BY <2>1, <2>4, LookupFinds
    <3>2. Grows(f, fs') /\ (fs'.panic = "none" => k \in Slots)
      BY <2>1, <2>4, <3>1, GetGrows
    <3>3. CASE fs'.panic # "none"
      BY <3>3 DEF DiskInv
    <3>4. CASE fs'.panic = "none"
      <4> DEFINE v == [t EXCEPT !.ip = k, !.path = Tail(@)]
                 w == [t EXCEPT !.ip = k]
      <4>1. CallShape(w)
        BY <1>1, <3>2, <3>4, AtCall, Refit
      <4>2. v = [w EXCEPT !.path = Tail(t.path)]
        BY <1>1, AtCall DEF CallShape, Idle
      <4> HIDE DEF w
      <4>3. CallShape(v)
        BY <4>1, <4>2, Refit
      <4>4. v.op = t.op /\ v.par = t.par /\ v.old = t.old
        BY <1>1, AtCall DEF CallShape, Idle
      <4>5. Goto(p, Puts(v, <<s>>, "walk")) /\ Grows(fs, fs')
        BY <2>1, <2>4, <3>2, GrowsGrows
      <4> HIDE DEF v
      <4> QED BY <1>1, <1>2, <2>1, <4>3, <4>4, <4>5, PutHolds
    <3> QED BY <3>3, <3>4
  <2> HIDE DEF f
  <2>5. CASE \E off : off = Offset(f, s, Head(t.path)) /\ off # -1
             /\ f.panic = "none" /\ f.slot[s].core.type = "dir"
             /\ fs' = iget(f, InumAt(f, s, off))
             /\ Goto(p, Puts([t EXCEPT !.ip = SlotOf(f, InumAt(f, s, off)), !.path = Tail(@)], <<s>>, "walk"))
    BY <2>4, <2>5
  <2>6. CASE /\ f.panic = "none" /\ f.slot[s].core.type = "dir" /\ fs' = f
             /\ Goto(p, [t EXCEPT !.pc = at, !.name = Head(t.path), !.path = <<>>])
    BY <2>3, <2>6
  <2>7. \/ fs' = f /\ Goto(p, Puts([t EXCEPT !.ip = 0], <<s>>, t.fail))
        \/ /\ f.panic = "none" /\ f.slot[s].core.type = "dir" /\ fs' = f
           /\ Goto(p, [t EXCEPT !.pc = at, !.name = Head(t.path), !.path = <<>>])
        \/ \E off : off = Offset(f, s, Head(t.path)) /\ off # -1
             /\ f.panic = "none" /\ f.slot[s].core.type = "dir"
             /\ fs' = iget(f, InumAt(f, s, off))
             /\ Goto(p, Puts([t EXCEPT !.ip = SlotOf(f, InumAt(f, s, off)), !.path = Tail(@)], <<s>>, "walk"))
        \/ Goto(p, [t EXCEPT !.pc = AfterWalk(t.op)]) /\ t.path = <<>> /\ ~t.par /\ UNCHANGED fs
        \/ Goto(p, Puts([t EXCEPT !.ip = 0], <<s>>, t.fail)) /\ UNCHANGED fs
    BY DEF namex, f
  <2> QED BY <1>3, <1>4, <2>2, <2>5, <2>6, <2>7
<1>6. LockFree(s) \/ (t.path = <<>> /\ ~t.par /\ Goto(p, [t EXCEPT !.pc = AfterWalk(t.op)]) /\ UNCHANGED fs)
      \/ (Goto(p, Puts([t EXCEPT !.ip = 0], <<s>>, t.fail)) /\ UNCHANGED fs)
  BY DEF namex
<1> QED BY <1>3, <1>4, <1>5, <1>6

LEMMA DirReady ==
  ASSUME Whole, NEW p \in Procs, th[p].pc \in {"create", "unlink", "link2"}
  PROVE  /\ th[p].ip \in Slots /\ Ready(fs, th[p].ip) /\ IsDir(fs, th[p].ip)
         /\ Loaded(fs, th[p].ip) = fs
<1>0. 0 \notin Slots
  BY SizesAssumption DEF Slots
<1>1. IsLoaded(fs, th[p].ip) /\ fs.slot[th[p].ip].core.type = "dir"
  BY AtCall DEF CallHolds
<1>2. Ready(fs, th[p].ip) /\ Good(fs)
  BY <1>0, <1>1, AtCall DEF IsLoaded, Ready
<1> QED BY <1>1, <1>2, LoadedGrows DEF IsLoaded, IsDir

LEMMA createHolds ==
  ASSUME Whole, NEW p \in Procs, create(p)
  PROVE  DiskInv'
<1> DEFINE t == th[p]
           d == t.ip
           off == Offset(fs, d, t.name)
           type == TypeOf(t.op)
           g == ialloc(fs, type)
           k == SlotOf(fs, Min(FreeInums(fs)))
<1>1. t.pc = "create" /\ UNCHANGED <<ftable, ofile>>
  BY DEF create, Running
<1>2. d \in Slots /\ Ready(fs, d) /\ Good(fs) /\ fs.slot[d].core.type = "dir" /\ Loaded(fs, d) = fs
  BY <1>1, DirReady DEF IsDir
<1>3. t.old = 0
  BY <1>1, AtCall DEF CallKeeps
<1>4. CASE off # -1
  <2> DEFINE inum == InumAt(fs, d, off)
             v == [t EXCEPT !.ip = SlotOf(fs, inum)]
  <2>1. inum \in Inums
    BY <1>2, <1>4, LookupFinds
  <2>2. fs' = iget(fs, inum) /\ Goto(p, Puts(v, <<d>>, "create_found"))
    BY <1>2, <1>4 DEF create
  <2> HIDE DEF inum
  <2>3. Grows(fs, fs') /\ (fs'.panic = "none" => SlotOf(fs, inum) \in Slots)
    BY <1>2, <2>1, <2>2, GetGrows
  <2>4. CASE fs'.panic # "none"
    BY <2>4 DEF DiskInv
  <2>5. CASE fs'.panic = "none"
    <3>1. CallShape(v)
      BY <1>1, <2>3, <2>5, AtCall, Refit
    <3>2. v.old = t.old
      BY <1>1, AtCall DEF CallShape, Idle
    <3> HIDE DEF v
    <3> QED BY <1>1, <1>2, <2>2, <2>3, <3>1, <3>2, PutHolds DEF Neutral
  <2> QED BY <2>4, <2>5
<1>5. CASE off = -1
  <2> DEFINE u == [t EXCEPT !.pc = "create_new", !.dp = d, !.ip = k]
  <2>1. fs' = Lock(g, d, p) /\ (g.panic = "none" => Goto(p, u))
    BY <1>2, <1>5 DEF create
  <2>2. type \in FileTypes
    BY DEF TypeOf, FileTypes
  <2> HIDE DEF type
  <2>3. Grows(fs, g) /\ (g.panic = "none" => k \in Slots /\ g.slot[k].ref > 0 /\ g.dinode[g.slot[k].inum].type = type)
    BY <1>2, <2>2, AllocGrows
  <2> HIDE DEF g, k
  <2>4. Grows(fs, fs') /\ fs'.panic = g.panic
    BY <2>1, <2>3, LocksGrow
  <2>5. CASE fs'.panic # "none"
    BY <2>5 DEF DiskInv
  <2>6. CASE fs'.panic = "none"
    <3>1. u.pc = "create_new" /\ u.dp = d /\ u.ip = k /\ u.op = t.op /\ u.old = 0
      BY <1>1, <1>3, AtCall DEF CallShape, Idle
    <3>2. FsShape(g)
      BY <2>3, <2>4, <2>6 DEF Grows, Good
    <3>3. fs'.dinode = g.dinode /\ \A x \in Slots : fs'.slot[x].inum = g.slot[x].inum
      BY <2>1, <3>2 DEF FsShape, Lock
    <3>4. fs'.dinode[fs'.slot[k].inum].type = TypeOf(u.op) /\ k \in Slots
      BY <2>3, <2>4, <2>6, <3>1, <3>3 DEF type
    <3>5. IsLoaded(fs', d) /\ fs'.slot[d].core.type = "dir"
      <4>1. Ready(fs', d) /\ fs'.slot[d].core.type = fs.slot[d].core.type
        BY <1>2, <2>4, <2>6, ReadyStays
      <4> QED BY <1>2, <4>1 DEF Ready, IsLoaded
    <3> HIDE DEF u
    <3>6. GoesOn(u) = "create_new"
      BY <3>1 DEF GoesOn
    <3>7. CallHolds(fs', ftable, ofile[p], u)
      BY <3>1, <3>4, <3>5, <3>6 DEF CallHolds
    <3> QED BY <1>1, <2>1, <2>4, <2>6, <3>7, GrowStep
  <2> QED BY <2>5, <2>6
<1> QED BY <1>4, <1>5

LEMMA create_newHolds ==
  ASSUME Whole, NEW p \in Procs, create_new(p)
  PROVE  DiskInv'
<1> DEFINE t == th[p]
           s == t.ip
           d == t.dp
           f == Loaded(fs, s)
           type == TypeOf(t.op)
           g == NewInode(f, s, d, t.name, type)
           v == [t EXCEPT !.dp = 0]
           u == Puts(v, <<d>>, "create_end")
<1>1. t.pc = "create_new" /\ s # 0 /\ UNCHANGED <<ftable, ofile>>
      /\ fs' = Unlock(Lock(g, s, p), d) /\ Goto(p, u)
  BY DEF create_new, Running, LockFree
<1>2. s \in Slots /\ Grows(fs, f) /\ (f.panic = "none" => Ready(f, s) /\ Good(f))
  BY <1>1, IpLoaded
<1>3. IsDir(fs, d) /\ fs.dinode[fs.slot[s].inum].type = type /\ t.old = 0
  <2>0. 0 \notin Slots
    BY SizesAssumption DEF Slots
  <2>1. IsLoaded(fs, d) /\ fs.slot[d].core.type = "dir" /\ fs.dinode[fs.slot[s].inum].type = type
    <3>1. CallHolds(fs, ftable, ofile[p], t) /\ GoesOn(t) = "create_new"
      BY <1>1, AtCall
    <3> QED BY <3>1 DEF CallHolds
  <2> HIDE DEF type
  <2>2. Ready(fs, d) /\ Good(fs)
    BY <1>1, <2>0, <2>1, AtCall DEF IsLoaded, Ready
  <2>3. t.old = 0
    BY <1>1, AtCall DEF CallKeeps
  <2> QED BY <2>1, <2>2, <2>3 DEF IsDir
<1>4. type # "free"
  BY DEF TypeOf
<1>5. CASE f.panic # "none"
  <2>1. FsShape(f)
    BY <1>1, AtCall, LoadedKeeps, KeepsShape DEF Good
  <2> HIDE DEF f
  <2>2. g.panic # "none"
    BY <1>5, <2>1, NewInodeKeeps DEF Keeps
  <2> HIDE DEF g
  <2>3. fs'.panic = g.panic
    BY <1>1 DEF Lock, Unlock
  <2> QED BY <2>2, <2>3 DEF DiskInv
<1>6. CASE f.panic = "none"
  <2>1. fs.slot[s].ref > 0
    BY <1>1, AtCall
  <2>2. f.slot[s].core.type = type
    <3>1. f.slot[s].core = f.dinode[f.slot[s].inum]
      BY <1>2, <1>6, ReadyCore
    <3>2. Steady(fs, f, s)
      BY <1>2, <1>6, <2>1 DEF Grows
    <3> HIDE DEF f, type
    <3> QED BY <1>3, <1>4, <3>1, <3>2 DEF Steady
  <2>3. IsDir(f, d)
    BY <1>2, <1>3, <1>6, DirStays
  <2> HIDE DEF f, type
  <2>4. Grows(f, g)
    BY <1>2, <1>6, <2>2, <2>3, NewInodeGrows
  <2> HIDE DEF g
  <2>5. Grows(f, fs')
    BY <1>1, <2>4, LocksGrow
  <2>6. Grows(fs, fs')
    BY <1>2, <2>5, GrowsGrows
  <2>7. CASE fs'.panic # "none"
    BY <2>7 DEF DiskInv
  <2>8. CASE fs'.panic = "none"
    <3>1. CallShape(v) /\ v.ip = s /\ v.op = t.op /\ v.old = 0 /\ d \in {0} \cup Slots
      BY <1>1, <1>3, AtCall, Refit DEF CallShape, Idle
    <3> HIDE DEF v
    <3>2. IsPut(u, v, <<d>>, "create_end")
      BY <3>1, PutOne
    <3> HIDE DEF u
    <3>3. GoesOn(u) = "create_end" /\ u.ip = s /\ u.op = t.op /\ u.old = 0
      BY <3>1, <3>2 DEF IsPut
    <3>4. IsLoaded(fs', s) /\ fs'.slot[s].core.type = type
      BY <1>2, <1>6, <2>2, <2>5, <2>8, ReadyStays DEF Ready, IsLoaded
    <3>5. CallHolds(fs', ftable, ofile[p], u)
      BY <3>3, <3>4 DEF CallHolds, type
    <3> QED BY <1>1, <2>6, <2>8, <3>5, GrowStep
  <2> QED BY <2>7, <2>8
<1> QED BY <1>5, <1>6

LEMMA sys_unlinkHolds ==
  ASSUME Whole, NEW p \in Procs, sys_unlink(p)
  PROVE  DiskInv'
<1> DEFINE t == th[p]
           d == t.ip
           off == Offset(fs, d, t.name)
           inum == InumAt(fs, d, off)
           k == SlotOf(fs, inum)
           g == iget(fs, inum)
           u == [t EXCEPT !.pc = "unlink_ip", !.dp = d, !.n = off, !.ip = k]
<1>1. t.pc = "unlink" /\ UNCHANGED <<ftable, ofile>>
  BY DEF sys_unlink, Running
<1>2. d \in Slots /\ Ready(fs, d) /\ Good(fs) /\ fs.slot[d].core.type = "dir" /\ Loaded(fs, d) = fs
  BY <1>1, DirReady DEF IsDir
<1>3. t.old = 0
  BY <1>1, AtCall DEF CallKeeps
<1>4. CASE fs' = fs /\ Goto(p, Puts([t EXCEPT !.ip = 0], <<d>>, "idle"))
  BY <1>1, <1>4, AtCall, PutIpHolds DEF Neutral
<1>5. CASE off # -1 /\ fs' = Lock(g, d, p) /\ Goto(p, u)
  <2>1. off \in Nat /\ off < fs.slot[d].core.size /\ inum \in Inums
    BY <1>2, <1>5, LookupFinds
  <2> HIDE DEF inum
  <2>2. Grows(fs, g)
    BY <1>2, <2>1, GetGrows
  <2> HIDE DEF g
  <2>3. Grows(fs, fs')
    BY <1>5, <2>2, LocksGrow
  <2>4. CASE fs'.panic # "none"
    BY <2>4 DEF DiskInv
  <2>5. CASE fs'.panic = "none"
    <3>1. u.pc = "unlink_ip" /\ u.dp = d /\ u.n = off /\ u.old = 0
      BY <1>1, <1>3, AtCall DEF CallShape, Idle
    <3>2. IsLoaded(fs', d) /\ off < fs'.slot[d].core.size
      BY <1>2, <2>1, <2>3, <2>5, ReadyStays DEF Ready, IsLoaded
    <3> HIDE DEF u, off
    <3>3. GoesOn(u) = "unlink_ip"
      BY <3>1 DEF GoesOn
    <3>4. CallHolds(fs', ftable, ofile[p], u)
      BY <2>1, <3>1, <3>2, <3>3 DEF CallHolds
    <3> QED BY <1>1, <1>5, <2>3, <2>5, <3>4, GrowStep
  <2> QED BY <2>4, <2>5
<1> QED BY <1>2, <1>4, <1>5 DEF sys_unlink

LEMMA unlink_ipHolds ==
  ASSUME Whole, NEW p \in Procs, unlink_ip(p)
  PROVE  DiskInv'
<1> DEFINE t == th[p]
           s == t.ip
           d == t.dp
           f == Loaded(fs, s)
           g == writei(f, d, t.n, Zeroed[1])
           n == g.slot[d].core.nlink - 1
           h == IF f.slot[s].core.type = "dir" THEN iupdate([g EXCEPT !.slot[d].core.nlink = n], d) ELSE g
           v == [t EXCEPT !.dp = 0]
           u == Puts(v, <<d>>, "unlink_drop")
<1>1. t.pc = "unlink_ip" /\ s # 0 /\ UNCHANGED <<ftable, ofile>>
  BY DEF unlink_ip, Running, LockFree
<1>2. s \in Slots /\ Grows(fs, f) /\ (f.panic = "none" => Ready(f, s) /\ Good(f))
  BY <1>1, IpLoaded
<1>3. Ready(fs, d) /\ t.n \in Nat /\ t.n < fs.slot[d].core.size /\ t.old = 0
  <2>0. 0 \notin Slots
    BY SizesAssumption DEF Slots
  <2>1. IsLoaded(fs, d) /\ t.n \in Nat /\ t.n < fs.slot[d].core.size
    <3>1. CallHolds(fs, ftable, ofile[p], t) /\ GoesOn(t) = "unlink_ip"
      BY <1>1, AtCall
    <3> QED BY <3>1 DEF CallHolds
  <2>2. Ready(fs, d)
    BY <1>1, <2>0, <2>1, AtCall DEF IsLoaded, Ready
  <2>3. t.old = 0
    BY <1>1, AtCall DEF CallKeeps
  <2> QED BY <2>1, <2>2, <2>3
<1>4. CASE fs' = f /\ f.panic # "none"
  BY <1>4 DEF DiskInv
<1>5. CASE fs' = Panic(f, "unlink: nlink < 1")
  <2>1. FsShape(f)
    BY <1>1, AtCall, LoadedKeeps, KeepsShape DEF Good
  <2> HIDE DEF f
  <2>2. fs'.panic # "none"
    BY <1>5, <2>1, PanicKeeps
  <2> QED BY <2>2 DEF DiskInv
<1>6. CASE fs' = f /\ Goto(p, Puts([t EXCEPT !.ip = 0], <<s>>, "unlink_bad"))
  BY <1>1, <1>2, <1>6, PutIpHolds DEF Neutral
<1>7. CASE f.panic = "none" /\ fs' = Unlock(Lock(h, s, p), d) /\ Goto(p, u)
  <2> HIDE DEF f
  <2>1. Ready(f, d) /\ t.n < f.slot[d].core.size
    BY <1>2, <1>3, <1>7, ReadyStays
  <2>2. t.n < MAXFILE * UPB /\ t.n <= f.slot[d].core.size
    <3> DEFINE M == MAXFILE * UPB
               z == f.slot[d].core.size
    <3>1. z \in 0 .. M /\ M \in Nat
      <4>1. f.slot[d].core \in Cores
        BY <1>2, <1>7, <2>1, ReadyCore
      <4>2. M \in Nat
        BY Sizes
      <4> QED BY <4>1, <4>2 DEF Cores
    <3> HIDE DEF M, z
    <3>2. t.n < z
      BY <2>1 DEF z
    <3>3. t.n < M /\ t.n <= z
      BY <1>3, <3>1, <3>2
    <3> QED BY <3>3 DEF M, z
  <2>3. Zeroed[1].inum = 0
    <3>1. 1 \in 1 .. UPB
      BY SizesAssumption
    <3> QED BY <3>1 DEF Zeroed
  <2>4. Grows(f, g)
    BY <1>2, <1>3, <1>7, <2>1, <2>2, <2>3, WriteGrows
  <2> HIDE DEF g
  <2>5. g.panic = "none" => Ready(g, d) /\ Good(g) /\ n \in Int
    BY <2>1, <2>4, ReadyStays, InumOf
  <2> HIDE DEF n
  <2>6. Grows(g, iupdate([g EXCEPT !.slot[d].core.nlink = n], d))
    BY <2>5, LinksGrowIf
  <2>7. Grows(f, h)
    BY <2>4, <2>6, GrowsGrows
  <2> HIDE DEF h
  <2>8. Grows(f, fs')
    BY <1>7, <2>7, LocksGrow
  <2>9. Grows(fs, fs')
    BY <1>2, <2>8, GrowsGrows
  <2>10. CASE fs'.panic # "none"
    BY <2>10 DEF DiskInv
  <2>11. CASE fs'.panic = "none"
    <3>1. CallShape(v) /\ v.ip = s /\ v.old = 0 /\ d \in {0} \cup Slots
      BY <1>1, <1>3, AtCall, Refit DEF CallShape, Idle
    <3> HIDE DEF v
    <3>2. IsPut(u, v, <<d>>, "unlink_drop")
      BY <3>1, PutOne
    <3> HIDE DEF u
    <3>3. GoesOn(u) = "unlink_drop" /\ u.ip = s /\ u.old = 0
      BY <3>1, <3>2 DEF IsPut
    <3>4. IsLoaded(fs', s)
      BY <1>2, <1>7, <2>8, <2>11, ReadyStays DEF Ready, IsLoaded
    <3>5. CallHolds(fs', ftable, ofile[p], u)
      BY <3>3, <3>4 DEF CallHolds
    <3> QED BY <1>1, <1>7, <2>9, <2>11, <3>5, GrowStep
  <2> QED BY <2>10, <2>11
<1> HIDE DEF f
<1>8. \/ fs' = f /\ f.panic # "none"
      \/ fs' = Panic(f, "unlink: nlink < 1")
      \/ fs' = f /\ Goto(p, Puts([t EXCEPT !.ip = 0], <<s>>, "unlink_bad"))
      \/ f.panic = "none" /\ fs' = Unlock(Lock(h, s, p), d) /\ Goto(p, u)
  BY DEF unlink_ip, f
<1> QED BY <1>4, <1>5, <1>6, <1>7, <1>8

LEMMA link2Holds ==
  ASSUME Whole, NEW p \in Procs, link2(p)
  PROVE  DiskInv'
<1> DEFINE t == th[p]
           d == t.ip
           off == Offset(fs, d, t.name)
<1>1. t.pc = "link2" /\ UNCHANGED <<ftable, ofile>>
  BY DEF link2, Running
<1>2. d \in Slots /\ Ready(fs, d) /\ Good(fs) /\ IsDir(fs, d) /\ Loaded(fs, d) = fs
      /\ fs.slot[d].core.type = "dir"
  BY <1>1, DirReady DEF IsDir
<1>3. Ready(fs, t.old) /\ t.old \in Slots
  <2>1. CallHolds(fs, ftable, ofile[p], t) /\ GoesOn(t) = "link2"
    BY <1>1, AtCall
  <2>2. t.old # 0 /\ IsLoaded(fs, t.old)
    BY <2>1 DEF CallHolds
  <2> QED BY <1>1, <2>2, AtCall DEF IsLoaded, Ready
<1>4. CASE off # -1
  <2> DEFINE inum == InumAt(fs, d, off)
             k == SlotOf(fs, inum)
             g == iget(fs, inum)
             v == [t EXCEPT !.ip = 0, !.dp = d]
             w == [t EXCEPT !.ip = 0]
  <2>1. inum \in Inums
    BY <1>2, <1>4, LookupFinds
  <2>2. fs' = Lock(g, d, p) /\ Goto(p, Puts(v, <<k>>, "link_exists"))
    BY <1>2, <1>4 DEF link2
  <2> HIDE DEF inum
  <2>3. Grows(fs, g) /\ (g.panic = "none" => k \in Slots)
    BY <1>2, <2>1, GetGrows
  <2> HIDE DEF g, k
  <2>4. Grows(fs, fs') /\ fs'.panic = g.panic
    BY <2>2, <2>3, LocksGrow
  <2>5. CASE fs'.panic # "none"
    BY <2>5 DEF DiskInv
  <2>6. CASE fs'.panic = "none"
    <3>1. CallShape(w)
      BY <1>1, AtCall, Refit
    <3>2. v = [w EXCEPT !.dp = d]
      BY <1>1, AtCall DEF CallShape, Idle
    <3> HIDE DEF w
    <3>3. CallShape(v)
      BY <1>2, <3>1, <3>2, Refit
    <3>4. v.old = t.old
      BY <1>1, AtCall DEF CallShape, Idle
    <3> HIDE DEF v
    <3> QED BY <1>1, <2>2, <2>3, <2>4, <2>6, <3>3, <3>4, PutHolds DEF Neutral
  <2> QED BY <2>5, <2>6
<1>5. CASE off = -1
  <2> DEFINE inum == fs.slot[t.old].inum
             v == [t EXCEPT !.ip = 0, !.old = 0]
             w == [t EXCEPT !.ip = 0]
             u == Puts(v, <<d, t.old>>, "idle")
  <2>1. fs' = AddEntry(fs, d, t.name, inum) /\ Goto(p, u)
    BY <1>2, <1>5 DEF link2
  <2>2. inum \in Inums
    BY <1>2, <1>3, InumOf
  <2> HIDE DEF inum
  <2>3. Grows(fs, fs')
    BY <1>2, <2>1, <2>2, EntryGrows
  <2>4. CallShape(w)
    BY <1>1, AtCall, Refit
  <2>5. v = [w EXCEPT !.old = 0] /\ v.old = 0
    BY <1>1, AtCall DEF CallShape, Idle
  <2> HIDE DEF w
  <2>6. CallShape(v)
    BY <2>4, <2>5, Refit
  <2> HIDE DEF v
  <2>7. IsPut(u, v, <<d, t.old>>, "idle")
    BY <1>2, <1>3, <2>6, PutTwo
  <2> HIDE DEF u
  <2>8. GoesOn(u) = "idle" /\ u.old = 0
    BY <2>5, <2>7 DEF IsPut
  <2> QED BY <1>1, <2>1, <2>3, <2>8, NeutralStep DEF Neutral
<1> QED BY <1>4, <1>5

\* Whoever puts the last reference to an inode is alone with it.
LEMMA LastReference ==
  ASSUME Sound, NEW p \in Procs, th[p].pc \in {"put", "drop"}, NEW s \in Slots, s = Head(th[p].puts),
         fs.slot[s].ref = 1
  PROVE  /\ \A q \in Procs : s \notin {th[q].ip, th[q].dp, th[q].old}
         /\ \A i \in 1 .. NFILE : ~(ftable[i].type = "inode" /\ ftable[i].ip = s)
<1> DEFINE t == th[p]
           q0 == t.puts
           F == FilesOn(s)
           n == Cardinality(F)
           m == Tally(cwd[p], t, s)
<1>1. 1 >= m + n /\ \A q \in Procs \ {p} : 1 >= m + Tally(cwd[q], th[q], s)
  BY RefsAtLeast
<1>2. n \in Nat /\ IsFiniteSet(F)
  BY FilesOnFinite
<1>3. m \in Nat /\ \A q \in Procs : Tally(cwd[q], th[q], s) \in Nat
  BY TallyNat
<1>4. SeqTally(q0, s) >= 1 /\ SeqTally(q0, s) \in Nat
  <2>1. CallShape(t) /\ CallKeeps(t)
    BY SoundFacts
  <2>2. q0 # <<>> /\ q0 \in Seq({0} \cup Slots)
    BY <2>1 DEF CallShape, CallKeeps
  <2> HIDE DEF q0
  <2>3. Len(q0) >= 1 /\ q0[1] = s
    BY <2>2 DEF q0
  <2>4. Is(Len(q0) >= 1 /\ q0[1] = s) = 1
    BY <2>3 DEF Is
  <2>5. SeqTally(q0, s) >= 1
    BY <2>4 DEF SeqTally, Is
  <2>6. SeqTally(q0, s) \in Nat
    BY TallyNat
  <2> QED BY <2>5, <2>6
<1>5. m >= 1 /\ (s \in {t.ip, t.dp, t.old} => m >= 2)
  <2> DEFINE k == SeqTally(q0, s)
  <2>1. k >= 1 /\ k \in Nat /\ m = Is(cwd[p] = s) + Is(t.ip = s) + Is(t.dp = s) + Is(t.old = s) + k
    BY <1>4 DEF Tally
  <2> HIDE DEF k, t, m
  <2> QED BY <2>1 DEF Is
<1>6. ASSUME NEW q \in Procs, s \in {th[q].ip, th[q].dp, th[q].old} PROVE Tally(cwd[q], th[q], s) >= 1
  <2> DEFINE k == SeqTally(th[q].puts, s)
  <2>1. k \in Nat
    BY TallyNat
  <2> HIDE DEF k
  <2> QED BY <1>6, <2>1 DEF Is, Tally, k
<1>7. ASSUME NEW i \in 1 .. NFILE, ftable[i].type = "inode", ftable[i].ip = s
      PROVE  n >= 1
  <2>1. F # {}
    BY <1>7 DEF FilesOn
  <2>2. Cardinality(F) # 0
    BY <1>2, <2>1, FS_EmptySet
  <2> QED BY <1>2, <2>2
<1> HIDE DEF n, m
<1>8. \A q \in Procs : s \notin {th[q].ip, th[q].dp, th[q].old}
  <2>1. ASSUME NEW q \in Procs \ {p}, s \in {th[q].ip, th[q].dp, th[q].old} PROVE FALSE
    <3> DEFINE k == Tally(cwd[q], th[q], s)
    <3>1. k >= 1 /\ k \in Nat /\ 1 >= m + k
      BY <1>1, <1>3, <1>6, <2>1
    <3> HIDE DEF k
    <3> QED BY <1>3, <1>5, <3>1
  <2>2. s \notin {t.ip, t.dp, t.old}
    BY <1>1, <1>2, <1>3, <1>5
  <2> QED BY <2>1, <2>2
<1>9. \A i \in 1 .. NFILE : ~(ftable[i].type = "inode" /\ ftable[i].ip = s)
  BY <1>1, <1>2, <1>3, <1>5, <1>7
<1> QED BY <1>8, <1>9

\* What a call relies on does not change as it puts inodes on its way.
SameCall(t, u) ==
  /\ u.op = t.op /\ u.par = t.par /\ u.ip = t.ip /\ u.dp = t.dp /\ u.old = t.old
  /\ u.fd = t.fd /\ u.n = t.n /\ GoesOn(u) = GoesOn(t)

LEMMA PuttingHolds ==
  ASSUME Whole, NEW p \in Procs, th[p].pc \in {"put", "drop"}, Good(fs'), UNCHANGED <<ftable, ofile>>,
         NEW u, Goto(p, u), SameCall(th[p], u) \/ (GoesOn(u) \in {"idle", "gone"} /\ u.old = 0),
         \A x \in Slots : fs.slot[x].ref > 0 =>
           Steady(fs, fs', x) \/ (x = Head(th[p].puts) /\ fs.slot[x].ref = 1)
  PROVE  DiskInv'
<1> DEFINE t == th[p]
<1>1. th'[p] = u /\ \A q \in Procs \ {p} : th'[q] = th[q]
  BY WholeFacts, SoundFacts DEF TablesShape, Goto
<1>2. Sound /\ \A i : FileStays(i)
  BY WholeFacts DEF FileStays
<1>3. \A q \in Procs : \A s \in Slots : s \in {th[q].ip, th[q].dp, th[q].old} => Steady(fs, fs', s)
  BY <1>2, InUse, LastReference
<1>4. OthersSteady(p)
  BY <1>1, <1>2, <1>3 DEF OthersSteady
<1>5. FilesSteady
  <2>1. ASSUME NEW i \in 1 .. NFILE, ftable[i].type = "inode" PROVE Steady(fs, fs', ftable[i].ip)
    <3>1. ftable[i].ip # 0 /\ ftable[i].ip \in {0} \cup Slots
      <4>1. FileHolds(fs, ftable[i]) /\ ftable \in [1 .. NFILE -> Files]
        BY WholeFacts, SoundFacts DEF TablesShape
      <4> QED BY <2>1, <4>1 DEF FileHolds, Files
    <3>2. ftable[i].ip \in Slots
      BY <3>1
    <3> QED BY <1>2, <2>1, <3>2, InUse, LastReference
  <2> QED BY <1>2, <2>1 DEF FilesSteady
<1>6. CallHolds(fs', ftable, ofile[p], u)
  <2>1. CASE GoesOn(u) \in {"idle", "gone"} /\ u.old = 0
    BY <2>1, NeutralHolds DEF Neutral
  <2>2. CASE SameCall(t, u)
    <3>1. CallHolds(fs, ftable, ofile[p], t) /\ CallShape(t)
      BY <1>2, WholeFacts, SoundFacts
    <3>2. \A s \in Slots : s \in {t.ip, t.dp, t.old} => Steady(fs, fs', s)
      BY <1>3
    <3> HIDE DEF t
    <3>3. CallHolds(fs', ftable, ofile[p], t)
      BY <3>1, <3>2, CallSteady
    <3> QED BY <2>2, <3>3 DEF CallHolds, SameCall
  <2> QED BY <2>1, <2>2
<1>7. CallHolds(fs', ftable', ofile'[p], th'[p])
  BY <1>1, <1>6
<1> QED BY <1>4, <1>5, <1>7, HoldStep

LEMMA iputHolds ==
  ASSUME Whole, NEW p \in Procs, iput(p)
  PROVE  DiskInv'
<1> DEFINE t == th[p]
           s == Head(t.puts)
           u == [t EXCEPT !.pc = "drop"]
<1>1. t.pc = "put" /\ s # 0 /\ fs' = PutBody(fs, s) /\ Goto(p, u) /\ UNCHANGED <<ftable, ofile>>
  BY DEF iput, Running, LockFree
<1>2. Sound /\ Good(fs) /\ CallShape(t) /\ CallKeeps(t)
  BY WholeFacts, SoundFacts
<1>3. s \in Slots
  <2>1. t.puts # <<>> /\ t.puts \in Seq({0} \cup Slots)
    BY <1>1, <1>2 DEF CallKeeps, CallShape
  <2>2. s \in {0} \cup Slots
    BY <2>1
  <2> QED BY <1>1, <2>2
<1>4. fs.slot[s].ref > 0
  BY <1>1, <1>2, <1>3, InUse
<1>5. CASE fs'.panic # "none"
  BY <1>5 DEF DiskInv
<1>6. CASE fs'.panic = "none"
  <2>1. Good(fs') /\ \A x \in Slots : fs.slot[x].ref > 0 => Steady(fs, fs', x) \/ (x = s /\ fs.slot[s].ref = 1)
    BY <1>1, <1>2, <1>3, <1>4, <1>6, PutSteady
  <2>2. SameCall(t, u)
    <3>1. u.pc = "drop" /\ u.after = t.after /\ u.op = t.op /\ u.par = t.par /\ u.ip = t.ip
          /\ u.dp = t.dp /\ u.old = t.old /\ u.fd = t.fd /\ u.n = t.n
      BY <1>2 DEF CallShape, Idle
    <3> HIDE DEF u
    <3> QED BY <1>1, <3>1 DEF SameCall, GoesOn
  <2> HIDE DEF u
  <2> QED BY <1>1, <2>1, <2>2, PuttingHolds
<1> QED BY <1>5, <1>6

\* The decrement changes nothing where there is no inode.
LEMMA DropOf ==
  ASSUME NEW f, Good(f), f.panic = "none", NEW s \in {0} \cup Slots, s # 0 => f.slot[s].ref > 0,
         NEW g, g = PutDrop(f, s)
  PROVE  Good(g) /\ \A x \in Slots : f.slot[x].ref > 0 => Steady(f, g, x)
<1>1. CASE s # 0
  BY <1>1, DropSteady
<1>2. CASE s = 0
  <2>0. FsShape(f) /\ RefsNat(f) /\ 0 \notin Slots
    BY DEF Good, Slots
  <2>1. /\ g.panic = f.panic /\ g.blk = f.blk /\ g.bitmap = f.bitmap /\ g.dinode = f.dinode
        /\ FsShape(g)
        /\ \A x \in Slots : /\ g.slot[x].inum = f.slot[x].inum
                            /\ g.slot[x].valid = f.slot[x].valid /\ g.slot[x].core = f.slot[x].core
                            /\ g.slot[x].ref = f.slot[x].ref
    BY <1>2, <2>0 DEF FsShape, PutDrop
  <2>2. RefsNat(g)
    BY <2>0, <2>1 DEF RefsNat
  <2>3. CacheSound(g)
    BY <2>1 DEF Good, CacheSound
  <2>4. Grows(f, g)
    BY <2>1, <2>2, <2>3, SlotsGrow
  <2> QED BY <2>1, <2>4 DEF Grows
<1> QED BY <1>1, <1>2

LEMMA iput_dropHolds ==
  ASSUME Whole, NEW p \in Procs, iput_drop(p)
  PROVE  DiskInv'
<1> DEFINE t == th[p]
           s == Head(t.puts)
           rest == Tail(t.puts)
           v == Puts(t, rest, t.after)
           u == Ended(v)
<1>1. t.pc = "drop" /\ fs' = PutDrop(fs, s) /\ Goto(p, u) /\ UNCHANGED <<ftable, ofile>>
  BY DEF iput_drop, Running
<1>2. Sound /\ Good(fs) /\ fs.panic = "none" /\ CallShape(t) /\ CallKeeps(t)
  BY WholeFacts, SoundFacts
<1>3. /\ GoesOn(t) = t.after /\ t.puts # <<>> /\ t.after \notin {"put", "drop"}
      /\ t.puts \in Seq({0} \cup Slots)
  BY <1>1, <1>2 DEF CallKeeps, CallShape, GoesOn
<1>4. s \in {0} \cup Slots
  BY <1>3
<1>5. s # 0 => fs.slot[s].ref > 0
  BY <1>1, <1>2, <1>4, InUse
<1>6. Good(fs') /\ \A x \in Slots : fs.slot[x].ref > 0 => Steady(fs, fs', x)
  BY <1>1, <1>2, <1>4, <1>5, DropOf
<1>7. SameCall(t, u) \/ (GoesOn(u) \in {"idle", "gone"} /\ u.old = 0)
  <2>1. CASE rest # <<>>
    <3>1. v = [t EXCEPT !.pc = "put", !.puts = rest, !.after = t.after]
      BY <2>1 DEF Puts
    <3>2. v.pc = "put" /\ v.after = t.after /\ v.op = t.op /\ v.par = t.par /\ v.ip = t.ip
          /\ v.dp = t.dp /\ v.old = t.old /\ v.fd = t.fd /\ v.n = t.n
      BY <1>2, <3>1 DEF CallShape, Idle
    <3> HIDE DEF v
    <3>3. u = v
      BY <3>2 DEF Ended
    <3> QED BY <1>3, <3>2, <3>3 DEF SameCall, GoesOn
  <2>2. CASE rest = <<>>
    <3>1. v = [t EXCEPT !.pc = t.after, !.puts = <<>>]
      BY <2>2 DEF Puts
    <3>2. v.pc = t.after /\ v.op = t.op /\ v.par = t.par /\ v.ip = t.ip
          /\ v.dp = t.dp /\ v.old = t.old /\ v.fd = t.fd /\ v.n = t.n
      BY <1>2, <3>1 DEF CallShape, Idle
    <3> HIDE DEF v
    <3>3. CASE t.after \in {"idle", "gone"}
      <4>1. u = [Idle EXCEPT !.pc = t.after]
        BY <3>2, <3>3 DEF Ended
      <4>2. u.pc = t.after /\ u.old = 0
        BY <4>1 DEF Idle
      <4> HIDE DEF u
      <4> QED BY <3>3, <4>2 DEF GoesOn
    <3>4. CASE t.after \notin {"idle", "gone"}
      <4>1. u = v
        BY <3>2, <3>4 DEF Ended
      <4> HIDE DEF u
      <4> QED BY <1>3, <3>2, <4>1 DEF SameCall, GoesOn
    <3> QED BY <3>3, <3>4
  <2> QED BY <2>1, <2>2
<1> HIDE DEF u
<1> QED BY <1>1, <1>6, <1>7, PuttingHolds

-----------------------------------------------------------------------------
(* The steps on files *)

\* A step that may change files; the call of p goes on where it relies on
\* nothing.
LEMMA NeutralTables ==
  ASSUME Whole, NEW p \in Procs, Grows(fs, fs'), Alone(p),
         \A i \in 1 .. NFILE : FileStays(i) \/ (fs'.panic = "none" => FileHolds(fs', ftable'[i])),
         GoesOn(th'[p]) \in Neutral, th'[p].old = 0
  PROVE  DiskInv'
<1>1. CallHolds(fs', ftable', ofile'[p], th'[p])
  BY NeutralHolds
<1> QED BY <1>1, GrowTables

LEMMA GotoOne ==
  ASSUME Whole, NEW p \in Procs, NEW u, Goto(p, u)
  PROVE  th'[p] = u /\ \A q \in Procs \ {p} : th'[q] = th[q]
BY WholeFacts, SoundFacts DEF TablesShape, Goto

LEMMA FdTable ==
  ASSUME Whole
  PROVE  /\ ofile \in [Procs -> [1 .. NOFILE -> 0 .. NFILE]]
         /\ ftable \in [1 .. NFILE -> Files]
         /\ \A i \in 1 .. NFILE : /\ ftable[i].ref = 0 => ftable[i].type = "none"
                                  /\ ftable[i].type # "inode" => ftable[i].ip = 0
BY WholeFacts, SoundFacts DEF TablesShape, FilesClean

LEMMA OpenTailHolds ==
  ASSUME Whole, NEW p \in Procs, NEW f, Grows(fs, f), OpenTail(p, f, th[p], th[p].ip),
         th[p].pc \in {"open", "create_found", "create_end"},
         f.panic = "none" =>
           Ready(f, th[p].ip) /\ (th[p].n # O_RDONLY => f.slot[th[p].ip].core.type # "dir")
  PROVE  DiskInv'
<1> DEFINE t == th[p]
           s == t.ip
<1>1. fs' = Unlock(f, s)
  BY DEF OpenTail
<1>2. Grows(fs, fs') /\ fs'.panic = f.panic
  BY <1>1, LocksGrow
<1>3. CASE Goto(p, Puts([t EXCEPT !.ip = 0], <<s>>, "idle")) /\ UNCHANGED <<ftable, ofile>>
  BY <1>2, <1>3, PutIpHolds DEF Neutral
<1>4. CASE FreeFiles # {} /\ FreeFds(p) # {}
  <2> DEFINE i == Min(FreeFiles)
             d == Min(FreeFds(p))
             file == [ref |-> 1, type |-> "inode", ip |-> s, off |-> 0,
                      readable |-> t.n # O_WRONLY, writable |-> t.n # O_RDONLY]
  <2>1. i \in 1 .. NFILE /\ ftable[i].ref = 0 /\ d \in 1 .. NOFILE
    BY <1>4, WholeFacts, FreeOnes
  <2>2. /\ ftable' = [ftable EXCEPT ![i] = file] /\ ofile' = [ofile EXCEPT ![p][d] = i]
        /\ Goto(p, Idle)
    BY <1>4 DEF OpenTail
  <2>3. ftable[i].type = "none"
    BY <2>1, FdTable
  <2> HIDE DEF i, d, file
  <2>4. \A j \in (1 .. NFILE) \ {i} : FileStays(j)
    BY <2>1, <2>2, FdTable DEF FileStays
  <2>5. ftable'[i] = file
    BY <2>1, <2>2, FdTable
  <2>6. fs'.panic = "none" => FileHolds(fs', file)
    <3> SUFFICES ASSUME fs'.panic = "none" PROVE FileHolds(fs', file)
      OBVIOUS
    <3>1. Ready(f, s) /\ Good(f) /\ (t.n # O_RDONLY => f.slot[s].core.type # "dir")
      BY <1>2 DEF Grows
    <3>2. FsShape(f) /\ s \in Slots /\ f.slot[s].valid
      BY <3>1 DEF Good, Ready
    <3>3. fs'.slot[s].valid = f.slot[s].valid /\ fs'.slot[s].core = f.slot[s].core
      BY <1>1, <3>2 DEF FsShape, Unlock
    <3>4. file.type = "inode" /\ file.ip = s /\ file.writable = (t.n # O_RDONLY)
      BY DEF file
    <3>5. s # 0
      BY <3>2, SizesAssumption DEF Slots
    <3> QED BY <3>1, <3>2, <3>3, <3>4, <3>5 DEF FileHolds, IsLoaded
  <2>7. \A j \in 1 .. NFILE : FileStays(j) \/ (fs'.panic = "none" => FileHolds(fs', ftable'[j]))
    BY <2>4, <2>5, <2>6
  <2>8. th'[p] = Idle /\ \A q \in Procs \ {p} : th'[q] = th[q]
    BY <2>2, GotoOne
  <2>9. \A q \in Procs \ {p} : ofile'[q] = ofile[q]
    BY <2>2, FdTable
  <2>10. Alone(p)
    <3>1. ASSUME NEW q \in Procs, NEW e \in 1 .. NOFILE, ofile[q][e] # 0, ftable[ofile[q][e]].type = "inode"
          PROVE  FileStays(ofile[q][e])
      <4>1. ofile[q][e] \in 1 .. NFILE
        BY <3>1, WholeFacts, FdRange
      <4> QED BY <2>3, <2>4, <3>1, <4>1
    <3> QED BY <2>8, <2>9, <3>1 DEF Alone
  <2>11. GoesOn(Idle) = "idle" /\ Idle.old = 0
    <3>1. GoesOn(Idle) = "idle"
      BY TallyIdle
    <3> QED BY <3>1 DEF Idle
  <2> QED BY <1>2, <2>7, <2>8, <2>10, <2>11, NeutralTables DEF Neutral
<1>5. \/ Goto(p, Puts([t EXCEPT !.ip = 0], <<s>>, "idle")) /\ UNCHANGED <<ftable, ofile>>
      \/ FreeFiles # {} /\ FreeFds(p) # {}
  BY DEF OpenTail
<1> QED BY <1>3, <1>4, <1>5

LEMMA sys_openHolds ==
  ASSUME Whole, NEW p \in Procs, sys_open(p)
  PROVE  DiskInv'
<1> DEFINE t == th[p]
           s == t.ip
           f == Loaded(fs, s)
<1>1. t.pc = "open" /\ s # 0
  BY DEF sys_open, Running, LockFree
<1>2. s \in Slots /\ Grows(fs, f) /\ (f.panic = "none" => Ready(f, s) /\ Good(f))
  BY <1>1, IpLoaded
<1>3. CASE /\ fs' = f /\ Goto(p, Puts([t EXCEPT !.ip = 0], <<s>>, "idle"))
           /\ UNCHANGED <<ftable, ofile>>
  BY <1>1, <1>2, <1>3, PutIpHolds DEF Neutral
<1>4. CASE ~(f.slot[s].core.type = "dir" /\ t.n # O_RDONLY) /\ OpenTail(p, f, t, s)
  <2>1. f.panic = "none" => Ready(f, s) /\ (t.n # O_RDONLY => f.slot[s].core.type # "dir")
    BY <1>2, <1>4
  <2> HIDE DEF f
  <2> QED BY <1>1, <1>2, <1>4, <2>1, OpenTailHolds
<1> QED BY <1>3, <1>4 DEF sys_open

LEMMA create_foundHolds ==
  ASSUME Whole, NEW p \in Procs, create_found(p)
  PROVE  DiskInv'
<1> DEFINE t == th[p]
           s == t.ip
           f == Loaded(fs, s)
<1>1. t.pc = "create_found" /\ s # 0
  BY DEF create_found, Running, LockFree
<1>2. s \in Slots /\ Grows(fs, f) /\ (f.panic = "none" => Ready(f, s) /\ Good(f))
  BY <1>1, IpLoaded
<1>3. CASE /\ fs' = f /\ Goto(p, Puts([t EXCEPT !.ip = 0], <<s>>, "idle"))
           /\ UNCHANGED <<ftable, ofile>>
  BY <1>1, <1>2, <1>3, PutIpHolds DEF Neutral
<1>4. CASE f.slot[s].core.type = "file" /\ OpenTail(p, f, t, s)
  <2>1. f.panic = "none" => Ready(f, s) /\ (t.n # O_RDONLY => f.slot[s].core.type # "dir")
    BY <1>2, <1>4
  <2> HIDE DEF f
  <2> QED BY <1>1, <1>2, <1>4, <2>1, OpenTailHolds
<1> QED BY <1>3, <1>4 DEF create_found

LEMMA create_endHolds ==
  ASSUME Whole, NEW p \in Procs, create_end(p)
  PROVE  DiskInv'
<1> DEFINE t == th[p]
           s == t.ip
<1>1. t.pc = "create_end"
  BY DEF create_end, Running
<1>2. Ready(fs, s) /\ fs.slot[s].core.type = TypeOf(t.op) /\ Grows(fs, fs)
  <2>0. 0 \notin Slots
    BY SizesAssumption DEF Slots
  <2>1. IsLoaded(fs, s) /\ fs.slot[s].core.type = TypeOf(t.op)
    <3>1. CallHolds(fs, ftable, ofile[p], t) /\ GoesOn(t) = "create_end"
      BY <1>1, AtCall
    <3> QED BY <3>1 DEF CallHolds
  <2> QED BY <1>1, <2>0, <2>1, AtCall DEF IsLoaded, Ready
<1>3. CASE /\ fs' = Unlock(fs, s) /\ Goto(p, Puts([t EXCEPT !.ip = 0], <<s>>, "idle"))
           /\ UNCHANGED <<ftable, ofile>>
  <2>1. Grows(fs, fs')
    BY <1>2, <1>3, LocksGrow
  <2> QED BY <1>1, <1>3, <2>1, PutIpHolds DEF Neutral
<1>4. CASE t.op = "create" /\ OpenTail(p, fs, t, s)
  <2>1. fs.slot[s].core.type = "file"
    BY <1>2, <1>4 DEF TypeOf
  <2> QED BY <1>1, <1>2, <1>4, <2>1, OpenTailHolds
<1> QED BY <1>3, <1>4 DEF create_end

LEMMA sys_dupHolds ==
  ASSUME Whole, NEW p \in Procs, NEW c \in 1 .. NOFILE, sys_dup(p, c)
  PROVE  DiskInv'
<1> DEFINE i == ofile[p][c]
<1>1. th[p].pc = "idle" /\ i # 0 /\ ftable' = filedup(ftable, i) /\ UNCHANGED <<fs, th>>
      /\ ofile' = [ofile EXCEPT ![p][Min(FreeFds(p))] = i]
  BY DEF sys_dup, ByFd, Running
<1>2. i \in 1 .. NFILE
  BY <1>1, WholeFacts, FdRange
<1> HIDE DEF i
<1>3. \A j \in 1 .. NFILE : FileStays(j)
  BY <1>1, <1>2, FdTable DEF filedup, FileStays, Files
<1>4. \A q \in Procs \ {p} : ofile'[q] = ofile[q]
  BY <1>1, FdTable
<1>5. Alone(p)
  <2>1. \A q \in Procs : \A d \in 1 .. NOFILE : ofile[q][d] # 0 => ofile[q][d] \in 1 .. NFILE
    BY WholeFacts, FdRange
  <2> QED BY <1>1, <1>3, <1>4, <2>1 DEF Alone
<1>6. GoesOn(th'[p]) = "idle" /\ th'[p].old = 0 /\ Grows(fs, fs')
  BY <1>1, AtCall DEF CallKeeps
<1> QED BY <1>3, <1>5, <1>6, NeutralTables DEF Neutral

\* The last descriptor of a file is of one process only.
LEMMA SoleFd ==
  ASSUME Whole, NEW p \in Procs, NEW d \in 1 .. NOFILE, NEW i \in 1 .. NFILE, ofile[p][d] = i,
         ~(ftable[i].ref > 1)
  PROVE  \A q \in Procs \ {p} : \A e \in 1 .. NOFILE : ofile[q][e] # i
<1> SUFFICES ASSUME NEW q \in Procs \ {p}, NEW e \in 1 .. NOFILE, ofile[q][e] = i PROVE FALSE
  OBVIOUS
<1> DEFINE S == FdsOf(i)
           T == {<<p, d>>, <<q, e>>}
<1>1. ftable[i].ref = Cardinality(S) + Cardinality(PipesOf(i))
  BY WholeFacts, SoundFacts DEF RefsCount, Sound
<1>2. IsFiniteSet(S) /\ Cardinality(S) \in Nat /\ Cardinality(PipesOf(i)) \in Nat
  <2>1. IsFiniteSet(Procs \X (1 .. NOFILE))
    BY TablesFinite, FS_Product
  <2>2. S \subseteq Procs \X (1 .. NOFILE)
    BY DEF FdsOf
  <2> QED BY <2>1, <2>2, FS_Subset, DescriptorsFinite
<1>3. T \subseteq S
  <2>1. <<p, d>> \in S
    BY DEF FdsOf
  <2>2. <<q, e>> \in S
    BY DEF FdsOf
  <2> QED BY <2>1, <2>2
<1>4. Cardinality(T) = 2
  <2> DEFINE A == {<<p, d>>}
  <2>1. <<q, e>> \notin A /\ T = A \cup {<<q, e>>}
    OBVIOUS
  <2>3. IsFiniteSet(A) /\ Cardinality(A) = 1
    BY FS_Singleton
  <2> HIDE DEF A
  <2>4. Cardinality(T) = Cardinality(A) + 1
    BY <2>1, <2>3, FS_AddElement
  <2> QED BY <2>3, <2>4
<1>5. Cardinality(T) <= Cardinality(S)
  BY <1>2, <1>3, FS_Subset
<1> HIDE DEF S, T
<1> QED BY <1>1, <1>2, <1>4, <1>5

\* A descriptor of p gives up its file.
LEMMA CloseAlone ==
  ASSUME Whole, NEW p \in Procs, NEW d \in 1 .. NOFILE, ofile[p][d] # 0,
         ofile' = [ofile EXCEPT ![p][d] = 0], ftable' = fileclose(ftable, ofile[p][d]),
         \A q \in Procs \ {p} : th'[q] = th[q]
  PROVE  /\ Alone(p)
         /\ \A i \in 1 .. NFILE : FileStays(i) \/ FileHolds(fs', ftable'[i])
<1> DEFINE i == ofile[p][d]
<1>1. i \in 1 .. NFILE
  BY WholeFacts, FdRange
<1>2. \A q \in Procs \ {p} : ofile'[q] = ofile[q]
  BY FdTable
<1>3. CASE ftable[i].ref > 1
  <2>1. ftable' = [ftable EXCEPT ![i].ref = @ - 1]
    BY <1>3 DEF fileclose
  <2> HIDE DEF i
  <2>2. \A j \in 1 .. NFILE : FileStays(j)
    BY <1>1, <2>1, FdTable DEF FileStays, Files
  <2>3. \A q \in Procs : \A e \in 1 .. NOFILE : ofile[q][e] # 0 => ofile[q][e] \in 1 .. NFILE
    BY WholeFacts, FdRange
  <2> QED BY <1>2, <2>2, <2>3 DEF Alone
<1>4. CASE ~(ftable[i].ref > 1)
  <2>1. ftable' = [ftable EXCEPT ![i] = NoFile]
    BY <1>4 DEF fileclose
  <2>2. \A q \in Procs \ {p} : \A e \in 1 .. NOFILE : ofile[q][e] # i
    BY <1>1, <1>4, SoleFd
  <2> HIDE DEF i
  <2>3. \A j \in (1 .. NFILE) \ {i} : FileStays(j)
    BY <1>1, <2>1, FdTable DEF FileStays
  <2>4. ftable'[i] = NoFile
    BY <1>1, <2>1, FdTable
  <2>5. FileHolds(fs', NoFile)
    <3>1. NoFile.type = "none"
      BY DEF NoFile
    <3> QED BY <3>1 DEF FileHolds
  <2>6. \A q \in Procs : \A e \in 1 .. NOFILE : ofile[q][e] # 0 => ofile[q][e] \in 1 .. NFILE
    BY WholeFacts, FdRange
  <2>7. Alone(p)
    BY <1>2, <2>2, <2>3, <2>6 DEF Alone
  <2> QED BY <2>3, <2>4, <2>5, <2>7
<1> QED BY <1>3, <1>4

LEMMA IdleAt ==
  ASSUME NEW pc, NEW op
  PROVE  /\ [Idle EXCEPT !.pc = pc, !.op = op].pc = pc /\ [Idle EXCEPT !.pc = pc, !.op = op].old = 0
         /\ [Idle EXCEPT !.op = op].pc = "idle" /\ [Idle EXCEPT !.op = op].old = 0
         /\ Idle.pc = "idle" /\ Idle.old = 0
BY DEF Idle

\* A call without references goes on to put the inode of a file.
LEMMA PutsFile ==
  ASSUME NEW t, CallShape(t), t.old = 0, NEW a \in {0} \cup Slots, NEW after
  PROVE  GoesOn(Puts(t, <<a>>, after)) = after /\ Puts(t, <<a>>, after).old = 0
<1> DEFINE u == Puts(t, <<a>>, after)
<1>1. IsPut(u, t, <<a>>, after)
  BY PutOne
<1> HIDE DEF u
<1>2. GoesOn(u) = after /\ u.old = 0
  BY <1>1 DEF IsPut
<1> QED BY <1>2 DEF u

LEMMA sys_closeHolds ==
  ASSUME Whole, NEW p \in Procs, NEW d \in 1 .. NOFILE, sys_close(p, d)
  PROVE  DiskInv'
<1> DEFINE i == ofile[p][d]
           t == [Idle EXCEPT !.op = "close"]
<1>1. th[p].pc = "idle" /\ i # 0 /\ UNCHANGED fs
      /\ ofile' = [ofile EXCEPT ![p][d] = 0] /\ ftable' = fileclose(ftable, i)
      /\ (UNCHANGED th \/ Goto(p, Puts(t, <<ftable[i].ip>>, "idle")))
  BY DEF sys_close, ByFd, Running
<1>2. i \in 1 .. NFILE
  BY <1>1, WholeFacts, FdRange
<1>3. ftable[i].ip \in {0} \cup Slots
  BY <1>2, FdTable DEF Files
<1>4. CallShape(t) /\ t.old = 0
  <2>1. t = [Idle EXCEPT !.pc = "idle", !.op = "close"]
    <3>1. Idle.pc = "idle" /\ "pc" \in DOMAIN Idle /\ Idle = [x \in DOMAIN Idle |-> Idle[x]]
      BY DEF Idle
    <3> HIDE DEF Idle
    <3> QED BY <3>1
  <2>2. t.old = 0
    BY IdleAt
  <2> HIDE DEF t
  <2> QED BY <2>1, <2>2, IdleWith
<1> HIDE DEF t
<1>5. GoesOn(Puts(t, <<ftable[i].ip>>, "idle")) = "idle" /\ Puts(t, <<ftable[i].ip>>, "idle").old = 0
  <2> DEFINE a == ftable[i].ip
  <2>1. a \in {0} \cup Slots
    BY <1>3
  <2> HIDE DEF a
  <2>2. GoesOn(Puts(t, <<a>>, "idle")) = "idle" /\ Puts(t, <<a>>, "idle").old = 0
    BY <1>4, <2>1, PutsFile
  <2> QED BY <2>2 DEF a
<1>6. GoesOn(th'[p]) = "idle" /\ th'[p].old = 0 /\ \A q \in Procs \ {p} : th'[q] = th[q]
  <2>1. CASE UNCHANGED th
    BY <1>1, <2>1, AtCall DEF CallKeeps
  <2>2. CASE Goto(p, Puts(t, <<ftable[i].ip>>, "idle"))
    BY <1>5, <2>2, GotoOne
  <2> QED BY <1>1, <2>1, <2>2
<1>7. Alone(p) /\ \A j \in 1 .. NFILE : FileStays(j) \/ FileHolds(fs', ftable'[j])
  BY <1>1, <1>6, CloseAlone
<1>8. Grows(fs, fs')
  BY <1>1, AtCall
<1> QED BY <1>6, <1>7, <1>8, NeutralTables DEF Neutral

LEMMA exit_closeHolds ==
  ASSUME Whole, NEW p \in Procs, exit_close(p)
  PROVE  DiskInv'
<1> DEFINE t == th[p]
           used == {d \in 1 .. NOFILE : ofile[p][d] # 0}
           d == Min(used)
           i == ofile[p][d]
<1>1. t.pc = "exit" /\ UNCHANGED fs
  BY DEF exit_close, Running
<1>2. Grows(fs, fs') /\ CallShape(t) /\ t.old = 0 /\ GoesOn(t) = "exit" /\ cwd[p] \in {0} \cup Slots
  BY <1>1, AtCall DEF CallKeeps
<1>3. CASE used = {}
  <2>1. Goto(p, Puts(t, <<cwd[p]>>, "gone")) /\ UNCHANGED <<ftable, ofile>>
    BY <1>3 DEF exit_close
  <2> DEFINE u == Puts(t, <<cwd[p]>>, "gone")
  <2>2. GoesOn(u) = "gone" /\ u.old = 0
    <3> DEFINE a == cwd[p]
    <3>1. a \in {0} \cup Slots /\ CallShape(t) /\ t.old = 0
      BY <1>2
    <3> HIDE DEF a, t
    <3>2. GoesOn(Puts(t, <<a>>, "gone")) = "gone" /\ Puts(t, <<a>>, "gone").old = 0
      BY <3>1, PutsFile
    <3> QED BY <3>2 DEF a, t
  <2>3. Goto(p, u)
    BY <2>1
  <2> HIDE DEF u
  <2> QED BY <1>1, <1>2, <2>1, <2>2, <2>3, NeutralStep DEF Neutral
<1>4. CASE used # {}
  <2>1. d \in used
    <3>1. used \subseteq Nat
      OBVIOUS
    <3> HIDE DEF used
    <3> QED BY <1>4, <3>1, LeastIn
  <2>2. d \in 1 .. NOFILE /\ i # 0
    BY <2>1
  <2>3. ofile' = [ofile EXCEPT ![p][d] = 0] /\ ftable' = fileclose(ftable, i)
        /\ (UNCHANGED th \/ Goto(p, Puts(t, <<ftable[i].ip>>, "exit")))
    BY <1>4 DEF exit_close
  <2> HIDE DEF d, used
  <2>4. i \in 1 .. NFILE
    BY <2>2, WholeFacts, FdRange
  <2>5. ftable[i].ip \in {0} \cup Slots
    BY <2>4, FdTable DEF Files
  <2>6. GoesOn(Puts(t, <<ftable[i].ip>>, "exit")) = "exit" /\ Puts(t, <<ftable[i].ip>>, "exit").old = 0
    BY <1>2, <2>5, PutsFile
  <2>7. GoesOn(th'[p]) = "exit" /\ th'[p].old = 0 /\ \A q \in Procs \ {p} : th'[q] = th[q]
    <3>1. CASE UNCHANGED th
      BY <1>2, <3>1
    <3>2. CASE Goto(p, Puts(t, <<ftable[i].ip>>, "exit"))
      BY <2>6, <3>2, GotoOne
    <3> QED BY <2>3, <3>1, <3>2
  <2>8. Alone(p) /\ \A j \in 1 .. NFILE : FileStays(j) \/ FileHolds(fs', ftable'[j])
    BY <2>2, <2>3, <2>7, CloseAlone
  <2> QED BY <1>2, <2>7, <2>8, NeutralTables DEF Neutral
<1> QED BY <1>3, <1>4

\* A step that changes no file of an inode, and leaves the inodes alone.
LEMMA PipeHolds ==
  ASSUME Whole, NEW p \in Procs, UNCHANGED fs, NEW u, Goto(p, u), u.pc \in {"pipe", "pipe_fds", "pipe_bad", "idle"},
         u.old = 0, \A q \in Procs \ {p} : ofile'[q] = ofile[q],
         \A j \in 1 .. NFILE : FileStays(j) \/ (ftable[j].type # "inode" /\ ftable'[j].type # "inode"),
         th[p].pc \notin {"put", "drop"}
  PROVE  DiskInv'
<1>1. \A j \in 1 .. NFILE : FileStays(j) \/ FileHolds(fs', ftable'[j])
  BY DEF FileHolds
<1>2. \A q \in Procs : \A d \in 1 .. NOFILE : ofile[q][d] # 0 => ofile[q][d] \in 1 .. NFILE
  BY WholeFacts, FdRange
<1>3. th'[p] = u /\ \A q \in Procs \ {p} : th'[q] = th[q]
  BY GotoOne
<1>4. Alone(p)
  BY <1>2, <1>3 DEF Alone
<1>5. GoesOn(u) = u.pc
  BY DEF GoesOn
<1>6. Grows(fs, fs')
  BY AtCall
<1> QED BY <1>1, <1>3, <1>4, <1>5, <1>6, NeutralTables DEF Neutral

LEMMA PipeQuiet ==
  ASSUME Whole, NEW p \in Procs, th[p].pc \in {"pipe", "pipe_fds", "pipe_bad"}
  PROVE  /\ \A pc, files : /\ [th[p] EXCEPT !.pc = pc].pc = pc /\ [th[p] EXCEPT !.pc = pc].old = 0
                           /\ [th[p] EXCEPT !.files = files].pc = th[p].pc
                           /\ [th[p] EXCEPT !.files = files].old = 0
         /\ \A j \in 1 .. NFILE : UNCHANGED ftable => FileStays(j)
<1>1. CallShape(th[p]) /\ th[p].old = 0
  BY WholeFacts, PipeCall
<1> QED BY <1>1 DEF CallShape, Idle, FileStays

LEMMA sys_pipeHolds ==
  ASSUME Whole, NEW p \in Procs, sys_pipe(p)
  PROVE  DiskInv'
<1> DEFINE u == [Idle EXCEPT !.pc = "pipe", !.op = "pipe"]
<1>1. th[p].pc = "idle" /\ Goto(p, u) /\ UNCHANGED <<fs, ftable, ofile>>
  BY DEF sys_pipe, Running
<1>2. u.pc = "pipe" /\ u.old = 0
  BY IdleAt
<1> HIDE DEF u
<1>3. \A j \in 1 .. NFILE : FileStays(j)
  BY <1>1 DEF FileStays
<1> QED BY <1>1, <1>2, <1>3, PipeHolds

LEMMA pipe_fileHolds ==
  ASSUME Whole, NEW p \in Procs, pipe_file(p)
  PROVE  DiskInv'
<1> DEFINE t == th[p]
<1>1. t.pc = "pipe" /\ UNCHANGED <<fs, ofile>>
  BY DEF pipe_file, Running
<1>2. CASE FreeFiles = {}
  <2> DEFINE u == [t EXCEPT !.pc = "pipe_bad"]
  <2>1. Goto(p, u) /\ UNCHANGED ftable
    BY <1>2 DEF pipe_file
  <2>2. u.pc = "pipe_bad" /\ u.old = 0 /\ \A j \in 1 .. NFILE : FileStays(j)
    BY <1>1, <2>1, PipeQuiet
  <2> HIDE DEF u
  <2> QED BY <1>1, <2>1, <2>2, PipeHolds
<1>3. CASE FreeFiles # {}
  <2> DEFINE i == Min(FreeFiles)
             files == Append(t.files, i)
             u == [t EXCEPT !.files = files]
  <2>1. Goto(p, u) /\ ftable' = [ftable EXCEPT ![i].ref = 1]
    BY <1>3 DEF pipe_file
  <2>2. i \in 1 .. NFILE
    BY <1>3, WholeFacts, FreeOnes
  <2> HIDE DEF i, files
  <2>3. \A j \in 1 .. NFILE : FileStays(j)
    BY <2>1, <2>2, FdTable DEF FileStays, Files
  <2>4. u.pc = "pipe" /\ u.old = 0
    BY <1>1, PipeQuiet
  <2> HIDE DEF u
  <2> QED BY <1>1, <2>1, <2>3, <2>4, PipeHolds
<1> QED BY <1>2, <1>3

LEMMA pipeallocHolds ==
  ASSUME Whole, NEW p \in Procs, pipealloc(p)
  PROVE  DiskInv'
<1> DEFINE t == th[p]
<1>1. t.pc = "pipe" /\ UNCHANGED <<fs, ofile>> /\ Len(t.files) = 2
  BY DEF pipealloc, Running
<1>2. CASE Goto(p, [t EXCEPT !.pc = "pipe_bad"]) /\ UNCHANGED ftable
  <2> DEFINE u == [t EXCEPT !.pc = "pipe_bad"]
  <2>2. u.pc = "pipe_bad" /\ u.old = 0 /\ \A j \in 1 .. NFILE : FileStays(j)
    BY <1>1, <1>2, PipeQuiet
  <2>3. Goto(p, u)
    BY <1>2
  <2> HIDE DEF u
  <2> QED BY <1>1, <2>2, <2>3, PipeHolds
<1>3. CASE /\ Goto(p, [t EXCEPT !.pc = "pipe_fds"])
           /\ ftable' = [ftable EXCEPT
                        ![t.files[1]] = [@ EXCEPT !.type = "pipe", !.readable = TRUE],
                        ![t.files[2]] = [@ EXCEPT !.type = "pipe", !.writable = TRUE]]
  <2> DEFINE u == [t EXCEPT !.pc = "pipe_fds"]
             a == t.files[1]
             b == t.files[2]
  <2>1. a \in 1 .. NFILE /\ b \in 1 .. NFILE /\ ftable[a].type # "inode" /\ ftable[b].type # "inode"
    BY <1>1, WholeFacts, PipeCall
  <2>2. u.pc = "pipe_fds" /\ u.old = 0 /\ Goto(p, u)
    BY <1>1, <1>3, PipeQuiet
  <2> HIDE DEF a, b, u
  <2>3. ftable' = [ftable EXCEPT ![a] = [@ EXCEPT !.type = "pipe", !.readable = TRUE],
                                 ![b] = [@ EXCEPT !.type = "pipe", !.writable = TRUE]]
    BY <1>3 DEF a, b
  <2>4. \A j \in (1 .. NFILE) \ {a, b} : ftable'[j] = ftable[j]
    BY <2>1, <2>3, FdTable
  <2>5. ftable'[a].type = "pipe" /\ ftable'[b].type = "pipe"
    BY <2>1, <2>3, FdTable DEF Files
  <2>6. \A j \in 1 .. NFILE : FileStays(j) \/ (ftable[j].type # "inode" /\ ftable'[j].type # "inode")
    BY <2>1, <2>4, <2>5 DEF FileStays
  <2> QED BY <1>1, <2>2, <2>6, PipeHolds
<1> QED BY <1>2, <1>3 DEF pipealloc

LEMMA pipe_badHolds ==
  ASSUME Whole, NEW p \in Procs, pipe_bad(p)
  PROVE  DiskInv'
<1> DEFINE t == th[p]
<1>1. t.pc = "pipe_bad" /\ UNCHANGED <<fs, ofile>>
  BY DEF pipe_bad, Running
<1>2. CASE Goto(p, Idle) /\ UNCHANGED ftable
  <2>1. \A j \in 1 .. NFILE : FileStays(j)
    BY <1>2 DEF FileStays
  <2> QED BY <1>1, <1>2, <2>1, PipeHolds, IdleAt
<1>3. CASE t.files # <<>> /\ ftable' = fileclose(ftable, Head(t.files)) /\ Goto(p, [t EXCEPT !.files = Tail(@)])
  <2> DEFINE i == Head(t.files)
             rest == Tail(t.files)
             u == [t EXCEPT !.files = rest]
  <2>1. i \in 1 .. NFILE /\ ftable[i].type # "inode" /\ ftable[i].ref >= 1
    <3> DEFINE q == t.files
    <3>1. q \in Seq(1 .. NFILE) /\ \A n \in DOMAIN q : q[n] \in 1 .. NFILE /\ ftable[q[n]].type # "inode" /\ ftable[q[n]].ref >= 1
      BY <1>1, WholeFacts, PipeCall
    <3>2. q # <<>> /\ i = Head(q)
      BY <1>3
    <3> HIDE DEF q, i
    <3>3. 1 \in DOMAIN q /\ i = q[1]
      BY <3>1, <3>2
    <3> QED BY <3>1, <3>3
  <2>2. u.pc = "pipe_bad" /\ u.old = 0 /\ Goto(p, u)
    BY <1>1, <1>3, PipeQuiet
  <2>3. ftable' = fileclose(ftable, i)
    BY <1>3
  <2> HIDE DEF i, u
  <2>4. /\ \A j \in (1 .. NFILE) \ {i} : ftable'[j] = ftable[j]
        /\ ftable[i].ref > 1 => ftable'[i].type = ftable[i].type
        /\ ~(ftable[i].ref > 1) => ftable'[i].type = "none"
    BY <2>1, <2>3, WholeFacts, Closed
  <2>5. \A j \in 1 .. NFILE : FileStays(j) \/ (ftable[j].type # "inode" /\ ftable'[j].type # "inode")
    BY <2>1, <2>4 DEF FileStays
  <2> QED BY <1>1, <2>2, <2>5, PipeHolds
<1> QED BY <1>2, <1>3 DEF pipe_bad

LEMMA pipe_fdsHolds ==
  ASSUME Whole, NEW p \in Procs, pipe_fds(p)
  PROVE  DiskInv'
<1> DEFINE t == th[p]
           v == [t EXCEPT !.pc = "pipe_bad"]
<1>1. t.pc = "pipe_fds" /\ UNCHANGED <<fs, ftable>>
  BY DEF pipe_fds, Running
<1>2. \A j \in 1 .. NFILE : FileStays(j)
  BY <1>1 DEF FileStays
<1>3. v.pc = "pipe_bad" /\ v.old = 0
  BY <1>1, PipeQuiet
<1>4. Goto(p, v) \/ Goto(p, Idle)
  BY DEF pipe_fds
<1>5. \A q \in Procs \ {p} : ofile'[q] = ofile[q]
  BY FdTable DEF pipe_fds
<1> HIDE DEF v
<1> QED BY <1>1, <1>2, <1>3, <1>4, <1>5, PipeHolds, IdleAt

LEMMA forkHolds ==
  ASSUME Whole, NEW p \in Procs, NEW q \in Procs, fork(p, q)
  PROVE  DiskInv'
<1>1. /\ th[p].pc = "idle" /\ ofile' = [ofile EXCEPT ![q] = ofile[p]]
      /\ fs' = idup(fs, cwd[p]) /\ Goto(q, Idle)
  BY DEF fork, Running
<1>2. Grows(fs, fs')
  <2>1. Good(fs) /\ cwd[p] \in {0} \cup Slots /\ (cwd[p] # 0 => fs.slot[cwd[p]].ref > 0)
    BY <1>1, AtCall
  <2> QED BY <1>1, <2>1, DupGrows
<1>3. ASSUME NEW i \in 1 .. NFILE PROVE FileStays(i)
  <2> DEFINE n == Cardinality({d \in 1 .. NOFILE : ofile[p][d] = i})
  <2>1. ftable'[i] = [ftable[i] EXCEPT !.ref = @ + n]
    BY DEF fork
  <2> HIDE DEF n
  <2> QED BY <2>1, FdTable DEF FileStays, Files
<1>4. th'[q] = Idle /\ \A o \in Procs \ {q} : th'[o] = th[o]
  BY <1>1, GotoOne
<1>5. \A o \in Procs \ {q} : ofile'[o] = ofile[o]
  BY <1>1, FdTable
<1>6. \A o \in Procs : \A d \in 1 .. NOFILE : ofile[o][d] # 0 => ofile[o][d] \in 1 .. NFILE
  BY WholeFacts, FdRange
<1>7. Alone(q)
  BY <1>3, <1>4, <1>5, <1>6 DEF Alone
<1>8. GoesOn(Idle) = "idle" /\ Idle.old = 0
  BY TallyIdle, IdleAt
<1> QED BY <1>2, <1>3, <1>4, <1>7, <1>8, NeutralTables DEF Neutral

LEMMA exitHolds ==
  ASSUME Whole, NEW p \in Procs, exit(p)
  PROVE  DiskInv'
<1> DEFINE u == [Idle EXCEPT !.pc = "exit", !.op = "exit"]
<1>1. th[p].pc = "idle" /\ Goto(p, u) /\ UNCHANGED <<fs, ftable, ofile>>
  BY DEF exit, Running
<1>2. u.pc = "exit" /\ u.old = 0
  BY IdleAt
<1> HIDE DEF u
<1>3. GoesOn(u) = "exit"
  BY <1>2 DEF GoesOn
<1>4. Grows(fs, fs')
  BY <1>1, AtCall
<1> QED BY <1>1, <1>2, <1>3, <1>4, NeutralStep DEF Neutral

LEMMA OffsetStays ==
  ASSUME Whole, NEW i \in 1 .. NFILE, ftable' = ftable \/ ftable' = [ftable EXCEPT ![i].off = @ + 1]
  PROVE  \A j \in 1 .. NFILE : FileStays(j)
<1>1. CASE ftable' = ftable
  BY <1>1 DEF FileStays
<1>2. CASE ftable' = [ftable EXCEPT ![i].off = @ + 1]
  <2>1. \A j \in (1 .. NFILE) \ {i} : ftable'[j] = ftable[j]
    BY <1>2, FdTable
  <2>2. ftable'[i] = [ftable[i] EXCEPT !.off = @ + 1] /\ ftable[i] \in Files
    BY <1>2, FdTable
  <2>3. FileStays(i)
    BY <2>2 DEF FileStays, Files
  <2> QED BY <2>1, <2>3 DEF FileStays
<1> QED BY <1>1, <1>2

\* A step on an open file that leaves the calls as they are.
LEMMA ReadHolds ==
  ASSUME Whole, NEW p \in Procs, th[p].pc = "idle", UNCHANGED <<ofile, th>>,
         NEW i \in 1 .. NFILE, ftable[i].type = "inode", ftable[i].ip # 0,
         fs' = Loaded(fs, ftable[i].ip), UNCHANGED ftable \/ ftable' = [ftable EXCEPT ![i].off = @ + 1]
  PROVE  DiskInv'
<1>1. ftable[i].ip \in Slots
  BY FdTable DEF Files
<1>2. Grows(fs, fs')
  BY <1>1, WholeFacts, LoadedGrows
<1>3. \A j \in 1 .. NFILE : FileStays(j)
  BY OffsetStays
<1>4. \A q \in Procs : \A d \in 1 .. NOFILE : ofile[q][d] # 0 => ofile[q][d] \in 1 .. NFILE
  BY WholeFacts, FdRange
<1>5. Alone(p)
  BY <1>3, <1>4 DEF Alone
<1>6. GoesOn(th'[p]) = "idle" /\ th'[p].old = 0
  BY AtCall DEF CallKeeps
<1> QED BY <1>2, <1>3, <1>5, <1>6, NeutralTables DEF Neutral

LEMMA sys_readHolds ==
  ASSUME Whole, NEW p \in Procs, NEW d \in 1 .. NOFILE, sys_read(p, d)
  PROVE  DiskInv'
<1> DEFINE i == ofile[p][d]
<1>1. /\ th[p].pc = "idle" /\ i # 0 /\ UNCHANGED <<ofile, th>>
      /\ ftable[i].type = "inode" /\ ftable[i].ip # 0
      /\ fs' = Loaded(fs, ftable[i].ip)
      /\ UNCHANGED ftable \/ ftable' = [ftable EXCEPT ![i].off = @ + 1]
  BY DEF sys_read, ByFd, Running, LockFree
<1>2. i \in 1 .. NFILE
  BY <1>1, WholeFacts, FdRange
<1> HIDE DEF i
<1> QED BY <1>1, <1>2, ReadHolds

LEMMA sys_fstatHolds ==
  ASSUME Whole, NEW p \in Procs, NEW d \in 1 .. NOFILE, sys_fstat(p, d)
  PROVE  DiskInv'
<1> DEFINE i == ofile[p][d]
<1>1. /\ th[p].pc = "idle" /\ i # 0 /\ UNCHANGED <<ofile, th, ftable>>
      /\ ftable[i].type = "inode" /\ ftable[i].ip # 0
      /\ fs' = Loaded(fs, ftable[i].ip)
  BY DEF sys_fstat, ByFd, Running, LockFree
<1>2. i \in 1 .. NFILE
  BY <1>1, WholeFacts, FdRange
<1> HIDE DEF i
<1> QED BY <1>1, <1>2, ReadHolds

LEMMA sys_writeHolds ==
  ASSUME Whole, NEW p \in Procs, NEW d \in 1 .. NOFILE, sys_write(p, d)
  PROVE  DiskInv'
<1> DEFINE i == ofile[p][d]
<1>1. /\ th[p].pc = "idle" /\ i # 0 /\ UNCHANGED <<fs, ftable, ofile>>
      /\ ftable[i].type = "inode" /\ ftable[i].writable
  BY DEF sys_write, ByFd, Running
<1>2. PICK k \in program : Goto(p, [Idle EXCEPT !.pc = "write", !.op = "write", !.fd = d, !.n = k.n])
  BY DEF sys_write
<1> DEFINE u == [Idle EXCEPT !.pc = "write", !.op = "write", !.fd = d, !.n = k.n]
<1>3. u.pc = "write" /\ u.fd = d /\ u.old = 0
  BY DEF Idle
<1>4. Goto(p, u)
  BY <1>2
<1> HIDE DEF u
<1>5. GoesOn(u) = "write"
  BY <1>3 DEF GoesOn
<1>6. CallHolds(fs', ftable, ofile[p], u)
  BY <1>1, <1>3, <1>5 DEF CallHolds
<1>7. Grows(fs, fs')
  BY <1>1, AtCall
<1> QED BY <1>1, <1>4, <1>6, <1>7, GrowStep

LEMMA filewriteHolds ==
  ASSUME Whole, NEW p \in Procs, filewrite(p)
  PROVE  DiskInv'
<1> DEFINE t == th[p]
           i == ofile[p][t.fd]
           s == ftable[i].ip
           off == ftable[i].off
           u == [t EXCEPT !.n = @ - 1]
<1>1. t.pc = "write" /\ UNCHANGED ofile
  BY DEF filewrite, Running
<1>2. /\ t.fd \in 1 .. NOFILE /\ i # 0 /\ ftable[i].type = "inode" /\ ftable[i].writable
      /\ t.old = 0 /\ CallShape(t) /\ GoesOn(t) = "write"
  <2>1. CallHolds(fs, ftable, ofile[p], t) /\ GoesOn(t) = "write" /\ CallShape(t) /\ CallKeeps(t)
    BY <1>1, AtCall
  <2>2. t.fd \in 1 .. NOFILE /\ i # 0 /\ ftable[i].type = "inode" /\ ftable[i].writable
    BY <2>1 DEF CallHolds
  <2>3. t.old = 0
    BY <2>1 DEF CallKeeps
  <2> QED BY <2>1, <2>2, <2>3
<1>3. i \in 1 .. NFILE
  BY <1>2, WholeFacts, FdRange
<1>4. off \in Nat
  BY <1>3, FdTable DEF Files
<1>5. s \in Slots /\ Ready(fs, s) /\ fs.slot[s].core.type # "dir" /\ Good(fs)
  <2>1. FileHolds(fs, ftable[i]) /\ Sound /\ Good(fs)
    BY <1>3, WholeFacts
  <2>2. IsLoaded(fs, s) /\ fs.slot[s].core.type # "dir"
    BY <1>2, <2>1 DEF FileHolds
  <2>3. s \in Slots
    BY <2>2 DEF IsLoaded
  <2>4. fs.slot[s].ref > 0
    BY <1>2, <1>3, <2>1, <2>3, InUse
  <2> QED BY <2>1, <2>2, <2>3, <2>4 DEF IsLoaded, Ready
<1>6. Loaded(fs, s) = fs
  <2> HIDE DEF s
  <2> QED BY <1>5, LoadedGrows
<1>7. \/ fs' = fs
      \/ off <= fs.slot[s].core.size /\ off < MAXFILE * UPB /\ fs' = writei(fs, s, off, "data")
  BY <1>6 DEF filewrite
<1>8. /\ UNCHANGED ftable \/ ftable' = [ftable EXCEPT ![i].off = @ + 1]
      /\ Goto(p, Idle) \/ Goto(p, u)
  BY DEF filewrite
<1>9. Grows(fs, fs')
  <2> HIDE DEF s, off
  <2>1. CASE fs' = fs
    BY <1>1, <2>1, AtCall
  <2>2. CASE off <= fs.slot[s].core.size /\ off < MAXFILE * UPB /\ fs' = writei(fs, s, off, "data")
    BY <1>4, <1>5, <2>2, WriteGrows
  <2> QED BY <1>7, <2>1, <2>2
<1>10. u.fd = t.fd /\ u.old = 0 /\ u.pc = "write"
  BY <1>1, <1>2 DEF CallShape, Idle
<1> HIDE DEF i, u, off
<1>11. \A j \in 1 .. NFILE : FileStays(j)
  BY <1>3, <1>8, OffsetStays
<1>12. \A q \in Procs \ {p} : th'[q] = th[q]
  BY <1>8, GotoOne
<1>13. Alone(p)
  <2>1. \A q \in Procs : \A d \in 1 .. NOFILE : ofile[q][d] # 0 => ofile[q][d] \in 1 .. NFILE
    BY WholeFacts, FdRange
  <2> QED BY <1>1, <1>11, <1>12, <2>1 DEF Alone
<1>14. CallHolds(fs', ftable', ofile'[p], th'[p])
  <2>1. CASE Goto(p, Idle)
    <3>1. th'[p] = Idle /\ GoesOn(Idle) = "idle" /\ Idle.old = 0
      BY <2>1, GotoOne, TallyIdle, IdleAt
    <3> QED BY <3>1, NeutralHolds DEF Neutral
  <2>2. CASE Goto(p, u)
    <3>1. th'[p] = u /\ GoesOn(u) = "write"
      BY <1>10, <2>2, GotoOne DEF GoesOn
    <3>2. ftable'[i].type = "inode" /\ ftable'[i].writable
      BY <1>2, <1>3, <1>11 DEF FileStays
    <3>3. ofile'[p][u.fd] = i
      BY <1>1, <1>10 DEF i
    <3> QED BY <1>2, <1>10, <3>1, <3>2, <3>3 DEF CallHolds
  <2> QED BY <1>8, <2>1, <2>2
<1> QED BY <1>9, <1>11, <1>13, <1>14, GrowTables

-----------------------------------------------------------------------------
(* The start, the start after a crash, and every step *)

FreshSlots == [s \in Slots |-> IF s = 1 THEN RootSlot ELSE EmptySlot]

LEMMA FreshCache ==
  ASSUME NEW f, f.slot = FreshSlots
  PROVE  CacheSound(f) /\ RefsNat(f)
<1>1. Cardinality(Procs) \in Nat
  BY FS_CardinalityType, SizesAssumption
<1>2. /\ RootSlot.inum = 1 /\ RootSlot.ref = Cardinality(Procs) /\ RootSlot.valid = FALSE
      /\ EmptySlot.ref = 0 /\ EmptySlot.valid = FALSE
  BY DEF RootSlot, EmptySlot, ROOTINO
<1>3. \A s \in Slots : /\ f.slot[s].ref \in Nat /\ f.slot[s].valid = FALSE
                       /\ f.slot[s].ref > 0 => s = 1 /\ f.slot[s].inum = 1
  BY <1>1, <1>2 DEF FreshSlots
<1>4. 1 \in Inums
  BY SizesAssumption
<1> QED BY <1>3, <1>4 DEF CacheSound, RefsNat

\* What a file or a call without inodes relies on.
LEMMA FreshTables ==
  /\ \A f, files, fds : CallHolds(f, files, fds, Idle)
  /\ \A f : FileHolds(f, NoFile)
<1>1. NoFile.type = "none"
  BY DEF NoFile
<1>2. GoesOn(Idle) = "idle" /\ Idle.old = 0
  BY TallyIdle, IdleAt
<1>3. \A f, files, fds : CallHolds(f, files, fds, Idle)
  BY <1>2, NeutralHolds DEF Neutral
<1> QED BY <1>1, <1>3 DEF FileHolds

LEMMA RootSound ==
  ASSUME Init
  PROVE  DiskSound(fs.dinode, fs)
<1> DEFINE R == RootInode
           D == fs.dinode
<1>1. /\ 1 \in Inums /\ 0 \notin Inums /\ 1 \in AllBlocks /\ 0 \in AllBlocks
      /\ NDIRECT \in Nat /\ NDIRECT > 0 /\ UPB \in Nat /\ UPB > 1
  BY Sizes, SizesAssumption
<1>2. DOMAIN fs.blk = AllBlocks /\ fs.bitmap = {0, 1}
  BY DEF Init, AllBlocks, Meta
<1>3. /\ DOMAIN D = Inums /\ D = [i \in Inums |-> D[i]] /\ D[1] = R
      /\ \A i \in Inums \ {1} : D[i] = FreeInode
  BY <1>1 DEF Init, ROOTINO
<1>4. /\ R.type = "dir" /\ R.nlink = 1 /\ R.size = 2
      /\ R.addrs = [i \in 1 .. NDIRECT + 1 |-> IF i = 1 THEN 1 ELSE 0]
      /\ R = [type |-> "dir", nlink |-> 1, size |-> 2, addrs |-> [i \in 1 .. NDIRECT + 1 |-> IF i = 1 THEN 1 ELSE 0]]
  <2> DEFINE z == [i \in 1 .. NDIRECT + 1 |-> 0]
             y == [i \in 1 .. NDIRECT + 1 |-> IF i = 1 THEN 1 ELSE 0]
  <2>1. y = [z EXCEPT ![1] = 1]
    BY <1>1
  <2>2. FreeInode = [type |-> "free", nlink |-> 0, size |-> 0, addrs |-> z]
    BY DEF FreeInode
  <2> DEFINE A == [type |-> "dir", nlink |-> 1, size |-> 2, addrs |-> z]
             B == [type |-> "free", nlink |-> 0, size |-> 0, addrs |-> z]
  <2> HIDE DEF z, y
  <2>3. R = [B EXCEPT !.type = "dir", !.nlink = 1, !.size = 2, !.addrs[1] = 1]
    BY <2>2 DEF RootInode
  <2>4. [B EXCEPT !.type = "dir", !.nlink = 1, !.size = 2, !.addrs[1] = 1]
          = [A EXCEPT !.addrs = y]
    <3> DEFINE B1 == [B EXCEPT !.type = "dir"]
               B2 == [B1 EXCEPT !.nlink = 1]
               B3 == [B2 EXCEPT !.size = 2]
    <3>1. B1 = [type |-> "dir", nlink |-> 0, size |-> 0, addrs |-> z]
      OBVIOUS
    <3> HIDE DEF B1
    <3>2. B2 = [type |-> "dir", nlink |-> 1, size |-> 0, addrs |-> z]
      BY <3>1
    <3> HIDE DEF B2
    <3>3. B3 = A
      BY <3>2
    <3>4. [B3 EXCEPT !.addrs[1] = 1] = [A EXCEPT !.addrs = y]
      <4> HIDE DEF B3
      <4>1. [A EXCEPT !.addrs[1] = 1] = [A EXCEPT !.addrs = [A.addrs EXCEPT ![1] = 1]]
        OBVIOUS
      <4>2. A.addrs = z
        OBVIOUS
      <4> HIDE DEF A
      <4> QED BY <3>3, <4>1, <4>2, <2>1
    <3>5. [B EXCEPT !.type = "dir", !.nlink = 1, !.size = 2, !.addrs[1] = 1]
            = [B3 EXCEPT !.addrs[1] = 1]
      <4> HIDE DEF B
      <4> QED BY Zenon DEF B3, B2, B1
    <3> QED BY <3>4, <3>5, Zenon
  <2>5. [A EXCEPT !.addrs = y] = [type |-> "dir", nlink |-> 1, size |-> 2, addrs |-> y]
    OBVIOUS
  <2>6. R = [type |-> "dir", nlink |-> 1, size |-> 2, addrs |-> y]
    BY <2>3, <2>4, <2>5
  <2> HIDE DEF R
  <2> QED BY <2>6 DEF y
<1>5. Indirect(R) = 0 /\ R.addrs[1] = 1 /\ \A k \in 1 .. NDIRECT : R.addrs[k] \in {0, 1}
  BY <1>1, <1>4 DEF Indirect
<1>6. DataBlocks(fs, R) \subseteq {0, 1} /\ 1 \in DataBlocks(fs, R)
  BY <1>1, <1>5 DEF DataBlocks
<1>7. Owned(fs, R) \subseteq {0, 1} /\ 1 \in Owned(fs, R)
  BY <1>5, <1>6 DEF Owned
<1>8. /\ FreeInode.addrs = FreeInode.addrs /\ FreeInode.size = 0 /\ FreeInode.type = "free"
      /\ FreeInode \in Cores
  <2>1. MAXFILE * UPB \in Nat /\ 0 \in 0 .. MAXFILE * UPB
    BY Sizes
  <2>2. [i \in 1 .. NDIRECT + 1 |-> 0] \in [1 .. NDIRECT + 1 -> AllBlocks]
    BY <1>1
  <2> QED BY <2>1, <2>2 DEF FreeInode, Cores
<1>9. Owned(fs, FreeInode) = {0} /\ InodeSound(fs, FreeInode)
  BY <1>8, NoBlocks, EmptySound
<1>10. R \in Cores
  <2>1. 2 \in 0 .. MAXFILE * UPB
    <3> DEFINE k == MAXFILE
    <3>1. k \in Nat /\ k >= 2
      BY Sizes
    <3> HIDE DEF k
    <3>2. k * UPB \in Nat /\ k * UPB >= 2
      BY <1>1, <3>1
    <3> QED BY <3>2 DEF k
  <2>2. R.addrs \in [1 .. NDIRECT + 1 -> AllBlocks]
    BY <1>1, <1>4
  <2> HIDE DEF R
  <2> QED BY <1>4, <2>1, <2>2 DEF Cores
<1>11. InodeSound(fs, R)
  <2>1. \A u \in 1 .. 2 : (u - 1) \div UPB = 0
    BY <1>1
  <2>2. BlockOf(fs, R, 1) = 1
    BY <1>1, <1>5 DEF BlockOf
  <2>3. \A u \in 1 .. R.size : BlockOf(fs, R, (u - 1) \div UPB + 1) # 0
    BY <1>4, <2>1, <2>2
  <2>4. DirBlock(fs.blk[1])
    <3> DEFINE z == [Zeroed EXCEPT ![1] = [name |-> ".", inum |-> ROOTINO],
                                   ![2] = [name |-> "..", inum |-> ROOTINO]]
    <3>1. fs.blk[1] = z
      BY <1>1 DEF Init, AllBlocks
    <3>2. DOMAIN z = 1 .. UPB /\ \A u \in 1 .. UPB : z[u].inum \in {0, 1}
      BY <1>1 DEF Zeroed, ROOTINO
    <3> HIDE DEF z
    <3> QED BY <1>1, <3>1, <3>2 DEF DirBlock
  <2>5. \A b \in DataBlocks(fs, R) \ {0} : DirBlock(fs.blk[b])
    BY <1>6, <2>4
  <2> HIDE DEF R
  <2> QED BY <1>4, <1>5, <2>3, <2>5 DEF InodeSound
<1> HIDE DEF R, D
<1>12. D \in [Inums -> Cores] /\ \A i \in Inums : InodeSound(fs, D[i])
  BY <1>3, <1>8, <1>9, <1>10, <1>11
<1>13. \A i, j \in Inums : i # j => Owned(fs, D[i]) \cap Owned(fs, D[j]) \subseteq {0}
  BY <1>3, <1>9
<1>14. \A b : b \in fs.bitmap <=> b \in Meta \/ (b # 0 /\ \E i \in Inums : b \in Owned(fs, D[i]))
  <2>1. \A i \in Inums : Owned(fs, D[i]) \subseteq {0, 1}
    BY <1>3, <1>7, <1>9
  <2>2. 1 \in Owned(fs, D[1])
    BY <1>3, <1>7
  <2> QED BY <1>1, <1>2, <2>1, <2>2 DEF Meta
<1> QED BY <1>2, <1>12, <1>13, <1>14 DEF DiskSound, D

LEMMA InitHolds ==
  ASSUME Init
  PROVE  DiskInv
<1>1. fs.slot = FreshSlots
  BY DEF Init, FreshSlots
<1>2. CacheSound(fs)
  BY <1>1, FreshCache
<1>3. ftable = [i \in 1 .. NFILE |-> NoFile] /\ th = [p \in Procs |-> Idle]
  BY DEF Init
<1>4. /\ \A p \in Procs : CallHolds(fs, ftable, ofile[p], th[p])
      /\ \A i \in 1 .. NFILE : FileHolds(fs, ftable[i])
  BY <1>3, FreshTables
<1> QED BY <1>2, <1>4, RootSound DEF DiskInv

LEMMA CrashHolds ==
  ASSUME Whole, Crash
  PROVE  DiskInv'
<1>1. Good(fs)
  BY WholeFacts
<1>2. /\ fs'.slot = FreshSlots
      /\ fs'.dinode = fs.dinode /\ fs'.blk = fs.blk /\ fs'.bitmap = fs.bitmap
  BY <1>1 DEF Crash, FreshSlots, Good, FsShape
<1>3. CacheSound(fs')
  BY <1>2, FreshCache
<1>4. DiskSound(fs'.dinode, fs')
  BY <1>1, <1>2, SoundFrame DEF Good
<1>5. ftable' = [i \in 1 .. NFILE |-> NoFile] /\ th' = [p \in Procs |-> Idle]
  BY DEF Crash
<1>6. /\ \A p \in Procs : CallHolds(fs', ftable', ofile'[p], th'[p])
      /\ \A i \in 1 .. NFILE : FileHolds(fs', ftable'[i])
  BY <1>5, FreshTables
<1> QED BY <1>3, <1>4, <1>6 DEF DiskInv

LEMMA HoldsStep ==
  ASSUME Whole, NEW p \in Procs, Step(p)
  PROVE  DiskInv'
<1>1. CASE \E call \in program : Begin(p, call)
  BY <1>1, BeginHolds
<1>2. CASE namex(p) \/ iput(p) \/ iput_drop(p)
  BY <1>2, namexHolds, iputHolds, iput_dropHolds
<1>3. CASE sys_open(p) \/ create(p) \/ create_found(p) \/ create_new(p) \/ create_end(p)
  BY <1>3, sys_openHolds, createHolds, create_foundHolds, create_newHolds, create_endHolds
<1>4. CASE sys_unlink(p) \/ unlink_ip(p) \/ unlink_bad(p) \/ unlink_drop(p)
  BY <1>4, sys_unlinkHolds, unlink_ipHolds, unlink_badHolds, unlink_dropHolds
<1>5. CASE sys_link(p) \/ link2(p) \/ link_exists(p) \/ link_bad(p)
  BY <1>5, sys_linkHolds, link2Holds, link_existsHolds, link_badHolds
<1>6. CASE sys_chdir(p) \/ exec(p)
  BY <1>6, sys_chdirHolds, execHolds
<1>7. ASSUME NEW d \in 1 .. NOFILE,
             sys_dup(p, d) \/ sys_close(p, d) \/ sys_read(p, d) \/ sys_fstat(p, d) \/ sys_write(p, d)
      PROVE  DiskInv'
  BY <1>7, sys_dupHolds, sys_closeHolds, sys_readHolds, sys_fstatHolds, sys_writeHolds
<1>8. CASE filewrite(p) \/ exit(p) \/ exit_close(p)
  BY <1>8, filewriteHolds, exitHolds, exit_closeHolds
<1>9. CASE \E q \in Procs : fork(p, q)
  BY <1>9, forkHolds
<1>10. CASE sys_pipe(p) \/ pipe_file(p) \/ pipealloc(p) \/ pipe_fds(p) \/ pipe_bad(p)
  BY <1>10, sys_pipeHolds, pipe_fileHolds, pipeallocHolds, pipe_fdsHolds, pipe_badHolds
<1> QED BY <1>1, <1>2, <1>3, <1>4, <1>5, <1>6, <1>7, <1>8, <1>9, <1>10 DEF Step

\* Initially and after every step of a call and every crash, short of a
\* panic: each inode on disk has the blocks that its size needs and no other
\* has them, the bitmap says so, the cache has what the disk has, and each
\* call finds the inodes that it has locked or holds as the point it has
\* reached in sysfile.c needs them (bmap(), writei(), itrunc(), ialloc(),
\* iput(), create()).
THEOREM DiskInvariant == Spec => []DiskInv
<1>1. Init => DiskInv
  BY InitHolds
<1>2. RefsInv /\ DiskInv /\ [Next]_vars => DiskInv'
  <2> SUFFICES ASSUME RefsInv, DiskInv, [Next]_vars
               PROVE  DiskInv'
    OBVIOUS
  <2>1. CASE fs.panic # "none"
    <3>1. UNCHANGED vars
      BY <2>1, PanicStops
    <3> QED BY <2>1, <3>1 DEF vars, DiskInv
  <2>2. CASE fs.panic = "none"
    <3>1. Whole
      BY <2>2 DEF Sound, Whole
    <3>2. CASE Crash
      BY <3>1, <3>2, CrashHolds
    <3>3. CASE \E p \in Procs : Step(p)
      BY <3>1, <3>3, HoldsStep
    <3>4. CASE UNCHANGED vars
      BY <3>4 DEF vars, DiskInv
    <3> QED BY <3>2, <3>3, <3>4 DEF Next
  <2> QED BY <2>1, <2>2
<1> QED BY <1>1, <1>2, RefsInvariant, PTL DEF Spec

\* Whatever inodes are freed, allocated again and put at once, no two slots
\* of the cache have the same inode and a valid slot has what the disk has
\* (iget(), ilock(), iupdate(), iput()).
THEOREM CacheStaysCoherent == Spec => []CacheCoherent
<1>1. DiskInv => CacheCoherent
  BY DEF DiskInv, CacheSound, CacheCoherent
<1> QED BY <1>1, DiskInvariant, PTL

\* No block of the disk is that of two inodes, and the bitmap marks the
\* blocks of the inodes and no others, for disks and files of any size
\* (balloc(), bfree(), bmap(), itrunc()).
THEOREM BlocksStayOwnedOnce == Spec => []BlocksOwnedOnce
<1>1. DiskInv => BlocksOwnedOnce
  <2> SUFFICES ASSUME DiskInv, fs.panic = "none"
               PROVE  /\ fs.bitmap = Meta \cup UNION {OwnBlocks(i) : i \in Inums}
                      /\ \A i, j \in Inums : i # j => OwnBlocks(i) \cap OwnBlocks(j) \subseteq {0}
    BY DEF BlocksOwnedOnce
  <2> DEFINE D == fs.dinode
  <2>1. DiskSound(D, fs)
    BY DEF DiskInv
  <2>2. ASSUME NEW i \in Inums PROVE OwnBlocks(i) = Owned(fs, D[i])
    <3> DEFINE core == D[i]
    <3>1. OwnBlocks(i) = {core.addrs[k] : k \in 1 .. NDIRECT + 1} \cup
                         (IF Indirect(core) = 0 THEN {} ELSE {fs.blk[Indirect(core)][k] : k \in 1 .. NINDIRECT})
      BY DEF OwnBlocks, Indirect
    <3>2. Owned(fs, core) = {Indirect(core)} \cup ({core.addrs[k] : k \in 1 .. NDIRECT} \cup
                         (IF Indirect(core) = 0 THEN {} ELSE {fs.blk[Indirect(core)][k] : k \in 1 .. NINDIRECT}))
      BY DEF Owned, DataBlocks
    <3> HIDE DEF core
    <3>3. {core.addrs[k] : k \in 1 .. NDIRECT + 1} = {Indirect(core)} \cup {core.addrs[k] : k \in 1 .. NDIRECT}
      <4>1. NDIRECT \in Nat /\ 1 .. NDIRECT + 1 = (1 .. NDIRECT) \cup {NDIRECT + 1}
        BY Sizes
      <4> QED BY <4>1 DEF Indirect
    <3> QED BY <3>1, <3>2, <3>3 DEF core
  <2> HIDE DEF D
  <2>3. \A i, j \in Inums : i # j => OwnBlocks(i) \cap OwnBlocks(j) \subseteq {0}
    BY <2>1, <2>2 DEF DiskSound
  <2>4. \A b : b \in fs.bitmap <=> b \in Meta \/ (b # 0 /\ \E i \in Inums : b \in OwnBlocks(i))
    BY <2>1, <2>2 DEF DiskSound
  <2>5. Meta = {0}
    BY Sizes
  <2> QED BY <2>3, <2>4, <2>5
<1> QED BY <1>1, DiskInvariant, PTL

=============================================================================
