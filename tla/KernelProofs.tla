---------------------------- MODULE KernelProofs ----------------------------
(***************************************************************************)
(* Proofs about the disk driver, for any blocks, and about the memory, for *)
(* any number of processes and pages and any layout of the page tables.    *)
(***************************************************************************)
EXTENDS Ide, Memory, TLAPS, WellFoundedInduction, SequenceTheorems

-----------------------------------------------------------------------------
(* The disk driver *)

LEMMA LeastOf ==
  ASSUME NEW S, S \subseteq Nat, S # {}
  PROVE  \E n \in S : \A m \in S : n <= m
<1>1. PICK n \in S : \A m \in S : ~(<<m, n>> \in OpToRel(<, Nat))
  BY NatLessThanWellFounded, WFMin
<1>2. ASSUME NEW m \in S, m < n PROVE FALSE
  <2>1. <<m, n>> \in Nat \X Nat /\ <<m, n>>[1] < <<m, n>>[2]
    BY <1>2
  <2>2. <<m, n>> \in OpToRel(<, Nat)
    BY <2>1 DEF OpToRel
  <2> QED BY <1>1, <2>2
<1>3. \A m \in S : n <= m
  BY <1>2
<1> QED BY <1>3

\* The request is linked in at one place, and nothing else moves.
LEMMA EnlistedAt ==
  ASSUME NEW q \in Seq(Blocks), NEW b \in Blocks
  PROVE  /\ Enlisted(q, b) \in Seq(Blocks) /\ Len(Enlisted(q, b)) = Len(q) + 1
         /\ \E n \in 1 .. Len(q) + 1 : \A i \in 1 .. Len(q) + 1 :
              Enlisted(q, b)[i] = IF i < n THEN q[i] ELSE IF i = n THEN b ELSE q[i - 1]
<1> DEFINE later == {i \in 1 .. Len(q) : b < q[i]}
           n == IF later = {} THEN Len(q) + 1 ELSE CHOOSE i \in later : \A j \in later : i <= j
           front == SubSeq(q, 1, n - 1)
           back == SubSeq(q, n, Len(q))
<1>1. n \in 1 .. Len(q) + 1
  <2>1. later # {} => \E i \in later : \A j \in later : i <= j
    <3>1. later \subseteq Nat
      OBVIOUS
    <3> HIDE DEF later
    <3> QED BY <3>1, LeastOf
  <2>2. later # {} => (CHOOSE i \in later : \A j \in later : i <= j) \in later
    BY <2>1
  <2> QED BY <2>2
<1>2. Enlisted(q, b) = front \o <<b>> \o back
  BY DEF Enlisted
<1> HIDE DEF n, later
<1>3. /\ front \in Seq(Blocks) /\ Len(front) = n - 1 /\ \A i \in 1 .. n - 1 : front[i] = q[i]
  BY <1>1
<1>4. /\ back \in Seq(Blocks) /\ Len(back) = Len(q) - n + 1
      /\ \A i \in 1 .. Len(q) - n + 1 : back[i] = q[i + n - 1]
  BY <1>1
<1> HIDE DEF front, back
<1>5. /\ front \o <<b>> \in Seq(Blocks) /\ Len(front \o <<b>>) = n
      /\ \A i \in 1 .. n : (front \o <<b>>)[i] = IF i < n THEN q[i] ELSE b
  BY <1>1, <1>3
<1> DEFINE fb == front \o <<b>>
<1> HIDE DEF fb
<1>8. fb \in Seq(Blocks) /\ Len(fb) = n
  BY <1>5 DEF fb
<1>6. /\ fb \o back \in Seq(Blocks) /\ Len(fb \o back) = Len(q) + 1
      /\ \A i \in 1 .. Len(q) + 1 : (fb \o back)[i] = IF i <= n THEN fb[i] ELSE back[i - n]
  <2>1. fb \o back \in Seq(Blocks)
    BY <1>4, <1>8
  <2>2. Len(fb \o back) = Len(fb) + Len(back)
    BY <1>4, <1>8
  <2> QED BY <2>1, <2>2, <1>1, <1>4, <1>8
<1>7. \A i \in 1 .. Len(q) + 1 :
        Enlisted(q, b)[i] = IF i < n THEN q[i] ELSE IF i = n THEN b ELSE q[i - 1]
  <2> SUFFICES ASSUME NEW i \in 1 .. Len(q) + 1
               PROVE  Enlisted(q, b)[i] = IF i < n THEN q[i] ELSE IF i = n THEN b ELSE q[i - 1]
    OBVIOUS
  <2>1. CASE i <= n
    BY <2>1, <1>1, <1>2, <1>5, <1>6 DEF fb
  <2>2. CASE i > n
    <3>1. i - n \in 1 .. Len(q) - n + 1 /\ (i - n) + n - 1 = i - 1
      BY <2>2, <1>1
    <3>2. back[i - n] = q[i - 1]
      BY <3>1, <1>4
    <3> QED BY <3>2, <2>2, <1>1, <1>2, <1>6 DEF fb
  <2> QED BY <2>1, <2>2, <1>1
<1> QED BY <1>1, <1>2, <1>6, <1>7 DEF fb

Once(q) == \A i, j \in 1 .. Len(q) : q[i] = q[j] => i = j
Has(q, b) == \E i \in 1 .. Len(q) : q[i] = b

\* So the queue has the old requests and the new one, each once, and begins
\* with the new one or as before.
LEMMA EnlistedQueue ==
  ASSUME NEW q \in Seq(Blocks), NEW b \in Blocks, Once(q), ~Has(q, b),
         NEW r, r = Enlisted(q, b)
  PROVE  /\ r \in Seq(Blocks) /\ r # <<>> /\ Once(r)
         /\ \A c \in Blocks : Has(r, c) <=> c = b \/ Has(q, c)
         /\ r[1] # b => q # <<>> /\ r[1] = q[1]
<1> USE DEF Once, Has
<1>1. r \in Seq(Blocks) /\ Len(r) = Len(q) + 1
  BY EnlistedAt
<1>2. PICK n \in 1 .. Len(q) + 1 : \A i \in 1 .. Len(q) + 1 :
              r[i] = IF i < n THEN q[i] ELSE IF i = n THEN b ELSE q[i - 1]
  BY EnlistedAt
<1>3. \A i, j \in 1 .. Len(r) : r[i] = r[j] => i = j
  <2> SUFFICES ASSUME NEW i \in 1 .. Len(r), NEW j \in 1 .. Len(r), r[i] = r[j], i < j
               PROVE  FALSE
    BY <1>1
  <2>1. CASE j < n
    BY <2>1, <1>1, <1>2
  <2>2. CASE j = n
    BY <2>2, <1>1, <1>2
  <2>3. CASE j > n /\ i < n
    <3>1. j - 1 \in 1 .. Len(q) /\ i \in 1 .. Len(q) /\ i # j - 1
      BY <2>3, <1>1
    <3>2. r[i] = q[i] /\ r[j] = q[j - 1]
      BY <2>3, <1>1, <1>2
    <3> QED BY <3>1, <3>2
  <2>4. CASE j > n /\ i = n
    <3>1. j - 1 \in 1 .. Len(q) /\ r[j] = q[j - 1] /\ r[i] = b
      BY <2>4, <1>1, <1>2
    <3> QED BY <3>1
  <2>5. CASE j > n /\ i > n
    <3>1. /\ j - 1 \in 1 .. Len(q) /\ r[j] = q[j - 1] /\ i - 1 \in 1 .. Len(q) /\ r[i] = q[i - 1]
          /\ i - 1 # j - 1
      BY <2>5, <1>1, <1>2
    <3> QED BY <3>1
  <2> QED BY <2>1, <2>2, <2>3, <2>4, <2>5, <1>1
<1>4. ASSUME NEW c \in Blocks, NEW i \in 1 .. Len(r), r[i] = c
      PROVE  c = b \/ \E k \in 1 .. Len(q) : q[k] = c
  <2>1. CASE i < n
    BY <2>1, <1>1, <1>2, <1>4
  <2>2. CASE i > n
    <3>1. i - 1 \in 1 .. Len(q) /\ r[i] = q[i - 1]
      BY <2>2, <1>1, <1>2
    <3> QED BY <3>1, <1>4
  <2> QED BY <2>1, <2>2, <1>1, <1>2, <1>4
<1>5. ASSUME NEW c \in Blocks, NEW k \in 1 .. Len(q), q[k] = c
      PROVE  \E i \in 1 .. Len(r) : r[i] = c
  <2>1. CASE k < n
    BY <2>1, <1>1, <1>2, <1>5
  <2>2. CASE k >= n
    <3>1. k + 1 \in 1 .. Len(r) /\ r[k + 1] = q[(k + 1) - 1] /\ (k + 1) - 1 = k
      BY <2>2, <1>1, <1>2
    <3> QED BY <3>1, <1>5
  <2> QED BY <2>1, <2>2
<1>6. r[n] = b /\ n \in 1 .. Len(r)
  BY <1>1, <1>2
<1>7. r[1] # b => q # <<>> /\ r[1] = q[1]
  BY <1>1, <1>2
<1> QED BY <1>1, <1>3, <1>4, <1>5, <1>6, <1>7

LEMMA IdeInitInv == IdeInit => IdeInv
<1> SUFFICES ASSUME IdeInit PROVE IdeInv
  OBVIOUS
<1>1. IdeShape
  <2>1. dev = [block |-> NoBlock, write |-> FALSE, bdata |-> NoData, busy |-> FALSE]
    BY DEF IdeInit
  <2>2. /\ dev \in [block : Blocks \cup {NoBlock}, write : BOOLEAN, bdata : {0, 1, NoData},
                     busy : BOOLEAN]
        /\ ~dev.write
    BY <2>1
  <2>3. queue \in Seq(Blocks)
    BY DEF IdeInit
  <2> QED BY <2>2, <2>3 DEF IdeInit, IdeShape
<1>2. QueueOfSleepers /\ DiskWorksOnHead
  BY DEF IdeInit, QueueOfSleepers, DiskWorksOnHead
<1>3. BuffersHold /\ DiskCatchesUp
  BY DEF IdeInit, BuffersHold, DiskCatchesUp, Finished
<1> QED BY <1>1, <1>2, <1>3 DEF IdeInv

\* What the disk holds when its command is finished.
LEMMA FinishedType ==
  IdeShape => /\ Finished \in [Blocks -> {0, 1}]
              /\ \A b \in Blocks : Finished[b] = IF dev.busy /\ dev.write /\ dev.block = b
                                                 THEN dev.bdata ELSE platter[b]
  BY DEF IdeShape, Finished

LEMMA DiskDoneInv == IdeInv /\ disk_done => IdeInv'
<1> SUFFICES ASSUME IdeInv, disk_done PROVE IdeInv'
  OBVIOUS
<1> USE DEF disk_done, bufs, ideHist
<1>1. IdeShape
  BY DEF IdeInv
<1>2. platter' \in [Blocks -> {0, 1}] /\ dev' = [dev EXCEPT !.busy = FALSE]
  BY <1>1, FinishedType
<1>3. IdeShape'
  BY <1>1, <1>2 DEF IdeShape
<1>4. Finished' = Finished
  <2>1. dev'.busy = FALSE
    BY <1>1, <1>2 DEF IdeShape
  <2> QED BY <2>1 DEF Finished
<1>5. ASSUME ~failed' PROVE (QueueOfSleepers /\ BuffersHold /\ DiskWorksOnHead /\ DiskCatchesUp)'
  <2>1. QueueOfSleepers /\ BuffersHold /\ DiskWorksOnHead /\ DiskCatchesUp
    BY <1>5 DEF IdeInv
  <2>2. QueueOfSleepers' /\ BuffersHold'
    BY <2>1 DEF QueueOfSleepers, BuffersHold
  <2>3. DiskWorksOnHead'
    BY <2>1, <1>1, <1>2 DEF DiskWorksOnHead, IdeShape
  <2>4. DiskCatchesUp'
    BY <2>1, <1>4 DEF DiskCatchesUp
  <2> QED BY <2>2, <2>3, <2>4
<1> QED BY <1>3, <1>5 DEF IdeInv

LEMMA IderwReturnInv ==
  ASSUME IdeInv, NEW b \in Blocks, iderw_return(b)
  PROVE  IdeInv'
<1> USE DEF iderw_return, hw, ideHist
<1>1. IdeShape
  BY DEF IdeInv
<1>3. IdeShape'
  BY <1>1 DEF IdeShape
<1>4. Finished' = Finished
  BY DEF Finished
<1>5. ASSUME ~failed' PROVE (QueueOfSleepers /\ BuffersHold /\ DiskWorksOnHead /\ DiskCatchesUp)'
  <2>1. QueueOfSleepers /\ BuffersHold /\ DiskWorksOnHead /\ DiskCatchesUp
    BY <1>5 DEF IdeInv
  <2>2. caller' = [caller EXCEPT ![b] = "out"]
    BY <2>1 DEF BuffersHold
  <2>3. QueueOfSleepers'
    BY <2>1, <2>2, <1>1 DEF QueueOfSleepers, IdeShape
  <2>4. BuffersHold'
    BY <2>1, <2>2, <1>1 DEF BuffersHold, IdeShape
  <2>5. DiskWorksOnHead' /\ DiskCatchesUp'
    BY <2>1, <1>4 DEF DiskWorksOnHead, DiskCatchesUp
  <2> QED BY <2>3, <2>4, <2>5
<1> QED BY <1>3, <1>5 DEF IdeInv

LEMMA IderwInv ==
  ASSUME IdeInv, NEW b \in Blocks, NEW w \in BOOLEAN, NEW latched \in BOOLEAN,
         NEW ready \in BOOLEAN, iderw(b, w, latched, ready)
  PROVE  IdeInv'
<1> DEFINE new == IF w THEN 1 - latest[b] ELSE NoData
           started == queue'[1] = b /\ ready
<1>1. IdeShape
  BY DEF IdeInv
<1>2. /\ caller[b] = "out" /\ calls' = calls + 1
      /\ valid' = [valid EXCEPT ![b] = w /\ @]
      /\ dirty' = [dirty EXCEPT ![b] = w]
      /\ bdata' = [bdata EXCEPT ![b] = new]
      /\ latest' = [latest EXCEPT ![b] = IF w THEN 1 - @ ELSE @]
      /\ queue' = Enlisted(queue, b)
      /\ caller' = [caller EXCEPT ![b] = "sleep"]
      /\ failed' = (failed \/ (queue'[1] = b /\ ~ready))
  BY DEF iderw, Enqueue
<1>3. /\ started => /\ platter' = Finished /\ irq' = (irq \/ (dev.busy /\ latched))
                   /\ dev' = Command(b, w, bdata'[b])
      /\ ~started => UNCHANGED <<platter, dev, irq>>
  BY DEF iderw, hw
<1>4. new \in {0, 1, NoData} /\ (w => new \in {0, 1}) /\ bdata'[b] = new
  BY <1>1, <1>2 DEF IdeShape
<1>5. IdeShape'
  <2>1. queue' \in Seq(Blocks)
    BY <1>1, <1>2, EnlistedAt DEF IdeShape
  <2>2. /\ valid' \in [Blocks -> BOOLEAN] /\ dirty' \in [Blocks -> BOOLEAN]
        /\ caller' \in [Blocks -> {"out", "sleep", "woken"}]
    BY <1>1, <1>2 DEF IdeShape
  <2>3. bdata' \in [Blocks -> {0, 1, NoData}] /\ latest' \in [Blocks -> {0, 1}]
    BY <1>1, <1>2, <1>4 DEF IdeShape
  <2>4. calls' \in Nat /\ failed' \in BOOLEAN
    BY <1>1, <1>2 DEF IdeShape
  <2>5. /\ platter' \in [Blocks -> {0, 1}] /\ irq' \in BOOLEAN
        /\ dev' \in [block : Blocks \cup {NoBlock}, write : BOOLEAN, bdata : {0, 1, NoData},
                     busy : BOOLEAN]
        /\ dev'.write => dev'.block \in Blocks /\ dev'.bdata \in {0, 1}
    <3>1. CASE started
      <4>1. /\ platter' = Finished /\ irq' = (irq \/ (dev.busy /\ latched))
            /\ dev' = [block |-> b, write |-> w, bdata |-> IF w THEN new ELSE NoData, busy |-> TRUE]
        BY <3>1, <1>3, <1>4 DEF Command
      <4>2. irq \in BOOLEAN /\ dev.busy \in BOOLEAN /\ Finished \in [Blocks -> {0, 1}]
        BY <1>1, FinishedType DEF IdeShape
      <4>3. platter' \in [Blocks -> {0, 1}] /\ irq' \in BOOLEAN
        BY <4>1, <4>2
      <4> HIDE DEF new
      <4> QED BY <4>1, <4>3, <1>4
    <3>2. CASE ~started
      BY <3>2, <1>1, <1>3 DEF IdeShape
    <3> QED BY <3>1, <3>2
  <2>6. \A c \in Blocks : dirty'[c] => bdata'[c] \in {0, 1}
    <3> HIDE DEF new
    <3> QED BY <1>1, <1>2, <1>4 DEF IdeShape
  <2> QED BY <2>1, <2>2, <2>3, <2>4, <2>5, <2>6 DEF IdeShape
<1>6. ASSUME ~failed' PROVE (QueueOfSleepers /\ BuffersHold /\ DiskWorksOnHead /\ DiskCatchesUp)'
  <2>1. QueueOfSleepers /\ BuffersHold /\ DiskWorksOnHead /\ DiskCatchesUp
    BY <1>6, <1>2 DEF IdeInv
  <2>2. Once(queue) /\ \A c \in Blocks : caller[c] = "sleep" <=> Has(queue, c)
    BY <2>1 DEF QueueOfSleepers, Once, Has
  <2>3. /\ queue' # <<>> /\ Once(queue')
        /\ \A c \in Blocks : Has(queue', c) <=> c = b \/ Has(queue, c)
        /\ queue'[1] # b => queue # <<>> /\ queue'[1] = queue[1]
    <3>1. queue \in Seq(Blocks) /\ ~Has(queue, b)
      BY <1>1, <1>2, <2>2 DEF IdeShape
    <3> QED BY <3>1, <1>2, <2>2, EnlistedQueue
  <2>4. QueueOfSleepers'
    <3>1. \A c \in Blocks : caller'[c] = "sleep" <=> c = b \/ caller[c] = "sleep"
      BY <1>1, <1>2 DEF IdeShape
    <3>2. \A c \in Blocks : caller'[c] = "sleep" <=> Has(queue', c)
      BY <3>1, <2>2, <2>3
    <3> QED BY <3>2, <2>3 DEF QueueOfSleepers, Once, Has
  <2>5. BuffersHold'
    BY <2>1, <1>1, <1>2 DEF BuffersHold, IdeShape
  <2>6. started \/ (queue # <<>> /\ queue'[1] = queue[1] /\ queue[1] # b)
    BY <1>6, <1>2, <2>3
  <2>7. ASSUME started PROVE (DiskWorksOnHead /\ DiskCatchesUp)'
    <3>1. dev' = Command(b, w, new) /\ platter' = Finished
      BY <2>7, <1>3, <1>4
    <3>2. /\ dev'.block = b /\ dev'.write = w /\ dev'.busy
          /\ w => dev'.bdata = new /\ new = latest'[b]
      BY <3>1, <1>1, <1>2 DEF Command, IdeShape
    <3>3. DiskWorksOnHead'
      BY <2>7, <3>2, <1>1, <1>2 DEF DiskWorksOnHead, IdeShape
    <3>4. \A c \in Blocks : Finished'[c] = IF w /\ c = b THEN latest'[b] ELSE Finished[c]
      <4>1. \A c \in Blocks : Finished'[c] = IF dev'.busy /\ dev'.write /\ dev'.block = c
                                             THEN dev'.bdata ELSE platter'[c]
        BY <1>5 DEF IdeShape, Finished
      <4> QED BY <4>1, <3>1, <3>2
    <3>5. ASSUME NEW c \in Blocks, ~dirty'[c] \/ c = b PROVE Finished'[c] = latest'[c]
      <4>1. CASE c = b
        <5>1. CASE w
          BY <5>1, <4>1, <3>4
        <5>2. CASE ~w
          <6>1. ~dirty[b] /\ latest'[b] = latest[b]
            BY <5>2, <2>1, <1>1, <1>2 DEF BuffersHold, IdeShape
          <6> QED BY <6>1, <5>2, <4>1, <3>4, <2>1 DEF DiskCatchesUp
        <5> QED BY <5>1, <5>2
      <4>2. CASE c # b
        <5>1. ~dirty[c] /\ latest'[c] = latest[c]
          BY <4>2, <3>5, <1>1, <1>2 DEF IdeShape
        <5> QED BY <5>1, <4>2, <3>4, <2>1 DEF DiskCatchesUp
      <4> QED BY <4>1, <4>2
    <3> QED BY <3>3, <3>5, <2>7 DEF DiskCatchesUp
  <2>8. ASSUME ~started, queue # <<>>, queue'[1] = queue[1], queue[1] # b
        PROVE  (DiskWorksOnHead /\ DiskCatchesUp)'
    <3>1. UNCHANGED <<platter, dev>> /\ Finished' = Finished
      BY <2>8, <1>3 DEF Finished
    <3>2. queue[1] \in Blocks
      BY <2>8, <1>1 DEF IdeShape
    <3>3. DiskWorksOnHead'
      BY <2>8, <3>1, <3>2, <2>1, <1>1, <1>2 DEF DiskWorksOnHead, IdeShape
    <3>4. ASSUME NEW c \in Blocks, ~dirty'[c] \/ queue'[1] = c PROVE Finished'[c] = latest'[c]
      <4>1. CASE c = b
        <5>1. ~w /\ latest'[b] = latest[b] /\ ~dirty[b]
          BY <4>1, <3>4, <2>8, <2>1, <1>1, <1>2 DEF BuffersHold, IdeShape
        <5> QED BY <5>1, <4>1, <3>1, <2>1 DEF DiskCatchesUp
      <4>2. CASE c # b
        <5>1. dirty'[c] = dirty[c] /\ latest'[c] = latest[c]
          BY <4>2, <1>1, <1>2 DEF IdeShape
        <5> QED BY <5>1, <4>2, <3>4, <3>1, <2>1, <2>8 DEF DiskCatchesUp
      <4> QED BY <4>1, <4>2
    <3> QED BY <3>3, <3>4 DEF DiskCatchesUp
  <2> QED BY <2>4, <2>5, <2>6, <2>7, <2>8
<1> QED BY <1>5, <1>6 DEF IdeInv

\* An interrupt with nothing queued changes nothing.
LEMMA IdleIntrInv ==
  ASSUME IdeInv, irq' \in BOOLEAN, UNCHANGED <<queue, bufs, platter, dev, failed, calls, latest>>
  PROVE  IdeInv'
<1>1. IdeShape'
  BY DEF IdeInv, IdeShape, bufs
<1>2. Finished' = Finished
  BY DEF Finished
<1>3. ASSUME ~failed' PROVE (QueueOfSleepers /\ BuffersHold /\ DiskWorksOnHead /\ DiskCatchesUp)'
  BY <1>2, <1>3 DEF IdeInv, QueueOfSleepers, BuffersHold, DiskWorksOnHead, DiskCatchesUp, bufs
<1> QED BY <1>1, <1>3 DEF IdeInv

\* The rest of a queue without repetitions.
LEMMA RestOfQueue ==
  ASSUME NEW q \in Seq(Blocks), q # <<>>, Once(q)
  PROVE  /\ Tail(q) \in Seq(Blocks) /\ Head(q) = q[1] /\ Head(q) \in Blocks
         /\ Once(Tail(q)) /\ ~Has(Tail(q), Head(q))
         /\ \A c \in Blocks : Has(q, c) <=> c = Head(q) \/ Has(Tail(q), c)
         /\ Tail(q) # <<>> => Tail(q)[1] \in Blocks /\ Has(Tail(q), Tail(q)[1])
<1> DEFINE t == Tail(q)
<1>1. /\ t \in Seq(Blocks) /\ Len(t) = Len(q) - 1 /\ Len(q) \in Nat \ {0}
      /\ \A i \in 1 .. Len(t) : t[i] = q[i + 1]
      /\ Head(q) = q[1] /\ q[1] \in Blocks
  OBVIOUS
<1> HIDE DEF t
<1>2. \A i, j \in 1 .. Len(t) : t[i] = t[j] => i = j
  <2> SUFFICES ASSUME NEW i \in 1 .. Len(t), NEW j \in 1 .. Len(t), t[i] = t[j] PROVE i = j
    OBVIOUS
  <2>1. i + 1 \in 1 .. Len(q) /\ j + 1 \in 1 .. Len(q) /\ q[i + 1] = q[j + 1]
    BY <1>1
  <2> QED BY <2>1, <1>1 DEF Once
<1>3. ASSUME NEW i \in 1 .. Len(t), t[i] = q[1] PROVE FALSE
  <2>1. i + 1 \in 1 .. Len(q) /\ q[i + 1] = q[1] /\ 1 \in 1 .. Len(q) /\ i + 1 # 1
    BY <1>1, <1>3
  <2> QED BY <2>1 DEF Once
<1>4. ASSUME NEW c \in Blocks, NEW i \in 1 .. Len(q), q[i] = c, c # q[1]
      PROVE  \E j \in 1 .. Len(t) : t[j] = c
  <2>1. i - 1 \in 1 .. Len(t) /\ t[i - 1] = q[(i - 1) + 1] /\ (i - 1) + 1 = i
    BY <1>1, <1>4
  <2> QED BY <2>1, <1>4
<1>5. ASSUME NEW c \in Blocks, NEW j \in 1 .. Len(t), t[j] = c
      PROVE  \E i \in 1 .. Len(q) : q[i] = c
  <2>1. j + 1 \in 1 .. Len(q) /\ q[j + 1] = c
    BY <1>1, <1>5
  <2> QED BY <2>1
<1>6. 1 \in 1 .. Len(q)
  BY <1>1
<1>7. t # <<>> => 1 \in 1 .. Len(t) /\ t[1] \in Blocks
  BY <1>1
<1> QED BY <1>1, <1>2, <1>3, <1>4, <1>5, <1>6, <1>7 DEF Once, Has, t

LEMMA IdeintrInv ==
  ASSUME IdeInv, NEW latched \in BOOLEAN, NEW good \in BOOLEAN, NEW ready \in BOOLEAN,
         ideintr(latched, good, ready)
  PROVE  IdeInv'
<1>1. IdeShape
  BY DEF IdeInv
<1>2. CASE queue = <<>>
  BY <1>2, IdleIntrInv DEF ideintr
<1>3. CASE queue # <<>>
  <2> DEFINE b == Head(queue)
             rest == Tail(queue)
             polls == (~dirty[b] /\ good) \/ (rest # <<>> /\ ready)
             got == DataRegister(b)
             on == rest # <<>> /\ ready
  <2>1. /\ queue' = rest
        /\ valid' = [valid EXCEPT ![b] = dirty[b] \/ good]
        /\ bdata' = [bdata EXCEPT ![b] = IF dirty[b] \/ ~good THEN @ ELSE got]
        /\ dirty' = [dirty EXCEPT ![b] = FALSE]
        /\ caller' = [caller EXCEPT ![b] = "woken"]
        /\ platter' = (IF polls THEN Finished ELSE platter)
        /\ irq' = (polls /\ dev.busy /\ latched)
        /\ dev' = (IF on THEN Command(rest[1], dirty[rest[1]], bdata[rest[1]])
                   ELSE IF polls THEN [dev EXCEPT !.busy = FALSE] ELSE dev)
        /\ failed' = (failed \/ (~dirty[b] /\ ~good) \/ (rest # <<>> /\ ~ready))
        /\ calls' = calls /\ latest' = latest
    BY <1>3 DEF ideintr, Complete
  <2>2. /\ b \in Blocks /\ b = queue[1] /\ rest \in Seq(Blocks)
        /\ rest # <<>> => rest[1] \in Blocks
    BY <1>1, <1>3 DEF IdeShape
  <2>3. got \in {0, 1, NoData}
    BY <2>2, <1>1 DEF IdeShape, DataRegister
  <2>4. polls \in BOOLEAN /\ on \in BOOLEAN
    OBVIOUS
  <2>5. Finished \in [Blocks -> {0, 1}]
    BY <1>1, FinishedType
  <2> HIDE DEF got, polls, rest, b
  <2>6. ASSUME ~failed'
        PROVE  /\ QueueOfSleepers /\ BuffersHold /\ DiskWorksOnHead /\ DiskCatchesUp
               /\ Once(queue) /\ \A c \in Blocks : caller[c] = "sleep" <=> Has(queue, c)
               /\ Once(rest) /\ ~Has(rest, b)
               /\ \A c \in Blocks : Has(queue, c) <=> c = b \/ Has(rest, c)
               /\ rest # <<>> => Has(rest, rest[1])
               /\ (dirty[b] \/ good) /\ (rest # <<>> => on)
    <3>1. QueueOfSleepers /\ BuffersHold /\ DiskWorksOnHead /\ DiskCatchesUp
      BY <2>6, <2>1 DEF IdeInv
    <3>2. Once(queue) /\ \A c \in Blocks : caller[c] = "sleep" <=> Has(queue, c)
      BY <3>1 DEF QueueOfSleepers, Once, Has
    <3>3. /\ Once(rest) /\ ~Has(rest, b)
          /\ \A c \in Blocks : Has(queue, c) <=> c = b \/ Has(rest, c)
          /\ rest # <<>> => Has(rest, rest[1])
      BY <3>2, <1>1, <1>3, RestOfQueue DEF b, rest, IdeShape
    <3>4. (dirty[b] \/ good) /\ (rest # <<>> => on)
      BY <2>6, <2>1
    <3> QED BY <3>1, <3>2, <3>3, <3>4
  <2>7. IdeShape'
    <3>1. /\ valid' \in [Blocks -> BOOLEAN] /\ dirty' \in [Blocks -> BOOLEAN]
          /\ caller' \in [Blocks -> {"out", "sleep", "woken"}]
          /\ bdata' \in [Blocks -> {0, 1, NoData}]
      BY <2>1, <2>2, <2>3, <1>1 DEF IdeShape
    <3>2. /\ calls' \in Nat /\ failed' \in BOOLEAN /\ irq' \in BOOLEAN
          /\ platter' \in [Blocks -> {0, 1}] /\ latest' \in [Blocks -> {0, 1}]
      <4>1. irq' \in BOOLEAN
        BY <2>1, <2>4, <1>1 DEF IdeShape
      <4>2. platter' \in [Blocks -> {0, 1}]
        BY <2>1, <2>5, <1>1 DEF IdeShape
      <4> QED BY <4>1, <4>2, <2>1, <1>1 DEF IdeShape
    <3>3. \A c \in Blocks : dirty'[c] => bdata'[c] \in {0, 1}
      BY <2>1, <2>2, <1>1 DEF IdeShape
    <3>4. /\ dev' \in [block : Blocks \cup {NoBlock}, write : BOOLEAN, bdata : {0, 1, NoData},
                       busy : BOOLEAN]
          /\ dev'.write => dev'.block \in Blocks /\ dev'.bdata \in {0, 1}
      <4>1. CASE on
        <5> DEFINE r == rest[1]
        <5>1. r \in Blocks /\ dirty[r] \in BOOLEAN /\ (dirty[r] => bdata[r] \in {0, 1})
          BY <4>1, <2>2, <1>1 DEF IdeShape
        <5>2. dev' = [block |-> r, write |-> dirty[r], bdata |-> IF dirty[r] THEN bdata[r] ELSE NoData,
                      busy |-> TRUE]
          BY <4>1, <2>1 DEF Command
        <5> HIDE DEF r
        <5> QED BY <5>1, <5>2
      <4>2. CASE ~on
        BY <4>2, <2>1, <1>1 DEF IdeShape
      <4> QED BY <4>1, <4>2
    <3> QED BY <3>1, <3>2, <3>3, <3>4, <2>1, <2>2 DEF IdeShape
  <2>8. ASSUME ~failed'
        PROVE  (QueueOfSleepers /\ BuffersHold /\ DiskWorksOnHead /\ DiskCatchesUp)'
    <3>1. QueueOfSleepers'
      <4>1. \A c \in Blocks : caller'[c] = "sleep" <=> c # b /\ caller[c] = "sleep"
        BY <2>1, <2>2, <1>1 DEF IdeShape
      <4>2. \A c \in Blocks : caller'[c] = "sleep" <=> Has(queue', c)
        BY <4>1, <2>1, <2>6, <2>8
      <4>3. Once(queue')
        BY <2>1, <2>6, <2>8
      <4> QED BY <4>2, <4>3 DEF QueueOfSleepers, Once, Has
    \* The command the disk has is that of b, and the disk will hold what it should.
    <3>2. /\ dev.block = b /\ dev.write = dirty[b] /\ Finished[b] = latest[b]
          /\ ~dirty[b] => Finished = platter /\ got = latest[b]
      <4>1. dev.block = b /\ dev.write = dirty[b] /\ Finished[b] = latest[b]
        BY <2>6, <2>8, <2>2, <1>3 DEF DiskWorksOnHead, DiskCatchesUp
      <4>2. ASSUME ~dirty[b] PROVE Finished = platter /\ got = latest[b]
        BY <4>1, <4>2 DEF Finished, got, DataRegister
      <4> QED BY <4>1, <4>2
    <3>3. BuffersHold'
      <4> SUFFICES ASSUME NEW c \in Blocks
                   PROVE  /\ dirty'[c] => caller'[c] = "sleep" /\ bdata'[c] = latest'[c]
                          /\ caller'[c] = "woken" => valid'[c]
                          /\ caller'[c] # "sleep" /\ valid'[c] => bdata'[c] = latest'[c]
        BY DEF BuffersHold
      <4>1. CASE c = b
        BY <4>1, <3>2, <2>1, <2>2, <2>6, <2>8, <1>1 DEF BuffersHold, IdeShape
      <4>2. CASE c # b
        BY <4>2, <2>1, <2>2, <2>6, <2>8, <1>1 DEF BuffersHold, IdeShape
      <4> QED BY <4>1, <4>2
    <3>4. DiskWorksOnHead'
      <4> SUFFICES ASSUME rest # <<>>
                   PROVE  dev'.block = rest[1] /\ dev'.write = dirty'[rest[1]]
        BY <2>1 DEF DiskWorksOnHead
      <4>1. dev' = Command(rest[1], dirty[rest[1]], bdata[rest[1]])
        BY <2>1, <2>6, <2>8
      <4>2. rest[1] # b
        BY <2>6, <2>8
      <4> QED BY <4>1, <4>2, <2>1, <2>2, <1>1 DEF Command, IdeShape
    <3>5. \A c \in Blocks : Finished'[c] = IF rest # <<>> /\ rest[1] = c /\ dirty[c]
                                           THEN latest[c] ELSE Finished[c]
      <4>1. \A c \in Blocks : Finished'[c] = IF dev'.busy /\ dev'.write /\ dev'.block = c
                                             THEN dev'.bdata ELSE platter'[c]
        BY <2>7 DEF IdeShape, Finished
      <4>2. CASE rest # <<>>
        <5> DEFINE r == rest[1]
        <5>1. on /\ polls
          BY <4>2, <2>6, <2>8 DEF polls
        <5>2. dev' = Command(r, dirty[r], bdata[r]) /\ platter' = Finished
          BY <5>1, <2>1
        <5>3. r \in Blocks /\ (dirty[r] => bdata[r] = latest[r])
          BY <4>2, <2>2, <2>6, <2>8 DEF BuffersHold
        <5>4. dev'.busy /\ dev'.write = dirty[r] /\ dev'.block = r /\ (dirty[r] => dev'.bdata = latest[r])
          BY <5>2, <5>3 DEF Command
        <5> HIDE DEF r
        <5>5. \A c \in Blocks : Finished'[c] = IF r = c /\ dirty[c] THEN latest[c] ELSE Finished[c]
          BY <5>2, <5>4, <4>1
        <5> QED BY <5>5, <4>2 DEF r
      <4>3. CASE rest = <<>> /\ polls
        BY <4>1, <4>3, <2>1, <1>1 DEF IdeShape
      <4>4. CASE rest = <<>> /\ ~polls
        BY <4>4, <2>1 DEF Finished
      <4> QED BY <4>2, <4>3, <4>4, <2>4
    <3>6. DiskCatchesUp'
      <4> SUFFICES ASSUME NEW c \in Blocks, ~dirty'[c] \/ (rest # <<>> /\ rest[1] = c)
                   PROVE  Finished'[c] = latest[c]
        BY <2>1 DEF DiskCatchesUp
      <4>1. CASE c = b
        BY <4>1, <3>2, <3>5
      <4>2. CASE c # b /\ dirty[c]
        BY <4>2, <3>5, <2>1, <2>2, <1>1 DEF IdeShape
      <4>3. CASE ~dirty[c]
        BY <4>3, <3>5, <2>6, <2>8 DEF DiskCatchesUp
      <4> QED BY <4>1, <4>2, <4>3
    <3> QED BY <3>1, <3>3, <3>4, <3>6
  <2> QED BY <2>7, <2>8 DEF IdeInv
<1> QED BY <1>2, <1>3

LEMMA IdeStepInv == IdeInv /\ [IdeNext]_ideVars => IdeInv'
<1> SUFFICES ASSUME IdeInv, [IdeNext]_ideVars PROVE IdeInv'
  OBVIOUS
<1>1. ASSUME UNCHANGED ideVars PROVE IdeInv'
  BY <1>1, IdleIntrInv DEF ideVars, hw, ideHist, IdeInv, IdeShape
<1> QED BY <1>1, IderwInv, IdeintrInv, IderwReturnInv, DiskDoneInv DEF IdeNext

\* The inductive invariant of the disk driver, whatever the order of
\* requests, interrupts and polls (ide.c: iderw, idestart, ideintr, idewait).
THEOREM IdeInvariant == IdeSpec => []IdeInv
<1> QED BY IdeInitInv, IdeStepInv, PTL DEF IdeSpec

\* Until the disk fails, a buffer that iderw() has returned holds what was
\* last written to its block, although ideintr() completes the head of the
\* queue for interrupts of other commands.
THEOREM DiskReadsSeeWrites == IdeSpec => []ReadsSeeWrites
<1>1. IdeInv => ReadsSeeWrites
  BY DEF IdeInv, ReadsSeeWrites, BuffersHold
<1> QED BY <1>1, IdeInvariant, PTL

-----------------------------------------------------------------------------
(* Memory: page tables *)

LEMMA TablePages ==
  ASSUME NEW t \in Tables
  PROVE  /\ PagesOf(t) = {At(t, l) : l \in Places(t)} \ {0}
         /\ PagesOf(t) \subseteq Pages
<1> DEFINE ks == {t.ktabs[k] : k \in DOMAIN t.ktabs}
           ts == {t.tabs[k] : k \in DOMAIN t.tabs}
           vs == {t.pte[v] : v \in DOMAIN t.pte}
<1>1. PagesOf(t) = ({t.dir} \cup ks \cup ts \cup vs) \ {0}
  BY DEF PagesOf
<1>2. {t.dir} \cup ks \cup ts \cup vs = {At(t, l) : l \in Places(t)}
  <2>1. ASSUME NEW x \in {t.dir} \cup ks \cup ts \cup vs PROVE x \in {At(t, l) : l \in Places(t)}
    <3>1. CASE x = t.dir
      <4>1. <<"dir", 0>> \in Places(t) /\ At(t, <<"dir", 0>>) = x
        BY <3>1 DEF Places, At
      <4> QED BY <4>1
    <3>2. ASSUME NEW k \in DOMAIN t.ktabs, x = t.ktabs[k] PROVE x \in {At(t, l) : l \in Places(t)}
      <4>1. <<"ktabs", k>> \in Places(t) /\ At(t, <<"ktabs", k>>) = x
        BY <3>2 DEF Places, At
      <4> QED BY <4>1
    <3>3. ASSUME NEW k \in DOMAIN t.tabs, x = t.tabs[k] PROVE x \in {At(t, l) : l \in Places(t)}
      <4>1. <<"tabs", k>> \in Places(t) /\ At(t, <<"tabs", k>>) = x
        BY <3>3 DEF Places, At
      <4> QED BY <4>1
    <3>4. ASSUME NEW v \in DOMAIN t.pte, x = t.pte[v] PROVE x \in {At(t, l) : l \in Places(t)}
      <4>1. <<"pte", v>> \in Places(t) /\ At(t, <<"pte", v>>) = x
        BY <3>4 DEF Places, At
      <4> QED BY <4>1
    <3> QED BY <2>1, <3>1, <3>2, <3>3, <3>4
  <2>2. ASSUME NEW l \in Places(t) PROVE At(t, l) \in {t.dir} \cup ks \cup ts \cup vs
    BY DEF Places, At
  <2> QED BY <2>1, <2>2
<1>3. {t.dir} \cup ks \cup ts \cup vs \subseteq {0} \cup Pages
  <2>1. /\ t.dir \in {0} \cup Pages /\ t.ktabs \in Seq(Pages)
        /\ t.tabs \in [0 .. NTabs - 1 -> {0} \cup Pages]
        /\ t.pte \in [0 .. UserPages - 1 -> {0} \cup Pages]
    BY DEF Tables
  <2>2. ks \subseteq Pages
    BY <2>1
  <2>3. ts \subseteq {0} \cup Pages
    BY <2>1
  <2>4. vs \subseteq {0} \cup Pages
    BY <2>1
  <2> QED BY <2>1, <2>2, <2>3, <2>4
<1> QED BY <1>1, <1>2, <1>3

LEMMA NoTablePages ==
  /\ NoTable \in Tables /\ PagesOf(NoTable) = {} /\ EachOnce(NoTable)
  /\ \A n \in Nat : EmptyFrom(NoTable, n)
<1>1. NoTable \in Tables
  BY DEF NoTable, Tables
<1>2. \A l \in Places(NoTable) : At(NoTable, l) = 0
  BY DEF Places, At, NoTable
<1>3. PagesOf(NoTable) = {} /\ EachOnce(NoTable)
  BY <1>1, <1>2, TablePages DEF EachOnce
<1>4. \A n \in Nat : EmptyFrom(NoTable, n)
  BY DEF NoTable, EmptyFrom
<1> QED BY <1>1, <1>3, <1>4

\* A page that the table does not hold is put at an empty place.
LEMMA Placed ==
  ASSUME NEW t \in Tables, NEW u \in Tables, NEW x \in Pages, x \notin PagesOf(t), EachOnce(t),
         NEW m, Places(u) = Places(t) \cup {m}, At(u, m) = x, m \in Places(t) => At(t, m) = 0,
         \A l \in Places(t) : l # m => At(u, l) = At(t, l)
  PROVE  EachOnce(u) /\ PagesOf(u) = PagesOf(t) \cup {x}
<1>1. x # 0
  BY MemoryAssumption DEF Pages
<1>2. PagesOf(t) = {At(t, l) : l \in Places(t)} \ {0} /\ PagesOf(u) = {At(u, l) : l \in Places(u)} \ {0}
  BY TablePages
<1>3. \A l \in Places(t) : At(t, l) # x
  BY <1>1, <1>2
<1>4. EachOnce(u)
  BY <1>3 DEF EachOnce
<1>5. PagesOf(u) = PagesOf(t) \cup {x}
  <2>1. ASSUME NEW y \in PagesOf(u) PROVE y \in PagesOf(t) \cup {x}
    <3>1. PICK l \in Places(u) : y = At(u, l) /\ y # 0
      BY <1>2
    <3>2. l = m \/ (l \in Places(t) /\ At(t, l) = y)
      BY <3>1
    <3> QED BY <3>1, <3>2, <1>2
  <2>2. ASSUME NEW y \in PagesOf(t) PROVE y \in PagesOf(u)
    <3>1. PICK l \in Places(t) : y = At(t, l) /\ y # 0
      BY <1>2
    <3>2. l # m /\ l \in Places(u) /\ At(u, l) = y
      BY <3>1
    <3> QED BY <3>1, <3>2, <1>2
  <2>3. x \in PagesOf(u)
    BY <1>1, <1>2
  <2> QED BY <2>1, <2>2, <2>3
<1> QED BY <1>4, <1>5

LEMMA PutDir ==
  ASSUME NEW t \in Tables, NEW x \in Pages, x \notin PagesOf(t), EachOnce(t), t.dir = 0,
         NEW u, u = [t EXCEPT !.dir = x]
  PROVE  u \in Tables /\ EachOnce(u) /\ PagesOf(u) = PagesOf(t) \cup {x} /\ u.pte = t.pte
<1>1. u \in Tables
  BY DEF Tables
<1>2. u.ktabs = t.ktabs /\ u.tabs = t.tabs /\ u.pte = t.pte /\ u.dir = x
  BY DEF Tables
<1> DEFINE m == <<"dir", 0>>
<1>3. Places(u) = Places(t) \cup {m}
  BY <1>2 DEF Places
<1>4. At(u, m) = x /\ At(t, m) = 0
  BY <1>2 DEF At
<1>5. \A l \in Places(t) : l # m => At(u, l) = At(t, l)
  BY <1>2 DEF At, Places
<1> HIDE DEF m
<1> QED BY <1>1, <1>2, <1>3, <1>4, <1>5, Placed

LEMMA NewKtab ==
  ASSUME NEW t \in Tables, NEW x \in Pages, x \notin PagesOf(t), EachOnce(t), NEW u \in Tables,
         NEW n, n \notin DOMAIN t.ktabs, DOMAIN u.ktabs = DOMAIN t.ktabs \cup {n}, u.ktabs[n] = x,
         \A k \in DOMAIN t.ktabs : u.ktabs[k] = t.ktabs[k],
         u.tabs = t.tabs, u.pte = t.pte, u.dir = t.dir
  PROVE  EachOnce(u) /\ PagesOf(u) = PagesOf(t) \cup {x}
<1> DEFINE m == <<"ktabs", n>>
<1>1. Places(u) = Places(t) \cup {m}
  BY DEF Places
<1>2. At(u, m) = x /\ m \notin Places(t)
  BY DEF At, Places
<1>3. \A l \in Places(t) : l # m => At(u, l) = At(t, l)
  BY DEF At, Places
<1> HIDE DEF m
<1> QED BY <1>1, <1>2, <1>3, Placed

LEMMA PutKtab ==
  ASSUME NEW t \in Tables, NEW x \in Pages, x \notin PagesOf(t), EachOnce(t),
         NEW u, u = [t EXCEPT !.ktabs = Append(@, x)]
  PROVE  u \in Tables /\ EachOnce(u) /\ PagesOf(u) = PagesOf(t) \cup {x} /\ u.pte = t.pte
<1> DEFINE n == Len(t.ktabs) + 1
           w == [t EXCEPT !.ktabs = Append(@, x)]
<1>1. t.ktabs \in Seq(Pages)
  BY DEF Tables
<1>2. /\ w.ktabs = Append(t.ktabs, x) /\ w.tabs = t.tabs /\ w.pte = t.pte /\ w.dir = t.dir
  BY DEF Tables
<1>3. /\ w.ktabs \in Seq(Pages) /\ DOMAIN w.ktabs = DOMAIN t.ktabs \cup {n} /\ w.ktabs[n] = x
      /\ n \notin DOMAIN t.ktabs /\ \A k \in DOMAIN t.ktabs : w.ktabs[k] = t.ktabs[k]
  BY <1>1, <1>2
<1>4. w \in Tables
  BY <1>2, <1>3 DEF Tables
<1>6. u = w
  OBVIOUS
<1> HIDE DEF n, w
<1>5. EachOnce(w) /\ PagesOf(w) = PagesOf(t) \cup {x}
  BY <1>2, <1>3, <1>4, NewKtab
<1> QED BY <1>2, <1>4, <1>5, <1>6

LEMMA PutTab ==
  ASSUME NEW t \in Tables, NEW x \in Pages, x \notin PagesOf(t), EachOnce(t),
         NEW k \in 0 .. NTabs - 1, t.tabs[k] = 0, NEW u, u = [t EXCEPT !.tabs[k] = x]
  PROVE  u \in Tables /\ EachOnce(u) /\ PagesOf(u) = PagesOf(t) \cup {x} /\ u.pte = t.pte
<1> DEFINE m == <<"tabs", k>>
<1>2. /\ u.ktabs = t.ktabs /\ u.tabs = [t.tabs EXCEPT ![k] = x] /\ u.pte = t.pte /\ u.dir = t.dir
  BY DEF Tables
<1>3. /\ u.tabs \in [0 .. NTabs - 1 -> {0} \cup Pages] /\ DOMAIN u.tabs = DOMAIN t.tabs /\ u.tabs[k] = x
      /\ k \in DOMAIN t.tabs /\ \A l \in DOMAIN t.tabs : l # k => u.tabs[l] = t.tabs[l]
  BY <1>2 DEF Tables
<1>4. u \in Tables
  BY <1>2, <1>3 DEF Tables
<1>5. Places(u) = Places(t) \cup {m}
  BY <1>2, <1>3 DEF Places
<1>6. At(u, m) = x /\ At(t, m) = 0
  BY <1>2, <1>3 DEF At
<1>7. \A l \in Places(t) : l # m => At(u, l) = At(t, l)
  BY <1>2, <1>3 DEF At, Places
<1> HIDE DEF m
<1> QED BY <1>2, <1>4, <1>5, <1>6, <1>7, Placed

WithPte(t, v, x) == [t EXCEPT !.pte[v] = x]

LEMMA PutPte ==
  ASSUME NEW t \in Tables, NEW x \in Pages, x \notin PagesOf(t), EachOnce(t),
         NEW v \in 0 .. UserPages - 1, t.pte[v] = 0, NEW u, u = WithPte(t, v, x)
  PROVE  u \in Tables /\ EachOnce(u) /\ PagesOf(u) = PagesOf(t) \cup {x} /\ u.tabs = t.tabs
         /\ u.pte = [t.pte EXCEPT ![v] = x]
<1> DEFINE m == <<"pte", v>>
<1>2. /\ u.ktabs = t.ktabs /\ u.pte = [t.pte EXCEPT ![v] = x] /\ u.tabs = t.tabs /\ u.dir = t.dir
  BY DEF Tables, WithPte
<1>3. /\ u.pte \in [0 .. UserPages - 1 -> {0} \cup Pages] /\ DOMAIN u.pte = DOMAIN t.pte /\ u.pte[v] = x
      /\ v \in DOMAIN t.pte /\ \A l \in DOMAIN t.pte : l # v => u.pte[l] = t.pte[l]
  BY <1>2 DEF Tables
<1>4. u \in Tables
  BY <1>2, <1>3 DEF Tables, WithPte
<1>5. Places(u) = Places(t) \cup {m}
  BY <1>2, <1>3 DEF Places
<1>6. At(u, m) = x /\ At(t, m) = 0
  BY <1>2, <1>3 DEF At
<1>7. \A l \in Places(t) : l # m => At(u, l) = At(t, l)
  BY <1>2, <1>3 DEF At, Places
<1> HIDE DEF m
<1> QED BY <1>2, <1>4, <1>5, <1>6, <1>7, Placed

\* What deallocuvm() gives back is what the table loses.
LEMMA Dealloc ==
  ASSUME NEW t \in Tables, EachOnce(t), NEW n \in Nat, NEW u, u = deallocuvm(t, n)
  PROVE  /\ u \in Tables /\ EachOnce(u) /\ PagesOf(u) = PagesOf(t) \ DroppedPages(t, n)
         /\ DroppedPages(t, n) \subseteq PagesOf(t) /\ EmptyFrom(u, n)
<1>1. /\ u.ktabs = t.ktabs /\ u.tabs = t.tabs /\ u.dir = t.dir
      /\ u.pte = [v \in 0 .. UserPages - 1 |-> IF v >= n THEN 0 ELSE t.pte[v]]
      /\ DOMAIN t.pte = 0 .. UserPages - 1 /\ DOMAIN u.pte = 0 .. UserPages - 1
  BY DEF Tables, deallocuvm
<1>2. u.pte \in [0 .. UserPages - 1 -> {0} \cup Pages]
  BY <1>1 DEF Tables
<1>3. u \in Tables
  <2>1. u = [dir |-> t.dir, ktabs |-> t.ktabs, tabs |-> t.tabs, pte |-> u.pte]
    BY <1>1 DEF Tables, deallocuvm
  <2> QED BY <2>1, <1>2 DEF Tables
<1> DEFINE gone == {<<"pte", v>> : v \in n .. UserPages - 1}
<1>4. Places(u) = Places(t) /\ gone \subseteq Places(t)
  BY <1>1, MemoryAssumption DEF Places
<1>5. \A l \in Places(t) : At(u, l) = IF l \in gone THEN 0 ELSE At(t, l)
  <2>1. \A l \in Places(t) : l[1] # "pte" => At(u, l) = At(t, l) /\ l \notin gone
    BY <1>1 DEF Places, At
  <2>2. \A v \in 0 .. UserPages - 1 :
          /\ At(u, <<"pte", v>>) = IF v >= n THEN 0 ELSE At(t, <<"pte", v>>)
          /\ <<"pte", v>> \in gone <=> v >= n
    BY <1>1, MemoryAssumption DEF At
  <2>3. \A l \in Places(t) : l[1] = "pte" => \E v \in 0 .. UserPages - 1 : l = <<"pte", v>>
    BY <1>1 DEF Places
  <2> HIDE DEF gone
  <2> QED BY <2>1, <2>2, <2>3
<1>6. DroppedPages(t, n) = {At(t, l) : l \in gone} \ {0}
  <2>1. \A v \in n .. UserPages - 1 : <<"pte", v>> \in gone /\ At(t, <<"pte", v>>) = t.pte[v]
    BY DEF At
  <2>2. \A l \in gone : \E v \in n .. UserPages - 1 : l = <<"pte", v>>
    OBVIOUS
  <2> HIDE DEF gone
  <2> QED BY <2>1, <2>2 DEF DroppedPages
<1>7. PagesOf(t) = {At(t, l) : l \in Places(t)} \ {0} /\ PagesOf(u) = {At(u, l) : l \in Places(t)} \ {0}
  BY <1>3, <1>4, TablePages
<1>8. EmptyFrom(u, n)
  BY <1>1 DEF EmptyFrom
<1> HIDE DEF gone
<1>9. EachOnce(u)
  BY <1>4, <1>5 DEF EachOnce
<1>10. DroppedPages(t, n) \subseteq PagesOf(t)
  BY <1>4, <1>6, <1>7
<1>11. PagesOf(u) = PagesOf(t) \ DroppedPages(t, n)
  <2>1. ASSUME NEW y \in PagesOf(u) PROVE y \in PagesOf(t) \ DroppedPages(t, n)
    <3>1. PICK l \in Places(t) : y = At(u, l) /\ y # 0
      BY <1>7
    <3>2. l \notin gone /\ At(t, l) = y
      BY <3>1, <1>5
    <3>3. ASSUME NEW m \in gone, At(t, m) = y PROVE FALSE
      BY <3>1, <3>2, <3>3, <1>4 DEF EachOnce
    <3> QED BY <3>1, <3>2, <3>3, <1>6, <1>7
  <2>2. ASSUME NEW y \in PagesOf(t), y \notin DroppedPages(t, n) PROVE y \in PagesOf(u)
    <3>1. PICK l \in Places(t) : y = At(t, l) /\ y # 0
      BY <1>7
    <3>2. l \notin gone
      BY <3>1, <2>2, <1>6
    <3> QED BY <3>1, <3>2, <1>5, <1>7
  <2> QED BY <2>1, <2>2
<1> QED BY <1>3, <1>8, <1>9, <1>10, <1>11

-----------------------------------------------------------------------------
(* Memory: pages change hands *)

LEMMA SharedIs ==
  ASSUME NEW held, NEW free
  PROVE  Shared(held, free) <=>
           /\ \A x \in Pages : x \in free \/ \E h \in Holders : x \in held[h]
           /\ free \subseteq Pages /\ \A h \in Holders : held[h] \subseteq Pages
           /\ \A h \in Holders, x \in Pages : ~(x \in held[h] /\ x \in free)
           /\ \A g, h \in Holders, x \in Pages : x \in held[g] /\ x \in held[h] => g = h
<1> DEFINE some == {h \in Holders : held[h] # {}}
           all == UNION {held[h] : h \in some}
<1>1. \A x : x \in all <=> \E h \in Holders : x \in held[h]
  <2>1. ASSUME NEW h \in Holders, NEW x \in held[h] PROVE x \in all
    <3>1. h \in some
      BY <2>1
    <3> QED BY <3>1
  <2>2. ASSUME NEW x \in all PROVE \E h \in Holders : x \in held[h]
    OBVIOUS
  <2> QED BY <2>1, <2>2
<1>2. (free \cup all = Pages) <=>
        /\ \A x \in Pages : x \in free \/ \E h \in Holders : x \in held[h]
        /\ free \subseteq Pages /\ \A h \in Holders : held[h] \subseteq Pages
  <2> HIDE DEF all
  <2> QED BY <1>1
<1>3. (\A h \in some : held[h] \cap free = {}) <=> \A h \in Holders : held[h] \cap free = {}
  OBVIOUS
<1>4. (\A g, h \in some : g # h => held[g] \cap held[h] = {})
        <=> \A g, h \in Holders : g # h => held[g] \cap held[h] = {}
  OBVIOUS
<1>5. Shared(held, free) <=> /\ free \cup all = Pages
                             /\ \A h \in some : held[h] \cap free = {}
                             /\ \A g, h \in some : g # h => held[g] \cap held[h] = {}
  BY DEF Shared
<1> HIDE DEF all, some
<1>6. CASE free \subseteq Pages /\ \A h \in Holders : held[h] \subseteq Pages
  <2>1. (\A h \in Holders : held[h] \cap free = {})
          <=> \A h \in Holders, x \in Pages : ~(x \in held[h] /\ x \in free)
    BY <1>6
  <2>2. (\A g, h \in Holders : g # h => held[g] \cap held[h] = {})
          <=> \A g, h \in Holders, x \in Pages : x \in held[g] /\ x \in held[h] => g = h
    BY <1>6
  <2> QED BY <2>1, <2>2, <1>2, <1>3, <1>4, <1>5
<1>7. CASE ~(free \subseteq Pages /\ \A h \in Holders : held[h] \subseteq Pages)
  BY <1>7, <1>2, <1>5
<1> QED BY <1>6, <1>7

\* A holder takes a page from the free list.
LEMMA TakePage ==
  ASSUME NEW held, NEW free, Shared(held, free), NEW x \in free, NEW h \in Holders, NEW now,
         now[h] = held[h] \cup {x}, \A g \in Holders : g # h => now[g] = held[g]
  PROVE  Shared(now, free \ {x})
<1>1. x \in Pages
  BY SharedIs
<1>2. \A y \in Pages : y \in free \ {x} \/ \E g \in Holders : y \in now[g]
  <2>1. ASSUME NEW y \in Pages, NEW g \in Holders, y \in held[g] PROVE y \in now[g]
    BY <2>1
  <2>2. \A y \in Pages : y \in free \/ \E g \in Holders : y \in held[g]
    BY SharedIs
  <2> QED BY <2>1, <2>2
<1>3. free \ {x} \subseteq Pages /\ \A g \in Holders : now[g] \subseteq Pages
  BY <1>1, SharedIs
<1>4. \A g \in Holders, y \in Pages : ~(y \in now[g] /\ y \in free \ {x})
  BY SharedIs
<1>5. \A f, g \in Holders, y \in Pages : y \in now[f] /\ y \in now[g] => f = g
  BY <1>1, SharedIs
<1> QED BY <1>2, <1>3, <1>4, <1>5, SharedIs

\* A holder gives pages back.
LEMMA GiveBack ==
  ASSUME NEW held, NEW free, Shared(held, free), NEW h \in Holders, NEW D, D \subseteq held[h],
         NEW now, now[h] = held[h] \ D, \A g \in Holders : g # h => now[g] = held[g]
  PROVE  Shared(now, free \cup D)
<1>1. D \subseteq Pages
  BY SharedIs
<1>2. \A y \in Pages : y \in free \cup D \/ \E g \in Holders : y \in now[g]
  <2>1. ASSUME NEW y \in Pages, NEW g \in Holders, y \in held[g] PROVE y \in D \/ y \in now[g]
    BY <2>1
  <2>2. \A y \in Pages : y \in free \/ \E g \in Holders : y \in held[g]
    BY SharedIs
  <2> QED BY <2>1, <2>2
<1>3. free \cup D \subseteq Pages /\ \A g \in Holders : now[g] \subseteq Pages
  BY <1>1, SharedIs
<1>4. \A g \in Holders, y \in Pages : ~(y \in now[g] /\ y \in free \cup D)
  BY SharedIs
<1>5. \A f, g \in Holders, y \in Pages : y \in now[f] /\ y \in now[g] => f = g
  BY <1>1, SharedIs
<1> QED BY <1>2, <1>3, <1>4, <1>5, SharedIs

\* The pages of one holder go to another.
LEMMA HandOver ==
  ASSUME NEW held, NEW free, Shared(held, free), NEW h \in Holders, NEW f \in Holders, f # h,
         NEW now, now[h] = held[h] \cup held[f], now[f] = {},
         \A g \in Holders : g # h /\ g # f => now[g] = held[g]
  PROVE  Shared(now, free)
<1>2. \A y \in Pages : y \in free \/ \E g \in Holders : y \in now[g]
  <2>1. ASSUME NEW y \in Pages, NEW g \in Holders, y \in held[g] PROVE \E e \in Holders : y \in now[e]
    BY <2>1
  <2>2. \A y \in Pages : y \in free \/ \E g \in Holders : y \in held[g]
    BY SharedIs
  <2> QED BY <2>1, <2>2
<1>3. free \subseteq Pages /\ \A g \in Holders : now[g] \subseteq Pages
  BY SharedIs
<1>4. \A g \in Holders, y \in Pages : ~(y \in now[g] /\ y \in free)
  BY SharedIs
<1>5. \A e, g \in Holders, y \in Pages : y \in now[e] /\ y \in now[g] => e = g
  BY SharedIs
<1> QED BY <1>2, <1>3, <1>4, <1>5, SharedIs

\* What holders have depends on what they have at each place alone.
LEMMA SameShared ==
  ASSUME NEW held, NEW free, Shared(held, free), NEW now, \A h \in Holders : now[h] = held[h]
  PROVE  Shared(now, free)
  BY SharedIs

LEMMA HoldingIs ==
  ASSUME NEW p \in MemProcs
  PROVE  /\ Holding[<<p, "pt">>] = PagesOf(as[p].pt) /\ Holding[<<p, "new">>] = PagesOf(job[p].new)
         /\ Holding[<<p, "kstack">>] = {as[p].kstack} \ {0} /\ Holding[<<p, "mem">>] = {job[p].mem} \ {0}
         /\ Holding'[<<p, "pt">>] = PagesOf(as'[p].pt) /\ Holding'[<<p, "new">>] = PagesOf(job'[p].new)
         /\ Holding'[<<p, "kstack">>] = {as'[p].kstack} \ {0}
         /\ Holding'[<<p, "mem">>] = {job'[p].mem} \ {0}
  BY DEF Holding, Holders

LEMMA HolderIs ==
  /\ \A h \in Holders : \E p \in MemProcs : h \in {<<p, "pt">>, <<p, "kstack">>, <<p, "new">>, <<p, "mem">>}
  /\ \A p \in MemProcs : /\ <<p, "pt">> \in Holders /\ <<p, "kstack">> \in Holders
                         /\ <<p, "new">> \in Holders /\ <<p, "mem">> \in Holders
  BY DEF Holders

LEMMA KallocIs ==
  ASSUME freelist \subseteq Pages, freelist # {}
  PROVE  kalloc \in freelist /\ kalloc \in Pages /\ kalloc # 0
<1>1. freelist \subseteq Nat /\ 0 \notin freelist
  BY MemoryAssumption DEF Pages
<1>2. PICK n \in freelist : \A m \in freelist : n <= m
  BY <1>1, LeastOf
<1>3. kalloc = CHOOSE x \in freelist : \A y \in freelist : x <= y
  BY DEF kalloc, Min
<1> QED BY <1>1, <1>2, <1>3

-----------------------------------------------------------------------------
(* Memory: the steps *)

States == {"unused", "embryo", "runnable", "zombie"}

LEMMA SpaceFields ==
  ASSUME NEW a \in Spaces
  PROVE  /\ a.state \in States /\ a.kstack \in {0} \cup Pages
         /\ a.pt \in Tables /\ a.sz \in 0 .. UserPages
  BY DEF Spaces, States

\* A slot or a call with some of its fields set.
LEMMA SpaceWith ==
  /\ \A a \in Spaces, s \in States : [a EXCEPT !.state = s] \in Spaces
  /\ \A a \in Spaces, t \in Tables : [a EXCEPT !.pt = t] \in Spaces
  /\ \A a \in Spaces, z \in 0 .. UserPages : [a EXCEPT !.sz = z] \in Spaces
  /\ \A a \in Spaces, t \in Tables, z \in 0 .. UserPages : [a EXCEPT !.pt = t, !.sz = z] \in Spaces
  /\ \A a \in Spaces, s \in States, t \in Tables, z \in 0 .. UserPages :
       [a EXCEPT !.state = s, !.pt = t, !.sz = z] \in Spaces
  BY DEF Spaces, States

LEMMA JobFields ==
  ASSUME NEW j \in Jobs
  PROVE  /\ j.op \in {"none", "fork", "exec", "grow"} /\ j.pc \in {"none", "kvm", "mem", "tab"}
         /\ j.new \in Tables /\ j.i \in Nat /\ j.to \in Nat /\ j.mem \in {0} \cup Pages
         /\ j.child \in MemProcs
  BY DEF Jobs

Ops == {"none", "fork", "exec", "grow"}
Pcs == {"none", "kvm", "mem", "tab"}

LEMMA JobWith ==
  /\ \A j \in Jobs, o \in Ops, c \in Pcs, n \in Nat : [j EXCEPT !.op = o, !.pc = c, !.to = n] \in Jobs
  /\ \A j \in Jobs, o \in Ops, c \in Pcs, n \in Nat, q \in MemProcs :
       [j EXCEPT !.op = o, !.pc = c, !.to = n, !.child = q] \in Jobs
  /\ \A j \in Jobs, o \in Ops, c \in Pcs, i \in Nat, n \in Nat :
       [j EXCEPT !.op = o, !.pc = c, !.i = i, !.to = n] \in Jobs
  /\ \A j \in Jobs, t \in Tables : [j EXCEPT !.new = t] \in Jobs
  /\ \A j \in Jobs, t \in Tables, c \in Pcs : [j EXCEPT !.new = t, !.pc = c] \in Jobs
  /\ \A j \in Jobs, c \in Pcs, x \in {0} \cup Pages : [j EXCEPT !.pc = c, !.mem = x] \in Jobs
  /\ \A j \in Jobs, c \in Pcs, i \in Nat, x \in {0} \cup Pages :
       [j EXCEPT !.pc = c, !.i = i, !.mem = x] \in Jobs
  /\ \A j \in Jobs, t \in Tables, c \in Pcs, i \in Nat, x \in {0} \cup Pages :
       [j EXCEPT !.new = t, !.pc = c, !.i = i, !.mem = x] \in Jobs
  BY DEF Jobs, Ops, Pcs

LEMMA MemFacts ==
  ASSUME MemInv, NEW p \in MemProcs
  PROVE  /\ as[p] \in Spaces /\ job[p] \in Jobs /\ as[p].pt \in Tables /\ job[p].new \in Tables
         /\ EachOnce(as[p].pt) /\ EachOnce(job[p].new) /\ Consistent(as[p], job[p])
         /\ as[p].sz \in 0 .. UserPages /\ job[p].i \in Nat /\ job[p].to \in Nat
         /\ job[p].mem \in {0} \cup Pages /\ as[p].kstack \in {0} \cup Pages
         /\ job[p].child \in MemProcs /\ Shared(Holding, freelist)
         /\ freelist \subseteq Pages /\ UserPages \in Nat \ {0} /\ 0 \notin Pages
<1>1. as[p] \in Spaces /\ job[p] \in Jobs /\ freelist \subseteq Pages
  BY DEF MemInv, MemShape
<1>2. as[p].pt \in Tables /\ as[p].sz \in 0 .. UserPages /\ as[p].kstack \in {0} \cup Pages
  BY <1>1 DEF Spaces
<1>3. /\ job[p].new \in Tables /\ job[p].i \in Nat /\ job[p].to \in Nat
      /\ job[p].mem \in {0} \cup Pages /\ job[p].child \in MemProcs
  BY <1>1 DEF Jobs
<1>4. EachOnce(as[p].pt) /\ EachOnce(job[p].new) /\ Shared(Holding, freelist)
  BY DEF MemInv, PagesOwnedOnce
<1>5. Consistent(as[p], job[p])
  BY DEF MemInv
<1>6. UserPages \in Nat \ {0} /\ 0 \notin Pages
  BY MemoryAssumption DEF Pages
<1> QED BY <1>1, <1>2, <1>3, <1>4, <1>5, <1>6

\* A free page is in no table and in nobody's hands.
LEMMA FreeIsFree ==
  ASSUME MemInv, NEW x \in freelist, NEW p \in MemProcs
  PROVE  /\ x \notin PagesOf(as[p].pt) /\ x \notin PagesOf(job[p].new)
         /\ x # as[p].kstack /\ x # job[p].mem /\ x \in Pages
<1>1. /\ Shared(Holding, freelist) /\ freelist \subseteq Pages /\ 0 \notin Pages
  BY MemFacts
<1>2. \A h \in Holders, y \in Pages : ~(y \in Holding[h] /\ y \in freelist)
  BY <1>1, SharedIs
<1>3. /\ x \notin Holding[<<p, "pt">>] /\ x \notin Holding[<<p, "new">>]
      /\ x \notin Holding[<<p, "kstack">>] /\ x \notin Holding[<<p, "mem">>]
  BY <1>1, <1>2, HolderIs
<1>4. /\ Holding[<<p, "pt">>] = PagesOf(as[p].pt) /\ Holding[<<p, "new">>] = PagesOf(job[p].new)
      /\ Holding[<<p, "kstack">>] = {as[p].kstack} \ {0} /\ Holding[<<p, "mem">>] = {job[p].mem} \ {0}
  BY HoldingIs
<1> QED BY <1>1, <1>3, <1>4

\* What a call has in hand is in no table.
LEMMA InHand ==
  ASSUME MemInv, NEW p \in MemProcs, job[p].mem # 0
  PROVE  job[p].mem \notin PagesOf(as[p].pt) /\ job[p].mem \notin PagesOf(job[p].new)
<1>1. Shared(Holding, freelist) /\ job[p].mem \in Pages
  BY MemFacts
<1>2. \A g, h \in Holders, x \in Pages : x \in Holding[g] /\ x \in Holding[h] => g = h
  BY <1>1, SharedIs
<1>3. /\ Holding[<<p, "pt">>] = PagesOf(as[p].pt) /\ Holding[<<p, "new">>] = PagesOf(job[p].new)
      /\ Holding[<<p, "mem">>] = {job[p].mem} \ {0}
  BY HoldingIs
<1>4. /\ <<p, "mem">> \in Holders /\ <<p, "pt">> \in Holders /\ <<p, "new">> \in Holders
      /\ <<p, "mem">> # <<p, "pt">> /\ <<p, "mem">> # <<p, "new">>
  BY HolderIs
<1>5. job[p].mem \in Holding[<<p, "mem">>]
  BY <1>3
<1>6. job[p].mem \notin Holding[<<p, "pt">>] /\ job[p].mem \notin Holding[<<p, "new">>]
  BY <1>1, <1>2, <1>4, <1>5
<1> QED BY <1>3, <1>6

\* A step that changes the slot q and the call of p: what it must establish.
LEMMA MemStep ==
  ASSUME MemInv, NEW p \in MemProcs, NEW q \in MemProcs, NEW a \in Spaces, NEW j \in Jobs,
         as' = [as EXCEPT ![q] = a], job' = [job EXCEPT ![p] = j], jobs' \in Nat,
         Consistent(a, IF q = p THEN j ELSE job[q]), Consistent(IF q = p THEN a ELSE as[p], j),
         EachOnce(a.pt), EachOnce(j.new), Shared(Holding', freelist'),
         j.op = "fork" => /\ as'[j.child].state = "embryo"
                          /\ \A r \in MemProcs \ {p} : job[r].op = "fork" => job[r].child # j.child,
         \A r \in MemProcs \ {p} : job[r].op = "fork" /\ job[r].child = q => a.state = "embryo"
  PROVE  MemInv'
<1>1. as \in [MemProcs -> Spaces] /\ job \in [MemProcs -> Jobs]
  BY DEF MemInv, MemShape
<1>2. /\ as' \in [MemProcs -> Spaces] /\ job' \in [MemProcs -> Jobs]
      /\ as'[q] = a /\ job'[p] = j
      /\ \A r \in MemProcs \ {q} : as'[r] = as[r]
      /\ \A r \in MemProcs \ {p} : job'[r] = job[r]
  BY <1>1
<1>3. MemShape'
  <2>1. freelist' \subseteq Pages
    BY SharedIs
  <2> QED BY <2>1, <1>2 DEF MemShape
<1>4. ASSUME NEW r \in MemProcs PROVE Consistent(as'[r], job'[r]) /\ EachOnce(as'[r].pt) /\ EachOnce(job'[r].new)
  <2>1. Consistent(as[r], job[r]) /\ EachOnce(as[r].pt) /\ EachOnce(job[r].new)
    BY MemFacts
  <2>2. Consistent(as[p], job[p]) /\ Consistent(as[q], job[q])
    BY MemFacts
  <2>3. as'[r] = (IF r = q THEN a ELSE as[r]) /\ job'[r] = (IF r = p THEN j ELSE job[r])
    BY <1>2
  <2>4. CASE r = q /\ r = p
    BY <2>3, <2>4
  <2>5. CASE r = q /\ r # p
    BY <2>1, <2>3, <2>5
  <2>6. CASE r # q /\ r = p
    BY <2>1, <2>3, <2>6
  <2>7. CASE r # q /\ r # p
    BY <2>1, <2>3, <2>7
  <2> QED BY <2>4, <2>5, <2>6, <2>7
<1>5. ChildrenFit'
  <2> SUFFICES ASSUME NEW r \in MemProcs, job'[r].op = "fork"
               PROVE  /\ as'[job'[r].child].state = "embryo"
                      /\ \A s \in MemProcs \ {r} : job'[s].op = "fork" => job'[s].child # job'[r].child
    BY DEF ChildrenFit
  <2>1. CASE r = p
    BY <2>1, <1>2
  <2>2. CASE r # p
    <3>1. /\ job'[r] = job[r] /\ as[job[r].child].state = "embryo" /\ job[r].child \in MemProcs
          /\ \A s \in MemProcs \ {r} : job[s].op = "fork" => job[s].child # job[r].child
      <4>1. job'[r] = job[r] /\ job[r].op = "fork" /\ job[r] \in Jobs
        BY <2>2, <1>1, <1>2
      <4>2. ChildrenFit
        BY DEF MemInv
      <4>3. job[r].child \in MemProcs
        BY <4>1 DEF Jobs
      <4> QED BY <4>1, <4>2, <4>3 DEF ChildrenFit
    <3>2. as'[job[r].child].state = "embryo"
      BY <3>1, <2>2, <1>2
    <3>3. ASSUME NEW s \in MemProcs \ {r}, job'[s].op = "fork" PROVE job'[s].child # job[r].child
      BY <3>1, <3>3, <2>2, <1>2
    <3> QED BY <3>1, <3>2, <3>3
  <2> QED BY <2>1, <2>2
<1>6. PagesOwnedOnce'
  BY <1>4 DEF PagesOwnedOnce
<1>7. (\A r \in MemProcs : Consistent(as[r], job[r]))'
  BY <1>4
<1> QED BY <1>3, <1>5, <1>6, <1>7 DEF MemInv

\* What the holders have after such a step.
LEMMA HoldingStep ==
  ASSUME MemInv, NEW p \in MemProcs, NEW q \in MemProcs, NEW a \in Spaces, NEW j \in Jobs,
         as' = [as EXCEPT ![q] = a], job' = [job EXCEPT ![p] = j]
  PROVE  /\ Holding'[<<q, "pt">>] = PagesOf(a.pt) /\ Holding'[<<q, "kstack">>] = {a.kstack} \ {0}
         /\ Holding'[<<p, "new">>] = PagesOf(j.new) /\ Holding'[<<p, "mem">>] = {j.mem} \ {0}
         /\ \A h \in Holders : h \notin {<<q, "pt">>, <<q, "kstack">>, <<p, "new">>, <<p, "mem">>}
                               => Holding'[h] = Holding[h]
<1>1. as \in [MemProcs -> Spaces] /\ job \in [MemProcs -> Jobs]
  BY DEF MemInv, MemShape
<1>2. /\ as'[q] = a /\ job'[p] = j
      /\ \A r \in MemProcs \ {q} : as'[r] = as[r]
      /\ \A r \in MemProcs \ {p} : job'[r] = job[r]
  BY <1>1
<1>3. ASSUME NEW h \in Holders, h \notin {<<q, "pt">>, <<q, "kstack">>, <<p, "new">>, <<p, "mem">>}
      PROVE  Holding'[h] = Holding[h]
  <2>1. PICK r \in MemProcs : h \in {<<r, "pt">>, <<r, "kstack">>, <<r, "new">>, <<r, "mem">>}
    BY HolderIs
  <2>2. CASE h \in {<<r, "pt">>, <<r, "kstack">>}
    <3>1. r # q /\ as'[r] = as[r]
      BY <2>2, <1>2, <1>3
    <3>2. /\ Holding[<<r, "pt">>] = PagesOf(as[r].pt) /\ Holding'[<<r, "pt">>] = PagesOf(as'[r].pt)
          /\ Holding[<<r, "kstack">>] = {as[r].kstack} \ {0}
          /\ Holding'[<<r, "kstack">>] = {as'[r].kstack} \ {0}
      BY HoldingIs
    <3>3. CASE h = <<r, "pt">>
      BY <3>1, <3>2, <3>3
    <3>4. CASE h = <<r, "kstack">>
      BY <3>1, <3>2, <3>4
    <3> QED BY <2>2, <3>3, <3>4
  <2>3. CASE h \in {<<r, "new">>, <<r, "mem">>}
    <3>1. r # p /\ job'[r] = job[r]
      BY <2>3, <1>2, <1>3
    <3>2. /\ Holding[<<r, "new">>] = PagesOf(job[r].new) /\ Holding'[<<r, "new">>] = PagesOf(job'[r].new)
          /\ Holding[<<r, "mem">>] = {job[r].mem} \ {0}
          /\ Holding'[<<r, "mem">>] = {job'[r].mem} \ {0}
      BY HoldingIs
    <3>3. CASE h = <<r, "new">>
      BY <3>1, <3>2, <3>3
    <3>4. CASE h = <<r, "mem">>
      BY <3>1, <3>2, <3>4
    <3> QED BY <2>3, <3>3, <3>4
  <2> QED BY <2>1, <2>2, <2>3
<1> QED BY <1>2, <1>3, HoldingIs

LEMMA NoneIs ==
  /\ NoJob \in Jobs /\ NoSpace \in Spaces /\ NoJob.new = NoTable /\ NoJob.mem = 0 /\ NoJob.op = "none"
  /\ NoSpace.pt = NoTable /\ NoSpace.kstack = 0 /\ NoSpace.state = "unused"
  /\ \A a \in Spaces : SlotFits(a, NoJob) => Consistent(a, NoJob)
<1>1. NoJob \in Jobs
  BY NoTablePages, MemoryAssumption DEF NoJob, Jobs
<1>2. NoSpace \in Spaces
  BY NoTablePages, MemoryAssumption DEF NoSpace, Spaces
<1>3. EmptyFrom(NoTable, 0)
  BY NoTablePages
<1>4. \A a \in Spaces : JobFits(a, NoJob) /\ SizeFits(a, NoJob)
  BY <1>3 DEF JobFits, SizeFits, NoJob
<1> QED BY <1>1, <1>2, <1>4 DEF NoJob, NoSpace, Consistent

LEMMA SameFunctions ==
  ASSUME MemInv
  PROVE  /\ \A p \in MemProcs : as = [as EXCEPT ![p] = as[p]] /\ job = [job EXCEPT ![p] = job[p]]
         /\ DOMAIN as = MemProcs /\ DOMAIN job = MemProcs
  BY DEF MemInv, MemShape

LEMMA NotChild ==
  ASSUME MemInv, NEW p \in MemProcs, as[p].state # "embryo"
  PROVE  \A r \in MemProcs : job[r].op = "fork" => job[r].child # p
  BY DEF MemInv, ChildrenFit

\* A step of a process that no fork() is filling.
LEMMA OwnStep ==
  ASSUME MemInv, NEW p \in MemProcs, NEW a \in Spaces, NEW j \in Jobs,
         as' = [as EXCEPT ![p] = a], job' = [job EXCEPT ![p] = j], jobs' \in Nat, Consistent(a, j),
         EachOnce(a.pt), EachOnce(j.new), Shared(Holding', freelist'), as[p].state # "embryo",
         j.op = "fork" => job[p].op = "fork" /\ j.child = job[p].child
  PROVE  MemInv'
<1>1. \A r \in MemProcs : job[r].op = "fork" => job[r].child # p
  BY NotChild
<1>2. ASSUME j.op = "fork"
      PROVE  /\ as'[j.child].state = "embryo"
             /\ \A r \in MemProcs \ {p} : job[r].op = "fork" => job[r].child # j.child
  <2>1. job[p].op = "fork" /\ j.child = job[p].child /\ job[p].child \in MemProcs /\ job[p].child # p
    BY <1>1, <1>2, MemFacts
  <2>2. /\ as[job[p].child].state = "embryo"
        /\ \A r \in MemProcs \ {p} : job[r].op = "fork" => job[r].child # job[p].child
    BY <2>1 DEF MemInv, ChildrenFit
  <2>3. as'[j.child] = as[job[p].child]
    BY <2>1, SameFunctions
  <2> QED BY <2>1, <2>2, <2>3
<1>3. Consistent(a, IF p = p THEN j ELSE job[p]) /\ Consistent(IF p = p THEN a ELSE as[p], j)
  OBVIOUS
<1>4. \A r \in MemProcs \ {p} : job[r].op = "fork" /\ job[r].child = p => a.state = "embryo"
  BY <1>1
<1> QED BY <1>2, <1>3, <1>4, MemStep

\* A step that moves no pages.
LEMMA QuietStep ==
  ASSUME MemInv, NEW p \in MemProcs, NEW a \in Spaces, NEW j \in Jobs,
         as' = [as EXCEPT ![p] = a], job' = [job EXCEPT ![p] = j], freelist' = freelist,
         PagesOf(a.pt) = PagesOf(as[p].pt), a.kstack = as[p].kstack,
         PagesOf(j.new) = PagesOf(job[p].new), j.mem = job[p].mem
  PROVE  Shared(Holding', freelist')
<1>1. Shared(Holding, freelist)
  BY MemFacts
<1>2. \A h \in Holders : Holding'[h] = Holding[h]
  <2>1. /\ Holding'[<<p, "pt">>] = PagesOf(a.pt) /\ Holding'[<<p, "kstack">>] = {a.kstack} \ {0}
        /\ Holding'[<<p, "new">>] = PagesOf(j.new) /\ Holding'[<<p, "mem">>] = {j.mem} \ {0}
        /\ \A h \in Holders : h \notin {<<p, "pt">>, <<p, "kstack">>, <<p, "new">>, <<p, "mem">>}
                              => Holding'[h] = Holding[h]
    BY HoldingStep
  <2>2. /\ Holding[<<p, "pt">>] = PagesOf(as[p].pt) /\ Holding[<<p, "kstack">>] = {as[p].kstack} \ {0}
        /\ Holding[<<p, "new">>] = PagesOf(job[p].new) /\ Holding[<<p, "mem">>] = {job[p].mem} \ {0}
    BY HoldingIs
  <2> QED BY <2>1, <2>2
<1>3. Shared(Holding', freelist)
  BY <1>1, <1>2, SameShared
<1> QED BY <1>3

LEMMA MemStutter ==
  ASSUME MemInv, as' = as, job' = job, freelist' = freelist, jobs' \in Nat
  PROVE  MemInv'
<1>1. MemShape'
  BY DEF MemInv, MemShape
<1>2. PagesOwnedOnce'
  <2>1. Holding' = Holding
    BY DEF Holding
  <2> QED BY <2>1 DEF MemInv, PagesOwnedOnce
<1>3. (\A p \in MemProcs : Consistent(as[p], job[p]))' /\ ChildrenFit'
  BY DEF MemInv, ChildrenFit
<1> QED BY <1>1, <1>2, <1>3 DEF MemInv

LEMMA EmptyAt ==
  ASSUME NEW t, NEW n, EmptyFrom(t, n), NEW v \in 0 .. UserPages - 1, v >= n
  PROVE  t.pte[v] = 0
  BY DEF EmptyFrom

\* A process that makes a call is in none, and has something mapped.
LEMMA Caller ==
  ASSUME MemInv, NEW p \in MemProcs, Calls(p)
  PROVE  /\ as[p].state = "runnable" /\ job[p] = NoJob /\ as[p].sz \in 1 .. UserPages
         /\ as[p].kstack # 0 /\ EmptyFrom(as[p].pt, as[p].sz) /\ jobs' \in Nat
<1>1. as[p].state = "runnable" /\ job[p] = NoJob /\ as[p].pt.pte[0] # 0 /\ jobs' = jobs + 1
  BY DEF Calls, NoCall
<1>2. SlotFits(as[p], job[p]) /\ as[p].sz \in 0 .. UserPages /\ UserPages \in Nat \ {0}
  BY MemFacts DEF Consistent
<1>3. EmptyFrom(as[p].pt, as[p].sz) /\ as[p].kstack # 0
  BY <1>1, <1>2, NoneIs DEF SlotFits
<1>4. as[p].sz # 0
  <2>1. 0 \in 0 .. UserPages - 1
    BY <1>2
  <2>2. ~EmptyFrom(as[p].pt, 0)
    <3>1. 0 >= 0
      OBVIOUS
    <3> QED BY <1>1, <2>1, <3>1, EmptyAt, Zenon
  <2> QED BY <1>3, <2>2
<1>5. as[p].sz \in 1 .. UserPages
  <2>1. \A z \in 0 .. UserPages : z # 0 => z \in 1 .. UserPages
    BY <1>2
  <2> QED BY <1>2, <1>4, <2>1
<1>6. jobs' \in Nat
  BY <1>1 DEF MemInv, MemShape
<1> QED BY <1>1, <1>3, <1>5, <1>6

LEMMA ExecBeginInv ==
  ASSUME MemInv, NEW p \in MemProcs, NEW n \in ExecSizes, exec_begin(p, n)
  PROVE  MemInv'
<1> DEFINE a == as[p]
           j == [NoJob EXCEPT !.op = "exec", !.pc = "kvm", !.to = n + 2]
<1>1. /\ Calls(p) /\ job' = [job EXCEPT ![p] = j] /\ as' = [as EXCEPT ![p] = a] /\ freelist' = freelist
  BY SameFunctions DEF exec_begin, SetJob
<1>2. n \in Nat /\ n + 2 \in Nat
  BY MemoryAssumption
<1>3. /\ j.op = "exec" /\ j.pc = "kvm" /\ j.to = n + 2 /\ j.i = 0 /\ j.mem = 0 /\ j.new = NoTable
  BY DEF NoJob
<1>4. j \in Jobs
  BY <1>2, NoneIs, JobWith DEF Ops, Pcs
<1>5. job[p] = NoJob /\ a.state = "runnable" /\ jobs' \in Nat /\ a.kstack # 0 /\ EmptyFrom(a.pt, a.sz)
  BY <1>1, Caller
<1>6. a \in Spaces /\ EachOnce(a.pt)
  BY MemFacts
<1>7. job[p].new = NoTable /\ job[p].mem = 0
  BY <1>5, NoneIs
<1> HIDE DEF a, j
<1>8. Consistent(a, j)
  <2>1. SlotFits(a, j)
    BY <1>3, <1>5 DEF SlotFits
  <2>2. JobFits(a, j)
    BY <1>3, <1>5, NoTablePages DEF JobFits
  <2>3. SizeFits(a, j)
    BY <1>2, <1>3 DEF SizeFits
  <2> QED BY <2>1, <2>2, <2>3 DEF Consistent
<1>9. Shared(Holding', freelist')
  <2>1. PagesOf(a.pt) = PagesOf(as[p].pt) /\ a.kstack = as[p].kstack
    BY DEF a
  <2> QED BY <2>1, <1>1, <1>3, <1>4, <1>6, <1>7, QuietStep
<1>10. EachOnce(j.new) /\ as[p].state # "embryo" /\ j.op # "fork"
  BY <1>3, <1>5, NoTablePages DEF a
<1> QED BY <1>1, <1>4, <1>5, <1>6, <1>8, <1>9, <1>10, OwnStep

LEMMA GrowBeginInv ==
  ASSUME MemInv, NEW p \in MemProcs, NEW n \in GrowSizes, grow_begin(p, n)
  PROVE  MemInv'
<1> DEFINE a == as[p]
           z == as[p].sz
           j == [NoJob EXCEPT !.op = "grow", !.pc = "mem", !.i = z, !.to = z + n]
<1>1. Calls(p) /\ as' = [as EXCEPT ![p] = a] /\ as' = as /\ freelist' = freelist
  BY SameFunctions DEF grow_begin
<1>2. job[p] = NoJob /\ a.state = "runnable" /\ jobs' \in Nat /\ a.kstack # 0 /\ EmptyFrom(a.pt, a.sz)
  BY <1>1, Caller
<1>3. z \in Nat /\ n \in Nat /\ n > 0 /\ z + n \in Nat /\ UserPages \in Nat
  <2>1. z \in 0 .. UserPages /\ UserPages \in Nat \ {0} /\ n \in Nat \ {0}
    BY MemFacts, MemoryAssumption
  <2> HIDE DEF z
  <2> QED BY <2>1
<1>4. CASE z + n >= UserPages
  BY <1>1, <1>2, <1>4, MemStutter DEF grow_begin
<1>5. CASE ~(z + n >= UserPages)
  <2>1. job' = [job EXCEPT ![p] = j]
    BY <1>5 DEF grow_begin, SetJob
  <2>2. /\ j.op = "grow" /\ j.pc = "mem" /\ j.i = z /\ j.to = z + n /\ j.mem = 0 /\ j.new = NoTable
    BY DEF NoJob
  <2>3. j \in Jobs
    BY <1>3, NoneIs, JobWith DEF Ops, Pcs
  <2>4. a \in Spaces /\ EachOnce(a.pt)
    BY MemFacts
  <2>5. job[p].new = NoTable /\ job[p].mem = 0
    BY <1>2, NoneIs
  <2>6. a.sz = z /\ PagesOf(a.pt) = PagesOf(as[p].pt) /\ a.kstack = as[p].kstack
    OBVIOUS
  <2> HIDE DEF j, a, z
  <2>7. Consistent(a, j)
    <3>1. SlotFits(a, j)
      BY <1>2, <2>2, <2>6 DEF SlotFits
    <3>2. JobFits(a, j)
      BY <1>2, <1>3, <2>2 DEF JobFits
    <3>3. SizeFits(a, j)
      BY <1>3, <1>5, <2>2, <2>6 DEF SizeFits
    <3> QED BY <3>1, <3>2, <3>3 DEF Consistent
  <2>8. Shared(Holding', freelist')
    BY <1>1, <2>1, <2>2, <2>3, <2>4, <2>5, <2>6, QuietStep
  <2>9. EachOnce(j.new) /\ as[p].state # "embryo" /\ j.op # "fork"
    BY <1>2, <2>2, NoTablePages DEF a
  <2> QED BY <1>1, <1>2, <2>1, <2>3, <2>4, <2>7, <2>8, <2>9, OwnStep
<1> QED BY <1>4, <1>5

LEMMA ExitInv ==
  ASSUME MemInv, NEW p \in MemProcs, exit_proc(p)
  PROVE  MemInv'
<1> DEFINE a == [as[p] EXCEPT !.state = "zombie"]
<1>1. /\ as' = [as EXCEPT ![p] = a] /\ job' = [job EXCEPT ![p] = NoJob] /\ freelist' = freelist
      /\ jobs' = jobs /\ as[p].state = "runnable" /\ job[p] = NoJob
  <2>1. NoCall(p) /\ as' = [as EXCEPT ![p].state = "zombie"] /\ UNCHANGED <<freelist, job, jobs>>
    BY DEF exit_proc
  <2>2. job = [job EXCEPT ![p] = job[p]]
    BY SameFunctions
  <2> QED BY <2>1, <2>2 DEF NoCall
<1>2. as[p] \in Spaces /\ EachOnce(as[p].pt) /\ SlotFits(as[p], job[p])
  BY MemFacts DEF Consistent
<1>3. a \in Spaces
  BY <1>2, SpaceWith DEF States
<1>4. a.pt = as[p].pt /\ a.kstack = as[p].kstack /\ a.sz = as[p].sz /\ a.state = "zombie"
  BY <1>2 DEF Spaces
<1> HIDE DEF a
<1>5. Consistent(a, NoJob)
  <2>1. SlotFits(a, NoJob)
    BY <1>1, <1>2, <1>4, NoneIs DEF SlotFits
  <2> QED BY <2>1, <1>3, NoneIs
<1>6. Shared(Holding', freelist')
  BY <1>1, <1>3, <1>4, NoneIs, QuietStep
<1>7. jobs' \in Nat
  BY <1>1 DEF MemInv, MemShape
<1>8. EachOnce(a.pt) /\ EachOnce(NoJob.new) /\ NoJob.op # "fork" /\ as[p].state # "embryo" /\ NoJob \in Jobs
  BY <1>1, <1>2, <1>4, NoTablePages, NoneIs
<1> QED BY <1>1, <1>3, <1>5, <1>6, <1>7, <1>8, OwnStep

LEMMA ShrinkLess ==
  ASSUME MemInv, NEW p \in MemProcs, NEW n \in GrowSizes, shrink(p, n), ~(as[p].sz - n < 0)
  PROVE  MemInv'
<1> DEFINE to == as[p].sz - n
           t == deallocuvm(as[p].pt, to)
           z == IF to = 0 THEN as[p].sz ELSE to
           a == [as[p] EXCEPT !.pt = t, !.sz = z]
           gone == DroppedPages(as[p].pt, to)
<1>1. /\ as' = [as EXCEPT ![p].pt = deallocuvm(@, to), ![p].sz = IF to = 0 THEN @ ELSE to]
      /\ Calls(p) /\ freelist' = freelist \cup gone /\ job' = job
  BY DEF shrink
<1>2. as[p] \in Spaces /\ as[p].pt \in Tables /\ EachOnce(as[p].pt) /\ Shared(Holding, freelist)
  BY MemFacts
<1>3. /\ as[p].state = "runnable" /\ job[p] = NoJob /\ as[p].sz \in 1 .. UserPages
      /\ as[p].kstack # 0 /\ jobs' \in Nat
  BY <1>1, Caller
<1>4. to \in Nat /\ z \in 0 .. UserPages /\ z >= to
  <2>1. UserPages \in Nat \ {0} /\ as[p].sz \in 1 .. UserPages /\ n \in Nat \ {0} /\ ~(to < 0)
    BY <1>3, MemoryAssumption
  <2>2. to \in Nat /\ to \in 0 .. UserPages /\ as[p].sz \in 0 .. UserPages /\ as[p].sz >= to
    <3>1. \A s \in 1 .. UserPages : ~(s - n < 0) => /\ s - n \in Nat /\ s - n \in 0 .. UserPages
                                                   /\ s \in 0 .. UserPages /\ s >= s - n
      BY <2>1
    <3> QED BY <2>1, <3>1
  <2> HIDE DEF to
  <2>3. CASE to = 0
    BY <2>2, <2>3
  <2>4. CASE to # 0
    BY <2>2, <2>4
  <2> QED BY <2>3, <2>4
<1>5. as' = [as EXCEPT ![p] = a]
  BY <1>1, <1>2 DEF Spaces
<1>6. /\ t \in Tables /\ EachOnce(t) /\ PagesOf(t) = PagesOf(as[p].pt) \ gone
      /\ gone \subseteq PagesOf(as[p].pt) /\ EmptyFrom(t, to)
  <2> HIDE DEF to
  <2> QED BY <1>2, <1>4, Dealloc
<1>7. job' = [job EXCEPT ![p] = NoJob]
  BY <1>1, <1>3, SameFunctions
<1> HIDE DEF t, z, to, gone
<1>8. a \in Spaces
  BY <1>2, <1>4, <1>6, SpaceWith
<1>9. a.pt = t /\ a.sz = z /\ a.kstack = as[p].kstack /\ a.state = as[p].state
  BY <1>2 DEF Spaces
<1> HIDE DEF a
<1>10. Consistent(a, NoJob)
  <2>1. EmptyFrom(a.pt, a.sz)
    BY <1>4, <1>6, <1>9 DEF EmptyFrom
  <2>2. SlotFits(a, NoJob)
    BY <2>1, <1>3, <1>9, NoneIs DEF SlotFits
  <2> QED BY <2>2, <1>8, NoneIs
<1>11. Shared(Holding', freelist')
  <2>1. /\ Holding'[<<p, "pt">>] = PagesOf(t) /\ Holding'[<<p, "kstack">>] = {as[p].kstack} \ {0}
        /\ Holding'[<<p, "new">>] = {} /\ Holding'[<<p, "mem">>] = {}
        /\ \A h \in Holders : h \notin {<<p, "pt">>, <<p, "kstack">>, <<p, "new">>, <<p, "mem">>}
                              => Holding'[h] = Holding[h]
    <3>1. NoJob \in Jobs /\ PagesOf(NoJob.new) = {} /\ {NoJob.mem} \ {0} = {}
      BY NoneIs, NoTablePages
    <3>2. /\ Holding'[<<p, "pt">>] = PagesOf(a.pt) /\ Holding'[<<p, "kstack">>] = {a.kstack} \ {0}
          /\ Holding'[<<p, "new">>] = PagesOf(NoJob.new) /\ Holding'[<<p, "mem">>] = {NoJob.mem} \ {0}
          /\ \A h \in Holders : h \notin {<<p, "pt">>, <<p, "kstack">>, <<p, "new">>, <<p, "mem">>}
                                => Holding'[h] = Holding[h]
      BY <3>1, <1>5, <1>7, <1>8, HoldingStep
    <3> QED BY <3>1, <3>2, <1>9
  <2>2. /\ Holding[<<p, "pt">>] = PagesOf(as[p].pt) /\ Holding[<<p, "kstack">>] = {as[p].kstack} \ {0}
        /\ Holding[<<p, "new">>] = {} /\ Holding[<<p, "mem">>] = {}
    BY <1>3, NoneIs, NoTablePages, HoldingIs
  <2>3. \A h \in Holders : h # <<p, "pt">> => Holding'[h] = Holding[h]
    BY <2>1, <2>2
  <2>4. Holding'[<<p, "pt">>] = Holding[<<p, "pt">>] \ gone /\ gone \subseteq Holding[<<p, "pt">>]
    BY <2>1, <2>2, <1>6
  <2>5. <<p, "pt">> \in Holders
    BY HolderIs
  <2> QED BY <2>3, <2>4, <2>5, <1>1, <1>2, GiveBack
<1>12. EachOnce(a.pt) /\ EachOnce(NoJob.new) /\ NoJob.op # "fork" /\ as[p].state # "embryo" /\ NoJob \in Jobs
  BY <1>3, <1>6, <1>9, NoTablePages, NoneIs
<1> QED BY <1>3, <1>5, <1>7, <1>8, <1>10, <1>11, <1>12, OwnStep

\* A process that does not run is in no call.
LEMMA ShrinkInv ==
  ASSUME MemInv, NEW p \in MemProcs, NEW n \in GrowSizes, shrink(p, n)
  PROVE  MemInv'
<1>1. CASE as[p].sz - n < 0
  <2>1. Calls(p) /\ freelist' = freelist /\ as' = as /\ job' = job
    BY <1>1 DEF shrink
  <2>2. jobs' \in Nat
    BY <2>1, Caller
  <2> QED BY <2>1, <2>2, MemStutter
<1> QED BY <1>1, ShrinkLess

LEMMA NoCallOf ==
  ASSUME MemInv, NEW q \in MemProcs, as[q].state # "runnable"
  PROVE  job[q] = NoJob
  BY MemFacts DEF Consistent, JobFits

LEMMA WaitInv ==
  ASSUME MemInv, NEW p \in MemProcs, NEW q \in MemProcs, wait_proc(p, q)
  PROVE  MemInv'
<1> DEFINE T == PagesOf(as[q].pt)
           k == as[q].kstack
<1>1. /\ as' = [as EXCEPT ![q] = NoSpace] /\ freelist' = (freelist \cup T) \cup {k}
      /\ job' = job /\ jobs' = jobs /\ as[q].state = "zombie"
  BY DEF wait_proc
<1>2. job[q] = NoJob
  BY <1>1, NoCallOf
<1>3. job' = [job EXCEPT ![q] = NoJob]
  BY <1>1, <1>2, SameFunctions
<1>4. k # 0 /\ Shared(Holding, freelist)
  BY <1>1, MemFacts DEF Consistent, SlotFits
<1>5. NoJob \in Jobs /\ NoSpace \in Spaces /\ Consistent(NoSpace, NoJob)
  <2>1. EmptyFrom(NoTable, NoSpace.sz)
    BY NoTablePages DEF NoSpace
  <2>2. SlotFits(NoSpace, NoJob)
    BY <2>1, NoneIs DEF SlotFits
  <2> QED BY <2>2, NoneIs
<1>6. Shared(Holding', freelist')
  <2>1. /\ Holding'[<<q, "pt">>] = PagesOf(NoSpace.pt) /\ Holding'[<<q, "kstack">>] = {NoSpace.kstack} \ {0}
        /\ Holding'[<<q, "new">>] = PagesOf(NoJob.new) /\ Holding'[<<q, "mem">>] = {NoJob.mem} \ {0}
        /\ \A h \in Holders : h \notin {<<q, "pt">>, <<q, "kstack">>, <<q, "new">>, <<q, "mem">>}
                              => Holding'[h] = Holding[h]
    <3>1. as' = [as EXCEPT ![q] = NoSpace] /\ NoJob \in Jobs /\ NoSpace \in Spaces
      BY <1>1, <1>5
    <3> DEFINE a == NoSpace
               j == NoJob
    <3>2. a \in Spaces /\ j \in Jobs /\ as' = [as EXCEPT ![q] = a] /\ job' = [job EXCEPT ![q] = j]
      BY <3>1, <1>3
    <3> HIDE DEF a, j
    <3>3. /\ Holding'[<<q, "pt">>] = PagesOf(a.pt) /\ Holding'[<<q, "kstack">>] = {a.kstack} \ {0}
          /\ Holding'[<<q, "new">>] = PagesOf(j.new) /\ Holding'[<<q, "mem">>] = {j.mem} \ {0}
          /\ \A h \in Holders : h \notin {<<q, "pt">>, <<q, "kstack">>, <<q, "new">>, <<q, "mem">>}
                                => Holding'[h] = Holding[h]
      BY <3>2, HoldingStep
    <3> QED BY <3>3 DEF a, j
  <2>2. /\ Holding[<<q, "pt">>] = T /\ Holding[<<q, "kstack">>] = {k} \ {0}
        /\ Holding[<<q, "new">>] = PagesOf(job[q].new) /\ Holding[<<q, "mem">>] = {job[q].mem} \ {0}
    BY HoldingIs
  <2>3. /\ Holding'[<<q, "pt">>] = {} /\ Holding'[<<q, "kstack">>] = {} /\ Holding[<<q, "kstack">>] = {k}
        /\ \A h \in Holders : h \notin {<<q, "pt">>, <<q, "kstack">>} => Holding'[h] = Holding[h]
    BY <2>1, <2>2, <1>2, <1>4, NoneIs, NoTablePages
  <2> DEFINE mid == [h \in Holders |-> IF h = <<q, "pt">> THEN {} ELSE Holding[h]]
  <2>4. <<q, "pt">> \in Holders /\ <<q, "kstack">> \in Holders /\ <<q, "pt">> # <<q, "kstack">>
    BY HolderIs
  <2>5. /\ mid[<<q, "pt">>] = Holding[<<q, "pt">>] \ T /\ T \subseteq Holding[<<q, "pt">>]
        /\ \A h \in Holders : h # <<q, "pt">> => mid[h] = Holding[h]
    BY <2>2, <2>4
  <2>6. /\ Holding'[<<q, "kstack">>] = mid[<<q, "kstack">>] \ {k} /\ {k} \subseteq mid[<<q, "kstack">>]
        /\ \A h \in Holders : h # <<q, "kstack">> => Holding'[h] = mid[h]
    BY <2>3, <2>4
  <2> HIDE DEF mid, T, k
  <2>7. Shared(mid, freelist \cup T)
    BY <2>4, <2>5, <1>4, GiveBack
  <2>8. Shared(Holding', (freelist \cup T) \cup {k})
    BY <2>4, <2>6, <2>7, GiveBack
  <2> QED BY <2>8, <1>1
<1>7. jobs' \in Nat
  BY <1>1 DEF MemInv, MemShape
<1>8. EachOnce(NoSpace.pt) /\ EachOnce(NoJob.new) /\ NoJob.op # "fork" /\ as[q].state # "embryo"
  BY <1>1, NoTablePages, NoneIs
<1> QED BY <1>1, <1>3, <1>5, <1>6, <1>7, <1>8, OwnStep

LEMMA ForkBeginInv ==
  ASSUME MemInv, NEW p \in MemProcs, NEW q \in MemProcs, fork_begin(p, q)
  PROVE  MemInv'
<1> DEFINE x == kalloc
           n == as[p].sz
           a == [NoSpace EXCEPT !.state = "embryo", !.kstack = x]
           j == [NoJob EXCEPT !.op = "fork", !.pc = "kvm", !.to = n, !.child = q]
<1>1. Calls(p) /\ as[q].state = "unused"
  BY DEF fork_begin
<1>2. /\ as[p].state = "runnable" /\ job[p] = NoJob /\ as[p].kstack # 0 /\ EmptyFrom(as[p].pt, n)
      /\ jobs' \in Nat /\ n \in 1 .. UserPages
  BY <1>1, Caller
<1>3. CASE freelist = {}
  BY <1>2, <1>3, MemStutter DEF fork_begin
<1>4. CASE freelist # {}
  <2>1. /\ freelist' = freelist \ {x} /\ as' = [as EXCEPT ![q] = a] /\ job' = [job EXCEPT ![p] = j]
    BY <1>4 DEF fork_begin, SetJob
  <2>2. x \in freelist /\ x \in Pages /\ x # 0
    BY <1>4, MemFacts, KallocIs
  <2>3. n \in Nat
    <3>1. \A s \in 1 .. UserPages : s \in Nat
      OBVIOUS
    <3> QED BY <3>1, <1>2
  <2>4. /\ a.state = "embryo" /\ a.kstack = x /\ a.pt = NoTable /\ a.sz = 0
        /\ j.op = "fork" /\ j.pc = "kvm" /\ j.i = 0 /\ j.to = n /\ j.mem = 0 /\ j.new = NoTable /\ j.child = q
    BY DEF NoSpace, NoJob
  <2> HIDE DEF x, n
  <2>5. j \in Jobs
    BY <2>3, NoneIs, JobWith DEF Ops, Pcs
  <2>6. a \in Spaces
    BY <2>2, NoneIs DEF Spaces
  <2> HIDE DEF a, j
  <2>7. job[q] = NoJob /\ as[q] = NoSpace /\ p # q
    <3>1. SlotFits(as[q], job[q])
      BY MemFacts DEF Consistent
    <3> QED BY <3>1, <1>1, <1>2, NoCallOf DEF SlotFits
  <2>8. Consistent(a, job[q])
    <3>1. SlotFits(a, NoJob)
      BY <2>2, <2>4, NoTablePages, NoneIs DEF SlotFits
    <3> QED BY <3>1, <2>6, <2>7, NoneIs
  <2>9. Consistent(as[p], j)
    <3>1. SlotFits(as[p], j)
      BY <1>2, <2>4 DEF SlotFits, n
    <3>2. JobFits(as[p], j)
      BY <1>2, <2>4, NoTablePages DEF JobFits
    <3>3. SizeFits(as[p], j)
      BY <2>4 DEF SizeFits, n
    <3> QED BY <3>1, <3>2, <3>3 DEF Consistent
  <2>10. Shared(Holding', freelist')
    <3>1. /\ Holding'[<<q, "pt">>] = PagesOf(a.pt) /\ Holding'[<<q, "kstack">>] = {a.kstack} \ {0}
          /\ Holding'[<<p, "new">>] = PagesOf(j.new) /\ Holding'[<<p, "mem">>] = {j.mem} \ {0}
          /\ \A h \in Holders : h \notin {<<q, "pt">>, <<q, "kstack">>, <<p, "new">>, <<p, "mem">>}
                                => Holding'[h] = Holding[h]
      BY <2>1, <2>5, <2>6, HoldingStep
    <3>2. /\ Holding[<<q, "pt">>] = PagesOf(as[q].pt) /\ Holding[<<q, "kstack">>] = {as[q].kstack} \ {0}
          /\ Holding[<<p, "new">>] = PagesOf(job[p].new) /\ Holding[<<p, "mem">>] = {job[p].mem} \ {0}
      BY HoldingIs
    <3>3. /\ Holding'[<<q, "pt">>] = Holding[<<q, "pt">>]
          /\ Holding'[<<p, "new">>] = Holding[<<p, "new">>]
          /\ Holding'[<<p, "mem">>] = Holding[<<p, "mem">>]
      BY <3>1, <3>2, <2>4, <2>7, <1>2, NoneIs
    <3>4. Holding'[<<q, "kstack">>] = Holding[<<q, "kstack">>] \cup {x}
      BY <3>1, <3>2, <2>2, <2>4, <2>7, NoneIs
    <3>5. \A h \in Holders : h # <<q, "kstack">> => Holding'[h] = Holding[h]
      BY <3>1, <3>3
    <3>6. <<q, "kstack">> \in Holders /\ Shared(Holding, freelist)
      BY HolderIs, MemFacts
    <3>7. Shared(Holding', freelist \ {x})
      BY <3>4, <3>5, <3>6, <2>2, TakePage
    <3> QED BY <3>7, <2>1
  <2>11. /\ as'[j.child].state = "embryo"
         /\ \A r \in MemProcs \ {p} : job[r].op = "fork" => job[r].child # j.child
    <3>1. \A r \in MemProcs : job[r].op = "fork" => job[r].child # q
      BY <1>1, NotChild
    <3>2. as'[q] = a
      BY <2>1, SameFunctions
    <3> QED BY <3>1, <3>2, <2>4
  <2>12. EachOnce(a.pt) /\ EachOnce(j.new)
    BY <2>4, NoTablePages
  <2>13. Consistent(a, IF q = p THEN j ELSE job[q]) /\ Consistent(IF q = p THEN a ELSE as[p], j)
    BY <2>7, <2>8, <2>9
  <2> QED BY <1>2, <2>1, <2>4, <2>5, <2>6, <2>10, <2>11, <2>12, <2>13, MemStep
<1> QED BY <1>3, <1>4
\* Three holders give pages back.
Give(held, now, e, C, f, D, g, E) ==
  /\ e \in Holders /\ f \in Holders /\ g \in Holders /\ e # f /\ f # g /\ e # g
  /\ C \subseteq held[e] /\ D \subseteq held[f] /\ E \subseteq held[g]
  /\ now[e] = held[e] \ C /\ now[f] = held[f] \ D /\ now[g] = held[g] \ E
  /\ \A h \in Holders : h \notin {e, f, g} => now[h] = held[h]

LEMMA GiveThree ==
  ASSUME NEW held, NEW free, Shared(held, free), NEW now, NEW e, NEW f, NEW g, NEW C, NEW D, NEW E,
         Give(held, now, e, C, f, D, g, E)
  PROVE  Shared(now, ((free \cup C) \cup D) \cup E)
<1> USE DEF Give
<1> DEFINE one == [h \in Holders |-> IF h = e THEN held[h] \ C ELSE held[h]]
           two == [h \in Holders |-> IF h = f THEN one[h] \ D ELSE one[h]]
<1>1. /\ one[e] = held[e] \ C /\ one[f] = held[f] /\ one[g] = held[g]
      /\ \A h \in Holders : h # e => one[h] = held[h]
  OBVIOUS
<1>2. /\ two[e] = one[e] /\ two[f] = one[f] \ D /\ two[g] = one[g]
      /\ \A h \in Holders : h # f => two[h] = one[h]
  OBVIOUS
<1> HIDE DEF one, two
<1>3. Shared(one, free \cup C)
  BY <1>1, GiveBack
<1>4. Shared(two, (free \cup C) \cup D)
  <2>1. D \subseteq one[f] /\ two[f] = one[f] \ D /\ \A h \in Holders : h # f => two[h] = one[h]
    BY <1>1, <1>2
  <2> DEFINE fc == free \cup C
  <2>2. Shared(one, fc)
    BY <1>3
  <2> HIDE DEF fc
  <2>3. Shared(two, fc \cup D)
    BY <2>1, <2>2, GiveBack
  <2> QED BY <2>3 DEF fc
<1>5. \A h \in Holders : h # g => now[h] = two[h]
  BY <1>1, <1>2
<1>6. now[g] = two[g] \ E /\ E \subseteq two[g]
  BY <1>1, <1>2
<1> QED BY <1>4, <1>5, <1>6, GiveBack

\* A process that runs fits no call as it fits fork() and exec().
LEMMA AtRest ==
  ASSUME NEW a \in Spaces, a.state = "runnable", a.kstack # 0, EmptyFrom(a.pt, a.sz)
  PROVE  Consistent(a, NoJob)
<1>1. SlotFits(a, NoJob)
  BY NoneIs DEF SlotFits
<1> QED BY <1>1, NoneIs

\* A process in a call runs.
LEMMA InCall ==
  ASSUME MemInv, NEW p \in MemProcs, job[p].op # "none"
  PROVE  /\ as[p].state = "runnable" /\ as[p].kstack # 0 /\ jobs \in Nat
         /\ job[p].op # "grow" => EmptyFrom(as[p].pt, as[p].sz)
  BY MemFacts DEF Consistent, SlotFits, JobFits, MemInv, MemShape

\* The three ways to fail.
ExecFails(p) ==
  /\ job[p].op = "exec" /\ job' = [job EXCEPT ![p] = NoJob] /\ as' = as /\ jobs' = jobs
  /\ freelist' = freelist \cup PagesOf(job[p].new) \cup ({job[p].mem} \ {0})

GrowFails(p) ==
  /\ job[p].op = "grow" /\ job' = [job EXCEPT ![p] = NoJob] /\ jobs' = jobs
  /\ as' = [as EXCEPT ![p].pt = deallocuvm(@, as[p].sz)]
  /\ freelist' = freelist \cup DroppedPages(as[p].pt, as[p].sz) \cup ({job[p].mem} \ {0})

ForkFails(p, c) ==
  /\ job[p].op = "fork" /\ job' = [job EXCEPT ![p] = NoJob] /\ jobs' = jobs /\ c = job[p].child
  /\ as' = [as EXCEPT ![c] = NoSpace]
  /\ freelist' = freelist \cup PagesOf(job[p].new) \cup ({job[p].mem} \ {0}) \cup {as[c].kstack}

LEMMA FailExec ==
  ASSUME MemInv, NEW p \in MemProcs, ExecFails(p)
  PROVE  MemInv'
<1> DEFINE a == as[p]
           j == NoJob
           C == PagesOf(job[p].new)
           D == {job[p].mem} \ {0}
<1>1. as' = [as EXCEPT ![p] = a] /\ a \in Spaces /\ j \in Jobs /\ job' = [job EXCEPT ![p] = j]
  BY SameFunctions, NoneIs, MemFacts DEF ExecFails
<1>2. Consistent(a, j) /\ as[p].state # "embryo" /\ jobs' \in Nat
  BY <1>1, InCall, AtRest DEF ExecFails
<1>3. EachOnce(a.pt) /\ EachOnce(j.new) /\ j.op # "fork" /\ PagesOf(j.new) = {} /\ {j.mem} \ {0} = {}
      /\ PagesOf(a.pt) = PagesOf(as[p].pt) /\ a.kstack = as[p].kstack /\ Shared(Holding, freelist)
  BY MemFacts, NoneIs, NoTablePages
<1>4. freelist' = ((freelist \cup C) \cup D) \cup {}
  BY DEF ExecFails
<1>5. /\ Holding[<<p, "pt">>] = PagesOf(as[p].pt) /\ Holding[<<p, "kstack">>] = {as[p].kstack} \ {0}
      /\ Holding[<<p, "new">>] = C /\ Holding[<<p, "mem">>] = D
  BY HoldingIs
<1> HIDE DEF a, j, C, D
<1>6. /\ Holding'[<<p, "pt">>] = PagesOf(a.pt) /\ Holding'[<<p, "kstack">>] = {a.kstack} \ {0}
      /\ Holding'[<<p, "new">>] = PagesOf(j.new) /\ Holding'[<<p, "mem">>] = {j.mem} \ {0}
      /\ \A h \in Holders : h \notin {<<p, "pt">>, <<p, "kstack">>, <<p, "new">>, <<p, "mem">>}
                            => Holding'[h] = Holding[h]
  BY <1>1, HoldingStep
<1>7. /\ Holding'[<<p, "new">>] = Holding[<<p, "new">>] \ C
      /\ Holding'[<<p, "mem">>] = Holding[<<p, "mem">>] \ D
      /\ Holding'[<<p, "pt">>] = Holding[<<p, "pt">>] \ {}
      /\ \A h \in Holders : h \notin {<<p, "new">>, <<p, "mem">>, <<p, "pt">>} => Holding'[h] = Holding[h]
  BY <1>3, <1>5, <1>6
<1>8. <<p, "new">> \in Holders /\ <<p, "mem">> \in Holders /\ <<p, "pt">> \in Holders
  BY HolderIs
<1>9. Shared(Holding', ((freelist \cup C) \cup D) \cup {})
  <2> DEFINE e == <<p, "new">>
             f == <<p, "mem">>
             g == <<p, "pt">>
  <2>1. /\ e \in Holders /\ f \in Holders /\ g \in Holders /\ e # f /\ f # g /\ e # g
    BY <1>8
  <2>2. /\ C \subseteq Holding[e] /\ D \subseteq Holding[f] /\ {} \subseteq Holding[g]
        /\ Holding'[e] = Holding[e] \ C /\ Holding'[f] = Holding[f] \ D
        /\ Holding'[g] = Holding[g] \ {}
        /\ \A h \in Holders : h \notin {e, f, g} => Holding'[h] = Holding[h]
    BY <1>5, <1>7
  <2>3. Shared(Holding, freelist)
    BY MemFacts
  <2>4. Give(Holding, Holding', e, C, f, D, g, {})
    BY <2>1, <2>2 DEF Give
  <2> HIDE DEF e, f, g
  <2> QED BY <2>3, <2>4, GiveThree
<1>10. Shared(Holding', freelist')
  BY <1>4, <1>9
<1> QED BY <1>1, <1>2, <1>3, <1>10, OwnStep

LEMMA FailGrow ==
  ASSUME MemInv, NEW p \in MemProcs, GrowFails(p)
  PROVE  MemInv'
<1> DEFINE t == deallocuvm(as[p].pt, as[p].sz)
           a == [as[p] EXCEPT !.pt = t]
           j == NoJob
           C == DroppedPages(as[p].pt, as[p].sz)
           D == {job[p].mem} \ {0}
<1>1. /\ as[p] \in Spaces /\ as[p].pt \in Tables /\ EachOnce(as[p].pt) /\ Shared(Holding, freelist)
      /\ as[p].sz \in 0 .. UserPages /\ SizeFits(as[p], job[p])
  BY MemFacts DEF Consistent
<1>2. as' = [as EXCEPT ![p] = a]
  BY <1>1 DEF Spaces, GrowFails
<1>3. as[p].sz \in Nat
  <2>1. \A s \in 0 .. UserPages : s \in Nat
    OBVIOUS
  <2> QED BY <1>1, <2>1
<1>4. /\ t \in Tables /\ EachOnce(t) /\ PagesOf(t) = PagesOf(as[p].pt) \ C
      /\ C \subseteq PagesOf(as[p].pt) /\ EmptyFrom(t, as[p].sz)
  BY <1>1, <1>3, Dealloc
<1> HIDE DEF t
<1>5. a \in Spaces /\ a.pt = t /\ a.sz = as[p].sz /\ a.kstack = as[p].kstack /\ a.state = as[p].state
  BY <1>1, <1>4, SpaceWith DEF Spaces
<1>6. /\ as[p].state = "runnable" /\ as[p].kstack # 0 /\ jobs' \in Nat
  BY InCall DEF GrowFails
<1>7. freelist' = ((freelist \cup C) \cup D) \cup {}
  BY DEF GrowFails
<1>8. PagesOf(job[p].new) = {}
  BY <1>1, NoTablePages DEF SizeFits, GrowFails
<1>9. /\ j \in Jobs /\ job' = [job EXCEPT ![p] = j] /\ PagesOf(j.new) = {} /\ {j.mem} \ {0} = {}
      /\ EachOnce(j.new) /\ j.op # "fork"
  BY NoneIs, NoTablePages DEF GrowFails
<1>10. /\ Holding[<<p, "pt">>] = PagesOf(as[p].pt) /\ Holding[<<p, "kstack">>] = {as[p].kstack} \ {0}
       /\ Holding[<<p, "new">>] = PagesOf(job[p].new) /\ Holding[<<p, "mem">>] = D
  BY HoldingIs
<1> HIDE DEF a, C, D
<1>11. Consistent(a, j)
  BY <1>4, <1>5, <1>6, AtRest
<1> HIDE DEF j
<1>12. /\ Holding'[<<p, "pt">>] = PagesOf(a.pt) /\ Holding'[<<p, "kstack">>] = {a.kstack} \ {0}
       /\ Holding'[<<p, "new">>] = PagesOf(j.new) /\ Holding'[<<p, "mem">>] = {j.mem} \ {0}
       /\ \A h \in Holders : h \notin {<<p, "pt">>, <<p, "kstack">>, <<p, "new">>, <<p, "mem">>}
                             => Holding'[h] = Holding[h]
  BY <1>2, <1>5, <1>9, HoldingStep
<1>13. /\ Holding'[<<p, "pt">>] = Holding[<<p, "pt">>] \ C
       /\ Holding'[<<p, "mem">>] = Holding[<<p, "mem">>] \ D
       /\ Holding'[<<p, "new">>] = Holding[<<p, "new">>] \ {}
       /\ \A h \in Holders : h \notin {<<p, "pt">>, <<p, "mem">>, <<p, "new">>} => Holding'[h] = Holding[h]
  BY <1>4, <1>5, <1>8, <1>9, <1>10, <1>12
<1>14. <<p, "new">> \in Holders /\ <<p, "mem">> \in Holders /\ <<p, "pt">> \in Holders
  BY HolderIs
<1>15. Shared(Holding', ((freelist \cup C) \cup D) \cup {})
  <2> DEFINE e == <<p, "pt">>
             f == <<p, "mem">>
             g == <<p, "new">>
  <2>1. /\ e \in Holders /\ f \in Holders /\ g \in Holders /\ e # f /\ f # g /\ e # g
    BY <1>14
  <2>2. /\ C \subseteq Holding[e] /\ D \subseteq Holding[f] /\ {} \subseteq Holding[g]
        /\ Holding'[e] = Holding[e] \ C /\ Holding'[f] = Holding[f] \ D
        /\ Holding'[g] = Holding[g] \ {}
        /\ \A h \in Holders : h \notin {e, f, g} => Holding'[h] = Holding[h]
    BY <1>4, <1>10, <1>13
  <2>3. Shared(Holding, freelist)
    BY MemFacts
  <2>4. Give(Holding, Holding', e, C, f, D, g, {})
    BY <2>1, <2>2 DEF Give
  <2> HIDE DEF e, f, g
  <2> QED BY <2>3, <2>4, GiveThree
<1>16. Shared(Holding', freelist') /\ EachOnce(a.pt) /\ as[p].state # "embryo"
  BY <1>4, <1>5, <1>6, <1>7, <1>15
<1> QED BY <1>2, <1>5, <1>6, <1>9, <1>11, <1>16, OwnStep

\* The child of a fork() under way.
LEMMA ForkChild ==
  ASSUME MemInv, NEW p \in MemProcs, job[p].op = "fork", NEW c, c = job[p].child
  PROVE  /\ c \in MemProcs /\ c # p /\ job[c] = NoJob /\ as[c] \in Spaces /\ as[c].state = "embryo"
         /\ as[c].pt = NoTable /\ as[c].kstack # 0
         /\ \A r \in MemProcs \ {p} : job[r].op = "fork" => job[r].child # c
<1>1. c \in MemProcs /\ as[p].state = "runnable"
  BY MemFacts, InCall
<1>2. /\ as[c].state = "embryo"
      /\ \A r \in MemProcs \ {p} : job[r].op = "fork" => job[r].child # c
  BY DEF MemInv, ChildrenFit
<1>3. job[c] = NoJob /\ c # p /\ as[c] \in Spaces
  BY <1>1, <1>2, NoCallOf, MemFacts
<1>4. SlotFits(as[c], job[c])
  BY <1>1, MemFacts DEF Consistent
<1>5. as[c].pt = NoTable /\ as[c].kstack # 0
  BY <1>2, <1>4 DEF SlotFits
<1> QED BY <1>1, <1>2, <1>3, <1>5

LEMMA FailFork ==
  ASSUME MemInv, NEW p \in MemProcs, NEW c, ForkFails(p, c)
  PROVE  MemInv'
<1> DEFINE a == NoSpace
           j == NoJob
           C == PagesOf(job[p].new)
           D == {job[p].mem} \ {0}
           E == {as[c].kstack}
<1>1. /\ c \in MemProcs /\ c # p /\ job[c] = NoJob /\ as[c] \in Spaces /\ as[c].state = "embryo"
      /\ as[c].pt = NoTable /\ as[c].kstack # 0
      /\ \A r \in MemProcs \ {p} : job[r].op = "fork" => job[r].child # c
  BY ForkChild DEF ForkFails
<1>2. as[p] \in Spaces /\ Shared(Holding, freelist)
  BY MemFacts
<1>3. /\ as[p].state = "runnable" /\ as[p].kstack # 0 /\ EmptyFrom(as[p].pt, as[p].sz) /\ jobs' \in Nat
  BY InCall DEF ForkFails
<1>4. Consistent(as[p], j)
  BY <1>2, <1>3, AtRest
<1>5. Consistent(a, job[c])
  <2>1. EmptyFrom(NoTable, NoSpace.sz)
    BY NoTablePages DEF NoSpace
  <2>2. SlotFits(NoSpace, NoJob)
    BY <2>1, NoneIs DEF SlotFits
  <2> QED BY <2>2, <1>1, NoneIs
<1>6. /\ a \in Spaces /\ j \in Jobs /\ PagesOf(j.new) = {} /\ {j.mem} \ {0} = {} /\ EachOnce(j.new)
      /\ j.op # "fork" /\ EachOnce(a.pt) /\ PagesOf(a.pt) = {} /\ {a.kstack} \ {0} = {}
  BY NoneIs, NoTablePages
<1>7. as' = [as EXCEPT ![c] = a] /\ job' = [job EXCEPT ![p] = j]
  BY DEF ForkFails
<1>8. freelist' = ((freelist \cup C) \cup D) \cup E
  BY DEF ForkFails
<1>9. /\ Holding[<<c, "pt">>] = PagesOf(as[c].pt) /\ Holding[<<c, "kstack">>] = {as[c].kstack} \ {0}
      /\ Holding[<<p, "new">>] = C /\ Holding[<<p, "mem">>] = D
  BY <1>1, HoldingIs
<1>10. Holding[<<c, "pt">>] = {} /\ Holding[<<c, "kstack">>] = E
  BY <1>1, <1>9, NoTablePages
<1> HIDE DEF a, j, C, D, E
<1>11. /\ Holding'[<<c, "pt">>] = PagesOf(a.pt) /\ Holding'[<<c, "kstack">>] = {a.kstack} \ {0}
       /\ Holding'[<<p, "new">>] = PagesOf(j.new) /\ Holding'[<<p, "mem">>] = {j.mem} \ {0}
       /\ \A h \in Holders : h \notin {<<c, "pt">>, <<c, "kstack">>, <<p, "new">>, <<p, "mem">>}
                             => Holding'[h] = Holding[h]
  BY <1>1, <1>6, <1>7, HoldingStep
<1>12. /\ Holding'[<<p, "new">>] = Holding[<<p, "new">>] \ C
       /\ Holding'[<<p, "mem">>] = Holding[<<p, "mem">>] \ D
       /\ Holding'[<<c, "kstack">>] = Holding[<<c, "kstack">>] \ E
       /\ \A h \in Holders : h \notin {<<p, "new">>, <<p, "mem">>, <<c, "kstack">>}
                             => Holding'[h] = Holding[h]
  BY <1>6, <1>9, <1>10, <1>11
<1>13. <<p, "new">> \in Holders /\ <<p, "mem">> \in Holders /\ <<c, "kstack">> \in Holders
  BY <1>1, HolderIs
<1>14. Shared(Holding', ((freelist \cup C) \cup D) \cup E)
  <2> DEFINE e == <<p, "new">>
             f == <<p, "mem">>
             g == <<c, "kstack">>
  <2>1. /\ e \in Holders /\ f \in Holders /\ g \in Holders /\ e # f /\ f # g /\ e # g
    BY <1>1, <1>13
  <2>2. /\ C \subseteq Holding[e] /\ D \subseteq Holding[f] /\ E \subseteq Holding[g]
        /\ Holding'[e] = Holding[e] \ C /\ Holding'[f] = Holding[f] \ D
        /\ Holding'[g] = Holding[g] \ E
        /\ \A h \in Holders : h \notin {e, f, g} => Holding'[h] = Holding[h]
    BY <1>9, <1>10, <1>12
  <2>3. Shared(Holding, freelist)
    BY MemFacts
  <2>4. Give(Holding, Holding', e, C, f, D, g, E)
    BY <2>1, <2>2 DEF Give
  <2> HIDE DEF e, f, g
  <2> QED BY <2>3, <2>4, GiveThree
<1>15. Shared(Holding', freelist')
  BY <1>8, <1>14
<1>16. Consistent(a, IF c = p THEN j ELSE job[c]) /\ Consistent(IF c = p THEN a ELSE as[p], j)
  BY <1>1, <1>4, <1>5
<1>17. \A r \in MemProcs \ {p} : job[r].op = "fork" /\ job[r].child = c => a.state = "embryo"
  BY <1>1
<1> QED BY <1>1, <1>3, <1>6, <1>7, <1>15, <1>16, <1>17, MemStep

LEMMA FailInv ==
  ASSUME MemInv, NEW p \in MemProcs, Fail(p), jobs' = jobs
  PROVE  MemInv'
  BY FailExec, FailGrow, FailFork DEF Fail, SetJob, ExecFails, GrowFails, ForkFails

-----------------------------------------------------------------------------
(* Memory: building an address space *)

\* The index of a page's table.
LEMMA TableIndex ==
  ASSUME NEW u \in Nat, NEW n \in Nat \ {0}, NEW i \in Nat, i < u
  PROVE  i \div n \in 0 .. ((u + n - 1) \div n) - 1
<1> DEFINE a == i \div n
           b == (u + n - 1) \div n
<1>1. a \in Int /\ a * n <= i /\ i < a * n + n
  OBVIOUS
<1>2. b \in Int /\ b * n <= u + n - 1 /\ u + n - 1 < b * n + n
  OBVIOUS
<1> HIDE DEF a, b
<1>3. a * n < b * n
  BY <1>1, <1>2
<1>4. a < b
  BY <1>1, <1>2, <1>3
<1>5. a >= 0
  BY <1>1
<1>6. a \in 0 .. b - 1
  BY <1>1, <1>2, <1>4, <1>5
<1> QED BY <1>6 DEF a, b

\* A step of a process in a call by which one of its holders takes a free page.
Taken(h, x) ==
  /\ h \in Holders /\ x \in freelist /\ freelist' = freelist \ {x}
  /\ Holding'[h] = Holding[h] \cup {x} /\ \A g \in Holders : g # h => Holding'[g] = Holding[g]

LEMMA TakenIs ==
  ASSUME MemInv, NEW p \in MemProcs, NEW h, NEW x, Taken(h, x)
  PROVE  Shared(Holding', freelist')
<1>1. Shared(Holding, freelist)
  BY MemFacts
<1>2. h \in Holders /\ x \in freelist /\ freelist' = freelist \ {x} /\ Holding'[h] = Holding[h] \cup {x}
  BY DEF Taken
<1>3. \A g \in Holders : g # h => Holding'[g] = Holding[g]
  BY DEF Taken
<1>4. Shared(Holding', freelist \ {x})
  BY <1>1, <1>2, <1>3, TakePage
<1> QED BY <1>2, <1>4

\* What a step of p, on its slot and its call, changes of what is held.
LEMMA OwnHolding ==
  ASSUME MemInv, NEW p \in MemProcs, NEW a \in Spaces, NEW j \in Jobs,
         as' = [as EXCEPT ![p] = a], job' = [job EXCEPT ![p] = j], a.kstack = as[p].kstack
  PROVE  /\ Holding'[<<p, "pt">>] = PagesOf(a.pt) /\ Holding'[<<p, "new">>] = PagesOf(j.new)
         /\ Holding'[<<p, "mem">>] = {j.mem} \ {0}
         /\ Holding[<<p, "pt">>] = PagesOf(as[p].pt) /\ Holding[<<p, "new">>] = PagesOf(job[p].new)
         /\ Holding[<<p, "mem">>] = {job[p].mem} \ {0}
         /\ \A h \in Holders : h \notin {<<p, "pt">>, <<p, "new">>, <<p, "mem">>}
                               => Holding'[h] = Holding[h]
<1>1. /\ Holding'[<<p, "pt">>] = PagesOf(a.pt) /\ Holding'[<<p, "kstack">>] = {a.kstack} \ {0}
      /\ Holding'[<<p, "new">>] = PagesOf(j.new) /\ Holding'[<<p, "mem">>] = {j.mem} \ {0}
      /\ \A h \in Holders : h \notin {<<p, "pt">>, <<p, "kstack">>, <<p, "new">>, <<p, "mem">>}
                            => Holding'[h] = Holding[h]
  BY HoldingStep
<1>2. /\ Holding[<<p, "pt">>] = PagesOf(as[p].pt) /\ Holding[<<p, "kstack">>] = {as[p].kstack} \ {0}
      /\ Holding[<<p, "new">>] = PagesOf(job[p].new) /\ Holding[<<p, "mem">>] = {job[p].mem} \ {0}
  BY HoldingIs
<1> QED BY <1>1, <1>2

LEMMA SetupkvmInv ==
  ASSUME MemInv, NEW p \in MemProcs, setupkvm(p)
  PROVE  MemInv'
<1>1. CASE freelist = {}
  BY <1>1, FailInv DEF setupkvm
<1>2. CASE freelist # {}
  <2> DEFINE x == kalloc
             old == job[p]
             t == IF old.new.dir = 0 THEN [old.new EXCEPT !.dir = x]
                  ELSE [old.new EXCEPT !.ktabs = Append(@, x)]
             c == IF old.new.dir = 0 THEN old.pc
                  ELSE IF Len(old.new.ktabs) + 1 = KTabs THEN "mem" ELSE "kvm"
             j == [old EXCEPT !.new = t, !.pc = c]
             a == as[p]
  <2>1. old.pc = "kvm" /\ freelist' = freelist \ {x} /\ as' = [as EXCEPT ![p] = a] /\ jobs' = jobs
    BY <1>2, SameFunctions DEF setupkvm
  <2>2. old \in Jobs /\ old.new \in Tables /\ EachOnce(old.new) /\ Consistent(a, old) /\ old.i \in Nat /\ old.to \in Nat
        /\ a \in Spaces /\ EachOnce(a.pt) /\ x \in freelist /\ x \in Pages
    BY <1>2, MemFacts, KallocIs
  <2>3. job' = [job EXCEPT ![p] = j]
    <3>1. CASE old.new.dir = 0
      <4>1. j = [old EXCEPT !.new.dir = x]
        BY <2>2, <3>1 DEF Jobs
      <4>2. job' = [job EXCEPT ![p] = [old EXCEPT !.new.dir = x]]
        BY <1>2, <3>1 DEF setupkvm, SetJob
      <4> QED BY <4>1, <4>2
    <3>2. CASE old.new.dir # 0
      <4>1. j = [old EXCEPT !.new.ktabs = Append(@, x), !.pc = c]
        BY <2>2, <3>2 DEF Jobs
      <4>2. job' = [job EXCEPT ![p] = [old EXCEPT !.new.ktabs = Append(@, x), !.pc = c]]
        BY <1>2, <3>2 DEF setupkvm, SetJob
      <4> QED BY <4>1, <4>2
    <3> QED BY <3>1, <3>2
  <2>4. x \notin PagesOf(old.new)
    BY <2>2, FreeIsFree
  <2>5. t \in Tables /\ EachOnce(t) /\ PagesOf(t) = PagesOf(old.new) \cup {x} /\ t.pte = old.new.pte
    <3> DEFINE n == old.new
               y == x
    <3>1. n \in Tables /\ EachOnce(n) /\ y \in Pages /\ y \notin PagesOf(n)
      BY <2>2, <2>4
    <3>2. t = IF n.dir = 0 THEN [n EXCEPT !.dir = y] ELSE [n EXCEPT !.ktabs = Append(@, y)]
      OBVIOUS
    <3> HIDE DEF n, y, t
    <3>3. CASE n.dir = 0
      <4>1. t = [n EXCEPT !.dir = y]
        BY <3>2, <3>3
      <4>2. t \in Tables /\ EachOnce(t) /\ PagesOf(t) = PagesOf(n) \cup {y} /\ t.pte = n.pte
        BY <3>1, <3>3, <4>1, PutDir
      <4> QED BY <4>2 DEF n, y
    <3>4. CASE n.dir # 0
      <4>1. t = [n EXCEPT !.ktabs = Append(@, y)]
        BY <3>2, <3>4
      <4>2. t \in Tables /\ EachOnce(t) /\ PagesOf(t) = PagesOf(n) \cup {y} /\ t.pte = n.pte
        BY <3>1, <4>1, PutKtab
      <4> QED BY <4>2 DEF n, y
    <3> QED BY <3>3, <3>4
  <2>6. c \in {"mem", "kvm"}
    BY <2>1
  <2> HIDE DEF t, c, x
  <2>7. /\ j.new = t /\ j.pc = c /\ j.op = old.op /\ j.i = old.i /\ j.to = old.to /\ j.mem = old.mem
        /\ j.child = old.child /\ j \in Jobs
    <3>1. c \in Pcs /\ old \in Jobs /\ t \in Tables
      BY <2>2, <2>5, <2>6 DEF Pcs
    <3> HIDE DEF old
    <3>2. j \in Jobs
      BY <3>1, JobWith
    <3>3. /\ j.new = t /\ j.pc = c /\ j.op = old.op /\ j.i = old.i /\ j.to = old.to /\ j.mem = old.mem
          /\ j.child = old.child
      BY <3>1 DEF Jobs
    <3> QED BY <3>2, <3>3
  <2> HIDE DEF j
  <2>8. /\ old.mem = 0 /\ old.op # "none" /\ old.op # "grow" /\ old.i = 0 /\ a.state = "runnable"
        /\ EmptyFrom(old.new, old.i)
    BY <2>1, <2>2 DEF Consistent, JobFits
  <2>9. jobs' \in Nat /\ as[p].state # "embryo"
    BY <2>1, <2>8 DEF MemInv, MemShape
  <2> HIDE DEF a, old
  <2>10. Consistent(a, j)
    <3>1. SlotFits(a, j)
      BY <2>2, <2>7, <2>8 DEF Consistent, SlotFits
    <3>2. EmptyFrom(t, j.i)
      BY <2>5, <2>7, <2>8 DEF EmptyFrom
    <3>3. JobFits(a, j)
      BY <2>2, <2>6, <2>7, <2>8, <3>2 DEF JobFits
    <3>4. SizeFits(a, j)
      BY <2>2, <2>6, <2>7, <2>8 DEF Consistent, SizeFits
    <3> QED BY <3>1, <3>3, <3>4 DEF Consistent
  <2>11. Shared(Holding', freelist')
    <3>1. /\ Holding'[<<p, "pt">>] = PagesOf(a.pt) /\ Holding'[<<p, "new">>] = PagesOf(j.new)
          /\ Holding'[<<p, "mem">>] = {j.mem} \ {0}
          /\ Holding[<<p, "pt">>] = PagesOf(as[p].pt) /\ Holding[<<p, "new">>] = PagesOf(job[p].new)
          /\ Holding[<<p, "mem">>] = {job[p].mem} \ {0}
          /\ \A h \in Holders : h \notin {<<p, "pt">>, <<p, "new">>, <<p, "mem">>}
                                => Holding'[h] = Holding[h]
      BY <2>1, <2>2, <2>3, <2>7, OwnHolding DEF a
    <3>2. Taken(<<p, "new">>, x)
      BY <3>1, <2>1, <2>2, <2>5, <2>7, HolderIs DEF a, old, Taken
    <3> QED BY <3>2, TakenIs
  <2>12. EachOnce(j.new) /\ (j.op = "fork" => job[p].op = "fork" /\ j.child = job[p].child)
    BY <2>5, <2>7 DEF old
  <2> QED BY <2>1, <2>2, <2>3, <2>7, <2>9, <2>10, <2>11, <2>12, OwnStep
<1> QED BY <1>1, <1>2

\* A page of the free list goes into a table, with the page in hand.
Gained(p, h, x) ==
  /\ h \in Holders /\ h # <<p, "mem">> /\ x \in freelist /\ freelist' = freelist \ {x}
  /\ Holding'[h] = (Holding[h] \cup {x}) \cup Holding[<<p, "mem">>] /\ Holding'[<<p, "mem">>] = {}
  /\ \A g \in Holders : g \notin {h, <<p, "mem">>} => Holding'[g] = Holding[g]

LEMMA GainedIs ==
  ASSUME MemInv, NEW p \in MemProcs, NEW h, NEW x, Gained(p, h, x)
  PROVE  Shared(Holding', freelist')
<1> DEFINE f == <<p, "mem">>
           mid == [g \in Holders |-> IF g = h THEN Holding[h] \cup {x} ELSE Holding[g]]
<1>1. Shared(Holding, freelist) /\ f \in Holders
  BY MemFacts, HolderIs
<1>2. /\ h \in Holders /\ h # f /\ x \in freelist /\ freelist' = freelist \ {x}
      /\ Holding'[h] = (Holding[h] \cup {x}) \cup Holding[f] /\ Holding'[f] = {}
  BY DEF Gained
<1>3. \A g \in Holders : g # h /\ g # f => Holding'[g] = Holding[g]
  BY DEF Gained
<1>4. mid[h] = Holding[h] \cup {x} /\ \A g \in Holders : g # h => mid[g] = Holding[g]
  BY <1>2
<1> HIDE DEF mid, f
<1>5. Shared(mid, freelist \ {x})
  BY <1>1, <1>2, <1>4, TakePage
<1>6. Shared(mid, freelist')
  BY <1>2, <1>5
<1>7. Holding'[h] = mid[h] \cup mid[f] /\ \A g \in Holders : g # h /\ g # f => Holding'[g] = mid[g]
  BY <1>1, <1>2, <1>3, <1>4
<1> QED BY <1>1, <1>2, <1>6, <1>7, HandOver

\* What the call of p knows before it maps its next page.
Maps(p) ==
  /\ job[p].pc \in {"mem", "tab"} /\ job[p].i < job[p].to
  /\ job[p].op = "exec" => job[p].to < UserPages

LEMMA MapsFacts ==
  ASSUME MemInv, NEW p \in MemProcs, Maps(p)
  PROVE  /\ job[p].op \in {"fork", "exec", "grow"} /\ job[p].i \in 0 .. UserPages - 1
         /\ job[p].i + 1 \in Nat /\ job[p].i + 1 <= job[p].to /\ Table(p) \in Tables /\ EachOnce(Table(p))
         /\ EmptyFrom(Table(p), job[p].i) /\ as[p].state = "runnable" /\ as[p].kstack # 0
<1> DEFINE a == as[p]
           j == job[p]
<1>1. /\ j \in Jobs /\ a.pt \in Tables /\ j.new \in Tables /\ EachOnce(a.pt) /\ EachOnce(j.new)
      /\ Consistent(a, j) /\ a.sz \in 0 .. UserPages /\ j.i \in Nat /\ j.to \in Nat /\ UserPages \in Nat \ {0}
  BY MemFacts
<1>2. j.op \in {"fork", "exec", "grow"}
  BY <1>1 DEF Maps, Consistent, JobFits, Jobs
<1>3. a.state = "runnable" /\ a.kstack # 0
  BY <1>2, InCall
<1>4. EmptyFrom(Table(p), j.i) /\ Table(p) \in Tables /\ EachOnce(Table(p))
  BY <1>1 DEF Consistent, SlotFits, JobFits, Table
<1>5. j.i < j.to /\ j.to <= UserPages
  <2>1. \A s \in 0 .. UserPages : s <= UserPages
    BY <1>1
  <2>2. j.to = a.sz \/ j.to < UserPages
    BY <1>1, <1>2 DEF Consistent, SizeFits, Maps
  <2>3. CASE j.to = a.sz
    BY <1>1, <2>1, <2>3 DEF Maps
  <2>4. CASE j.to < UserPages
    <3>1. \A n \in Nat : n < UserPages => n <= UserPages
      BY <1>1
    <3> QED BY <3>1, <1>1, <2>4 DEF Maps
  <2> QED BY <2>2, <2>3, <2>4
<1>6. j.i \in 0 .. UserPages - 1 /\ j.i + 1 \in Nat /\ j.i + 1 <= j.to
  <2>1. \A i \in Nat, to \in Nat : i < to /\ to <= UserPages
                                   => i \in 0 .. UserPages - 1 /\ i + 1 \in Nat /\ i + 1 <= to
    BY <1>1
  <2> HIDE DEF j
  <2> QED BY <2>1, <1>1, <1>5
<1> QED BY <1>2, <1>3, <1>4, <1>6

\* The page is mapped in the table of the process: sbrk().
LEMMA MappedGrow ==
  ASSUME MemInv, NEW p \in MemProcs, Maps(p), job[p].op = "grow", NEW t \in Tables, EachOnce(t), Mapped(p, t),
         EmptyFrom(t, job[p].i + 1), jobs' = jobs, NEW x \in freelist, freelist' = freelist \ {x},
         PagesOf(t) = (PagesOf(Table(p)) \cup {x}) \cup ({job[p].mem} \ {0})
  PROVE  MemInv'
<1> DEFINE old == job[p]
           n == old.i + 1
           a == [as[p] EXCEPT !.pt = t]
           j == [old EXCEPT !.pc = "mem", !.i = n, !.mem = 0]
<1>1. /\ old \in Jobs /\ old.i \in Nat /\ as[p] \in Spaces /\ EachOnce(old.new) /\ Consistent(as[p], old)
      /\ Table(p) = as[p].pt
  BY MemFacts DEF Table
<1>2. /\ n \in Nat /\ n <= old.to /\ as[p].state = "runnable" /\ as[p].kstack # 0
  BY MapsFacts
<1>3. as' = [as EXCEPT ![p] = a] /\ job' = [job EXCEPT ![p] = j]
  BY <1>1 DEF Mapped, SetJob, Spaces, Jobs
<1>4. a \in Spaces /\ a.pt = t /\ a.sz = as[p].sz /\ a.state = as[p].state /\ a.kstack = as[p].kstack
  BY <1>1, SpaceWith DEF Spaces
<1>5. /\ old.new = NoTable /\ as[p].sz < old.to /\ old.to < UserPages /\ old.i \in as[p].sz .. old.to
  BY <1>1 DEF Consistent, SizeFits, Maps
<1>6. n \in as[p].sz .. old.to
  <2>1. as[p].sz \in Nat
    <3>1. \A s \in 0 .. UserPages : s \in Nat
      OBVIOUS
    <3> QED BY <3>1, MemFacts
  <2>2. old.to \in Nat
    BY <1>1 DEF Jobs
  <2>3. \A i \in Nat, z \in Nat, to \in Nat : i \in z .. to /\ i + 1 <= to => i + 1 \in z .. to
    OBVIOUS
  <2> HIDE DEF old
  <2> QED BY <2>1, <2>2, <2>3, <1>1, <1>2, <1>5
<1> HIDE DEF n
<1>7. j \in Jobs
  BY <1>1, <1>2, JobWith DEF Pcs
<1>8. j.new = old.new /\ j.pc = "mem" /\ j.op = "grow" /\ j.i = n /\ j.to = old.to /\ j.mem = 0
  BY <1>1 DEF Jobs
<1> HIDE DEF a, j, old
<1>9. Consistent(a, j)
  <2>1. EmptyFrom(t, n)
    BY DEF n, old
  <2>2. SlotFits(a, j)
    BY <2>1, <1>2, <1>4, <1>8 DEF SlotFits
  <2>3. JobFits(a, j)
    BY <1>2, <1>4, <1>8 DEF JobFits
  <2>4. SizeFits(a, j)
    BY <1>4, <1>5, <1>6, <1>8 DEF SizeFits
  <2> QED BY <2>2, <2>3, <2>4 DEF Consistent
<1>10. Shared(Holding', freelist')
  <2>1. /\ Holding'[<<p, "pt">>] = PagesOf(a.pt) /\ Holding'[<<p, "new">>] = PagesOf(j.new)
        /\ Holding'[<<p, "mem">>] = {j.mem} \ {0}
        /\ Holding[<<p, "pt">>] = PagesOf(as[p].pt) /\ Holding[<<p, "new">>] = PagesOf(job[p].new)
        /\ Holding[<<p, "mem">>] = {job[p].mem} \ {0}
        /\ \A h \in Holders : h \notin {<<p, "pt">>, <<p, "new">>, <<p, "mem">>}
                              => Holding'[h] = Holding[h]
    BY <1>3, <1>4, <1>7, OwnHolding
  <2>2. Gained(p, <<p, "pt">>, x)
    BY <2>1, <1>1, <1>4, <1>8, HolderIs DEF Gained, old
  <2> QED BY <2>2, GainedIs
<1>11. jobs' \in Nat /\ as[p].state # "embryo" /\ EachOnce(a.pt) /\ EachOnce(j.new) /\ j.op # "fork"
  BY <1>1, <1>2, <1>4, <1>8 DEF MemInv, MemShape
<1> QED BY <1>3, <1>4, <1>7, <1>9, <1>10, <1>11, OwnStep

\* The page is mapped in the table that the call builds: fork() and exec().
LEMMA MappedNew ==
  ASSUME MemInv, NEW p \in MemProcs, Maps(p), job[p].op # "grow", NEW t \in Tables, EachOnce(t), Mapped(p, t),
         EmptyFrom(t, job[p].i + 1), jobs' = jobs, NEW x \in freelist, freelist' = freelist \ {x},
         PagesOf(t) = (PagesOf(Table(p)) \cup {x}) \cup ({job[p].mem} \ {0})
  PROVE  MemInv'
<1> DEFINE old == job[p]
           n == old.i + 1
           a == as[p]
           j == [old EXCEPT !.new = t, !.pc = "mem", !.i = n, !.mem = 0]
<1>1. /\ old \in Jobs /\ old.i \in Nat /\ a \in Spaces /\ EachOnce(a.pt) /\ Consistent(a, old)
      /\ Table(p) = old.new
  BY MemFacts DEF Table
<1>2. /\ n \in Nat /\ n <= old.to /\ a.state = "runnable" /\ a.kstack # 0
      /\ old.op \in {"fork", "exec", "grow"}
  BY MapsFacts
<1>3. as' = [as EXCEPT ![p] = a] /\ job' = [job EXCEPT ![p] = j]
  BY <1>1, SameFunctions DEF Mapped, SetJob, Jobs
<1> HIDE DEF n
<1>4. j \in Jobs
  BY <1>1, <1>2, JobWith DEF Pcs
<1>5. /\ j.new = t /\ j.pc = "mem" /\ j.op = old.op /\ j.i = n /\ j.to = old.to /\ j.mem = 0
      /\ j.child = old.child
  BY <1>1 DEF Jobs
<1>6. (old.op = "exec" => old.to < UserPages) /\ old.op # "grow"
  BY DEF Maps
<1> HIDE DEF a, j, old
<1>7. Consistent(a, j)
  <2>1. EmptyFrom(t, n)
    BY DEF n, old
  <2>2. SlotFits(a, j)
    BY <1>1, <1>2, <1>5, <1>6 DEF Consistent, SlotFits
  <2>3. JobFits(a, j)
    BY <2>1, <1>2, <1>5, <1>6 DEF JobFits
  <2>4. SizeFits(a, j)
    BY <1>1, <1>2, <1>5, <1>6 DEF Consistent, SizeFits
  <2> QED BY <2>2, <2>3, <2>4 DEF Consistent
<1>8. Shared(Holding', freelist')
  <2>1. /\ Holding'[<<p, "pt">>] = PagesOf(a.pt) /\ Holding'[<<p, "new">>] = PagesOf(j.new)
        /\ Holding'[<<p, "mem">>] = {j.mem} \ {0}
        /\ Holding[<<p, "pt">>] = PagesOf(as[p].pt) /\ Holding[<<p, "new">>] = PagesOf(job[p].new)
        /\ Holding[<<p, "mem">>] = {job[p].mem} \ {0}
        /\ \A h \in Holders : h \notin {<<p, "pt">>, <<p, "new">>, <<p, "mem">>}
                              => Holding'[h] = Holding[h]
    BY <1>1, <1>3, <1>4, OwnHolding DEF a
  <2>2. Gained(p, <<p, "new">>, x)
    BY <2>1, <1>1, <1>5, HolderIs DEF Gained, old, a
  <2> QED BY <2>2, GainedIs
<1>9. jobs' \in Nat /\ as[p].state # "embryo" /\ EachOnce(j.new)
      /\ (j.op = "fork" => job[p].op = "fork" /\ j.child = job[p].child)
  BY <1>2, <1>5 DEF MemInv, MemShape, a, old
<1> QED BY <1>1, <1>3, <1>4, <1>7, <1>8, <1>9, OwnStep


LEMMA UserPageInv ==
  ASSUME MemInv, NEW p \in MemProcs, user_page(p)
  PROVE  MemInv'
<1> DEFINE old == job[p]
           x == kalloc
           i == old.i
           u == Table(p)
<1>1. CASE freelist = {} \/ (old.op = "exec" /\ old.to >= UserPages)
  BY <1>1, FailInv DEF user_page
<1>2. CASE ~(freelist = {} \/ (old.op = "exec" /\ old.to >= UserPages))
  <2>1. /\ old.pc = "mem" /\ i < old.to /\ freelist' = freelist \ {x} /\ jobs' = jobs
        /\ IF HasTable(u, i) THEN Mapped(p, [u EXCEPT !.pte[i] = x])
           ELSE SetJob(p, [old EXCEPT !.pc = "tab", !.mem = x]) /\ UNCHANGED as
    BY <1>2 DEF user_page
  <2>2. /\ old \in Jobs /\ Consistent(as[p], old) /\ x \in freelist /\ x \in Pages /\ x # 0
        /\ as[p] \in Spaces /\ EachOnce(as[p].pt) /\ EachOnce(old.new) /\ old.to \in Nat
    BY <1>2, MemFacts, KallocIs
  <2>3. old.mem = 0 /\ old.op # "none"
    BY <2>1, <2>2 DEF Consistent, JobFits
  <2>4. Maps(p)
    <3>1. \A n \in Nat : ~(n >= UserPages) => n < UserPages
      BY MemoryAssumption
    <3> QED BY <1>2, <2>1, <2>2, <3>1 DEF Maps
  <2>5. /\ i \in 0 .. UserPages - 1 /\ u \in Tables /\ EachOnce(u) /\ EmptyFrom(u, i)
        /\ as[p].state = "runnable" /\ as[p].kstack # 0
    BY <2>4, MapsFacts
  <2>6. x \notin PagesOf(u)
    BY <2>2, FreeIsFree DEF Table
  <2> HIDE DEF x, i, u
  <2>7. CASE HasTable(u, i)
    <3> DEFINE t == WithPte(u, i, x)
    <3>1. u.pte[i] = 0
      <4>1. i >= i
        BY <2>5
      <4> QED BY <2>5, <4>1, EmptyAt
    <3>2. t \in Tables /\ EachOnce(t) /\ PagesOf(t) = PagesOf(u) \cup {x} /\ t.pte = [u.pte EXCEPT ![i] = x]
      BY <2>2, <2>5, <2>6, <3>1, PutPte
    <3>3. Mapped(p, t)
      BY <2>1, <2>7 DEF WithPte
    <3> HIDE DEF t
    <3>4. EmptyFrom(t, i + 1)
      BY <2>5, <3>2 DEF EmptyFrom, Tables
    <3>5. PagesOf(t) = (PagesOf(u) \cup {x}) \cup ({old.mem} \ {0})
      BY <2>3, <3>2
    <3>6. CASE old.op = "grow"
      BY <2>1, <2>2, <2>4, <3>2, <3>3, <3>4, <3>5, <3>6, MappedGrow DEF i, u
    <3>7. CASE old.op # "grow"
      BY <2>1, <2>2, <2>4, <3>2, <3>3, <3>4, <3>5, <3>7, MappedNew DEF i, u
    <3> QED BY <3>6, <3>7
  <2>8. CASE ~HasTable(u, i)
    <3> DEFINE j == [old EXCEPT !.pc = "tab", !.mem = x]
               a == as[p]
    <3>1. job' = [job EXCEPT ![p] = j] /\ as' = [as EXCEPT ![p] = a]
      BY <2>1, <2>8, SameFunctions DEF SetJob
    <3>2. j \in Jobs
      BY <2>2, JobWith DEF Pcs
    <3>3. /\ j.new = old.new /\ j.pc = "tab" /\ j.op = old.op /\ j.i = i /\ j.to = old.to /\ j.mem = x
          /\ j.child = old.child
      BY <2>2 DEF Jobs, i
    <3>4. ~HasTable(IF j.op = "grow" THEN a.pt ELSE j.new, j.i)
      BY <2>8, <3>3 DEF u, Table
    <3>5. i < UserPages
      <4>1. UserPages \in Nat
        BY MemoryAssumption
      <4> QED BY <2>5, <4>1
    <3>6. (old.op = "exec" => old.to < UserPages) /\ i = old.i
      BY <2>4 DEF Maps, i
    <3> HIDE DEF j, a, old
    <3>7. Consistent(a, j)
      <4>1. SlotFits(a, j)
        BY <2>2, <3>3, <3>6 DEF Consistent, SlotFits, a
      <4>2. JobFits(a, j)
        BY <2>1, <2>2, <2>3, <2>5, <3>3, <3>4, <3>5, <3>6 DEF Consistent, JobFits, a
      <4>3. SizeFits(a, j)
        BY <2>2, <3>3, <3>6 DEF Consistent, SizeFits, a
      <4> QED BY <4>1, <4>2, <4>3 DEF Consistent
    <3>8. Shared(Holding', freelist')
      <4>1. /\ Holding'[<<p, "pt">>] = PagesOf(a.pt) /\ Holding'[<<p, "new">>] = PagesOf(j.new)
            /\ Holding'[<<p, "mem">>] = {j.mem} \ {0}
            /\ Holding[<<p, "pt">>] = PagesOf(as[p].pt) /\ Holding[<<p, "new">>] = PagesOf(job[p].new)
            /\ Holding[<<p, "mem">>] = {job[p].mem} \ {0}
            /\ \A h \in Holders : h \notin {<<p, "pt">>, <<p, "new">>, <<p, "mem">>}
                                  => Holding'[h] = Holding[h]
        BY <2>2, <3>1, <3>2, OwnHolding DEF a
      <4>2. Taken(<<p, "mem">>, x)
        BY <4>1, <2>1, <2>2, <2>3, <3>3, HolderIs DEF Taken, a, old
      <4> QED BY <4>2, TakenIs
    <3>9. jobs' \in Nat /\ as[p].state # "embryo" /\ EachOnce(a.pt) /\ EachOnce(j.new)
          /\ (j.op = "fork" => job[p].op = "fork" /\ j.child = job[p].child) /\ a \in Spaces
      BY <2>1, <2>2, <2>5, <3>3 DEF MemInv, MemShape, a, old
    <3> QED BY <3>1, <3>2, <3>7, <3>8, <3>9, OwnStep
  <2> QED BY <2>7, <2>8
<1> QED BY <1>1, <1>2

LEMMA MappagesInv ==
  ASSUME MemInv, NEW p \in MemProcs, mappages(p)
  PROVE  MemInv'
<1> DEFINE old == job[p]
           x == kalloc
           i == old.i
           k == i \div PerTab
           u == Table(p)
           m == old.mem
           w == [u EXCEPT !.tabs[k] = x]
           t == WithPte(w, i, m)
<1>1. CASE freelist = {}
  BY <1>1, FailInv DEF mappages
<1>2. CASE freelist # {}
  <2>1. /\ old.pc = "tab" /\ freelist' = freelist \ {x} /\ jobs' = jobs
        /\ Mapped(p, [u EXCEPT !.tabs[k] = x, !.pte[i] = m])
    BY <1>2 DEF mappages
  <2>2. /\ old \in Jobs /\ Consistent(as[p], old) /\ x \in freelist /\ x \in Pages /\ x # 0 /\ m \in {0} \cup Pages
    BY <1>2, MemFacts, KallocIs
  <2>3. m # 0 /\ old.op # "none" /\ old.i < old.to /\ u.tabs[k] = 0
    BY <2>1, <2>2 DEF Consistent, JobFits, HasTable, Table
  <2>4. Maps(p)
    BY <2>1, <2>2, <2>3 DEF Maps, Consistent, SizeFits
  <2>5. /\ i \in 0 .. UserPages - 1 /\ u \in Tables /\ EachOnce(u) /\ EmptyFrom(u, i)
    BY <2>4, MapsFacts
  <2>6. x \notin PagesOf(u) /\ x # m /\ m \notin PagesOf(u)
    BY <2>2, <2>3, FreeIsFree, InHand DEF Table
  <2>7. k \in 0 .. NTabs - 1
    <3>1. UserPages \in Nat /\ PerTab \in Nat \ {0} /\ i \in Nat /\ i < UserPages
      BY <2>5, MemoryAssumption
    <3> HIDE DEF i
    <3> QED BY <3>1, TableIndex DEF NTabs
  <2>8. u.pte[i] = 0
    <3>1. i >= i
      BY <2>5
    <3> QED BY <2>5, <3>1, EmptyAt
  <2> HIDE DEF x, i, u, k, m
  <2>9. w \in Tables /\ EachOnce(w) /\ PagesOf(w) = PagesOf(u) \cup {x} /\ w.pte = u.pte
    BY <2>2, <2>3, <2>5, <2>6, <2>7, PutTab
  <2>10. [u EXCEPT !.tabs[k] = x, !.pte[i] = m] = t
    BY <2>5 DEF Tables, WithPte
  <2> HIDE DEF w
  <2>11. t \in Tables /\ EachOnce(t) /\ PagesOf(t) = PagesOf(w) \cup {m} /\ t.pte = [w.pte EXCEPT ![i] = m]
    <3>1. m \in Pages /\ m \notin PagesOf(w) /\ w.pte[i] = 0
      BY <2>2, <2>3, <2>6, <2>8, <2>9
    <3> QED BY <2>5, <2>9, <3>1, PutPte
  <2>12. Mapped(p, t)
    BY <2>1, <2>10
  <2> HIDE DEF t
  <2>13. EmptyFrom(t, i + 1)
    BY <2>5, <2>9, <2>11 DEF EmptyFrom, Tables
  <2>14. PagesOf(t) = (PagesOf(u) \cup {x}) \cup ({m} \ {0})
    BY <2>3, <2>9, <2>11
  <2>15. CASE old.op = "grow"
    BY <2>1, <2>2, <2>4, <2>11, <2>12, <2>13, <2>14, <2>15, MappedGrow DEF i, u, m
  <2>16. CASE old.op # "grow"
    BY <2>1, <2>2, <2>4, <2>11, <2>12, <2>13, <2>14, <2>16, MappedNew DEF i, u, m
  <2> QED BY <2>15, <2>16
<1> QED BY <1>1, <1>2

-----------------------------------------------------------------------------
(* Memory: the calls that succeed *)

\* What a call that has mapped all its pages knows.
LEMMA AllMapped ==
  ASSUME MemInv, NEW p \in MemProcs, job[p].pc = "mem", job[p].i = job[p].to
  PROVE  /\ job[p].mem = 0 /\ job[p].op \in {"fork", "exec", "grow"} /\ job[p].to \in 0 .. UserPages
         /\ as[p].state = "runnable" /\ as[p].kstack # 0
         /\ job[p].op # "grow" => EmptyFrom(job[p].new, job[p].to)
         /\ job[p].op = "fork" => job[p].to = as[p].sz
         /\ job[p].op = "grow" => job[p].new = NoTable /\ EmptyFrom(as[p].pt, job[p].to)
<1> DEFINE j == job[p]
           a == as[p]
<1>1. j \in Jobs /\ Consistent(a, j) /\ j.i \in Nat /\ j.to \in Nat /\ a.sz \in 0 .. UserPages
  BY MemFacts
<1>2. j.mem = 0 /\ j.op \in {"fork", "exec", "grow"} /\ (j.op # "grow" => EmptyFrom(j.new, j.to))
  BY <1>1 DEF Consistent, JobFits, Jobs
<1>3. a.state = "runnable" /\ a.kstack # 0
  BY <1>2, InCall
<1>4. /\ j.op = "fork" => j.to = a.sz
      /\ j.op = "grow" => j.new = NoTable /\ EmptyFrom(a.pt, j.to) /\ j.to < UserPages
      /\ j.op = "exec" => j.to >= 2 /\ (j.to < UserPages \/ j.to = 0)
  BY <1>1 DEF Consistent, SizeFits, SlotFits
<1>5. \A n \in Nat : n < UserPages => n \in 0 .. UserPages
  BY MemoryAssumption
<1>6. ~(j.to >= 2 /\ j.to = 0)
  <2> HIDE DEF j
  <2> QED OBVIOUS
<1>7. j.to \in 0 .. UserPages
  BY <1>1, <1>2, <1>4, <1>5, <1>6
<1> QED BY <1>2, <1>3, <1>4, <1>7

\* The three ways to succeed.
ExecCommits(p) ==
  /\ job[p].op = "exec" /\ job' = [job EXCEPT ![p] = NoJob] /\ jobs' = jobs
  /\ as' = [as EXCEPT ![p].pt = job[p].new, ![p].sz = job[p].to]
  /\ freelist' = freelist \cup PagesOf(as[p].pt)

GrowCommits(p) ==
  /\ job[p].op = "grow" /\ job' = [job EXCEPT ![p] = NoJob] /\ jobs' = jobs
  /\ as' = [as EXCEPT ![p].sz = job[p].to] /\ freelist' = freelist

ForkCommits(p, c) ==
  /\ job[p].op = "fork" /\ job' = [job EXCEPT ![p] = NoJob] /\ jobs' = jobs /\ c = job[p].child
  /\ as' = [as EXCEPT ![c] = [@ EXCEPT !.state = "runnable", !.pt = job[p].new, !.sz = as[p].sz]]
  /\ freelist' = freelist

LEMMA CommitGrow ==
  ASSUME MemInv, NEW p \in MemProcs, job[p].pc = "mem", job[p].i = job[p].to, GrowCommits(p)
  PROVE  MemInv'
<1> DEFINE n == job[p].to
           a == [as[p] EXCEPT !.sz = n]
           j == NoJob
<1>1. /\ job[p].mem = 0 /\ n \in 0 .. UserPages /\ as[p].state = "runnable" /\ as[p].kstack # 0
      /\ job[p].new = NoTable /\ EmptyFrom(as[p].pt, n)
  BY AllMapped DEF GrowCommits
<1>2. as[p] \in Spaces /\ EachOnce(as[p].pt)
  BY MemFacts
<1>3. /\ as' = [as EXCEPT ![p] = a] /\ job' = [job EXCEPT ![p] = j] /\ freelist' = freelist /\ jobs' \in Nat
  BY <1>2 DEF GrowCommits, Spaces, MemInv, MemShape
<1> HIDE DEF n
<1>4. a \in Spaces /\ a.pt = as[p].pt /\ a.sz = n /\ a.kstack = as[p].kstack /\ a.state = as[p].state
  <2>1. n \in 0 .. UserPages /\ as[p] \in Spaces
    BY <1>1, <1>2
  <2>2. a \in Spaces
    BY <2>1, SpaceWith
  <2>3. a.pt = as[p].pt /\ a.sz = n /\ a.kstack = as[p].kstack /\ a.state = as[p].state
    BY <2>1 DEF Spaces
  <2> QED BY <2>2, <2>3
<1>5. j \in Jobs /\ j.new = NoTable /\ j.mem = 0 /\ j.op # "fork" /\ EachOnce(j.new)
  BY NoneIs, NoTablePages
<1> HIDE DEF a
<1>6. Consistent(a, j)
  BY <1>1, <1>4, AtRest
<1> HIDE DEF j
<1>7. Shared(Holding', freelist')
  BY <1>1, <1>3, <1>4, <1>5, QuietStep
<1>8. EachOnce(a.pt) /\ as[p].state # "embryo"
  BY <1>1, <1>2, <1>4
<1> QED BY <1>3, <1>4, <1>5, <1>6, <1>7, <1>8, OwnStep

LEMMA CommitExec ==
  ASSUME MemInv, NEW p \in MemProcs, job[p].pc = "mem", job[p].i = job[p].to, ExecCommits(p)
  PROVE  MemInv'
<1> DEFINE n == job[p].to
           t == job[p].new
           a == [as[p] EXCEPT !.pt = t, !.sz = n]
           j == NoJob
           C == PagesOf(as[p].pt)
<1>1. /\ job[p].mem = 0 /\ n \in 0 .. UserPages /\ as[p].state = "runnable" /\ as[p].kstack # 0
      /\ EmptyFrom(t, n)
  BY AllMapped DEF ExecCommits
<1>2. as[p] \in Spaces /\ t \in Tables /\ EachOnce(t) /\ Shared(Holding, freelist)
  BY MemFacts
<1>3. /\ as' = [as EXCEPT ![p] = a] /\ job' = [job EXCEPT ![p] = j] /\ freelist' = freelist \cup C
      /\ jobs' \in Nat
  BY <1>2 DEF ExecCommits, Spaces, MemInv, MemShape
<1> HIDE DEF n, t
<1>4. a \in Spaces /\ a.pt = t /\ a.sz = n /\ a.kstack = as[p].kstack /\ a.state = as[p].state
  <2>1. n \in 0 .. UserPages /\ t \in Tables /\ as[p] \in Spaces
    BY <1>1, <1>2
  <2>2. a \in Spaces
    BY <2>1, SpaceWith
  <2>3. a.pt = t /\ a.sz = n /\ a.kstack = as[p].kstack /\ a.state = as[p].state
    BY <2>1 DEF Spaces
  <2> QED BY <2>2, <2>3
<1>5. /\ j \in Jobs /\ PagesOf(j.new) = {} /\ {j.mem} \ {0} = {} /\ j.op # "fork" /\ EachOnce(j.new)
  BY NoneIs, NoTablePages
<1> HIDE DEF a
<1>6. Consistent(a, j)
  BY <1>1, <1>4, AtRest
<1> HIDE DEF j
<1>7. /\ Holding'[<<p, "pt">>] = PagesOf(a.pt) /\ Holding'[<<p, "new">>] = PagesOf(j.new)
      /\ Holding'[<<p, "mem">>] = {j.mem} \ {0}
      /\ Holding[<<p, "pt">>] = PagesOf(as[p].pt) /\ Holding[<<p, "new">>] = PagesOf(job[p].new)
      /\ Holding[<<p, "mem">>] = {job[p].mem} \ {0}
      /\ \A h \in Holders : h \notin {<<p, "pt">>, <<p, "new">>, <<p, "mem">>}
                            => Holding'[h] = Holding[h]
  BY <1>3, <1>4, <1>5, OwnHolding
<1> DEFINE h == <<p, "pt">>
           f == <<p, "new">>
           mid == [g \in Holders |-> IF g = h THEN {} ELSE Holding[g]]
<1>8. h \in Holders /\ f \in Holders /\ h # f
  BY HolderIs
<1>9. /\ Holding[h] = C /\ Holding'[h] = Holding[f] /\ Holding'[f] = {}
      /\ \A g \in Holders : g # h /\ g # f => Holding'[g] = Holding[g]
  BY <1>1, <1>4, <1>5, <1>7 DEF t
<1>10. mid[h] = Holding[h] \ C /\ C \subseteq Holding[h] /\ \A g \in Holders : g # h => mid[g] = Holding[g]
  BY <1>8, <1>9
<1>11. mid[h] = {}
  BY <1>8
<1> HIDE DEF mid, h, f, C
<1>12. Shared(mid, freelist \cup C)
  BY <1>2, <1>8, <1>10, GiveBack
<1>13. Shared(mid, freelist')
  BY <1>3, <1>12
<1>14. /\ Holding'[h] = mid[h] \cup mid[f] /\ Holding'[f] = {}
       /\ \A g \in Holders : g # h /\ g # f => Holding'[g] = mid[g]
  BY <1>8, <1>9, <1>10, <1>11
<1>15. Shared(Holding', freelist')
  BY <1>8, <1>13, <1>14, HandOver
<1>16. EachOnce(a.pt) /\ as[p].state # "embryo"
  BY <1>1, <1>2, <1>4
<1> QED BY <1>3, <1>4, <1>5, <1>6, <1>15, <1>16, OwnStep

LEMMA CommitFork ==
  ASSUME MemInv, NEW p \in MemProcs, job[p].pc = "mem", job[p].i = job[p].to, NEW c, ForkCommits(p, c)
  PROVE  MemInv'
<1> DEFINE n == as[p].sz
           t == job[p].new
           a == [as[c] EXCEPT !.state = "runnable", !.pt = t, !.sz = n]
           j == NoJob
<1>1. /\ c \in MemProcs /\ c # p /\ job[c] = NoJob /\ as[c] \in Spaces /\ as[c].state = "embryo"
      /\ as[c].pt = NoTable /\ as[c].kstack # 0
      /\ \A r \in MemProcs \ {p} : job[r].op = "fork" => job[r].child # c
  BY ForkChild DEF ForkCommits
<1>2. /\ job[p].mem = 0 /\ as[p].state = "runnable" /\ as[p].kstack # 0 /\ EmptyFrom(t, n)
  BY AllMapped DEF ForkCommits
<1>3. /\ as[p] \in Spaces /\ t \in Tables /\ EachOnce(t) /\ Shared(Holding, freelist) /\ n \in 0 .. UserPages
  BY MemFacts
<1>4. /\ as' = [as EXCEPT ![c] = a] /\ job' = [job EXCEPT ![p] = j] /\ freelist' = freelist /\ jobs' \in Nat
  BY <1>1 DEF ForkCommits, Spaces, MemInv, MemShape
<1>5. EmptyFrom(as[p].pt, as[p].sz)
  BY InCall DEF ForkCommits
<1>6. Consistent(as[p], j)
  BY <1>2, <1>3, <1>5, AtRest
<1> HIDE DEF n, t
<1>7. a \in Spaces /\ a.pt = t /\ a.sz = n /\ a.kstack = as[c].kstack /\ a.state = "runnable"
  <2>1. n \in 0 .. UserPages /\ t \in Tables /\ as[c] \in Spaces /\ "runnable" \in States
    BY <1>1, <1>3 DEF States
  <2>2. a \in Spaces
    BY <2>1, SpaceWith
  <2>3. a.pt = t /\ a.sz = n /\ a.kstack = as[c].kstack /\ a.state = "runnable"
    BY <2>1 DEF Spaces
  <2> QED BY <2>2, <2>3
<1>8. /\ j \in Jobs /\ PagesOf(j.new) = {} /\ {j.mem} \ {0} = {} /\ j.op # "fork" /\ EachOnce(j.new)
  BY NoneIs, NoTablePages
<1> HIDE DEF a
<1>9. Consistent(a, job[c])
  BY <1>1, <1>2, <1>7, AtRest
<1> HIDE DEF j
<1>10. /\ Holding'[<<c, "pt">>] = PagesOf(a.pt) /\ Holding'[<<c, "kstack">>] = {a.kstack} \ {0}
       /\ Holding'[<<p, "new">>] = PagesOf(j.new) /\ Holding'[<<p, "mem">>] = {j.mem} \ {0}
       /\ \A h \in Holders : h \notin {<<c, "pt">>, <<c, "kstack">>, <<p, "new">>, <<p, "mem">>}
                             => Holding'[h] = Holding[h]
  BY <1>1, <1>4, <1>7, <1>8, HoldingStep
<1>11. /\ Holding[<<c, "pt">>] = PagesOf(as[c].pt) /\ Holding[<<c, "kstack">>] = {as[c].kstack} \ {0}
       /\ Holding[<<p, "new">>] = PagesOf(job[p].new) /\ Holding[<<p, "mem">>] = {job[p].mem} \ {0}
  BY <1>1, HoldingIs
<1> DEFINE h == <<c, "pt">>
           f == <<p, "new">>
<1>12. h \in Holders /\ f \in Holders /\ h # f
  BY <1>1, HolderIs
<1>13. /\ Holding'[h] = Holding[h] \cup Holding[f] /\ Holding'[f] = {}
       /\ \A g \in Holders : g # h /\ g # f => Holding'[g] = Holding[g]
  <2>1. Holding[h] = {} /\ Holding[f] = PagesOf(t) /\ Holding[<<c, "kstack">>] = {as[c].kstack} \ {0}
        /\ Holding[<<p, "mem">>] = {}
    BY <1>1, <1>2, <1>11, NoTablePages DEF t
  <2>2. /\ Holding'[h] = PagesOf(t) /\ Holding'[f] = {} /\ Holding'[<<c, "kstack">>] = {as[c].kstack} \ {0}
        /\ Holding'[<<p, "mem">>] = {}
    BY <1>7, <1>8, <1>10
  <2> QED BY <2>1, <2>2, <1>10
<1> HIDE DEF h, f
<1>14. Shared(Holding', freelist)
  BY <1>3, <1>12, <1>13, HandOver
<1>15. Shared(Holding', freelist') /\ EachOnce(a.pt)
  BY <1>3, <1>4, <1>7, <1>14
<1>16. Consistent(a, IF c = p THEN j ELSE job[c]) /\ Consistent(IF c = p THEN a ELSE as[p], j)
  BY <1>1, <1>6, <1>9
<1>17. \A r \in MemProcs \ {p} : job[r].op = "fork" /\ job[r].child = c => a.state = "embryo"
  BY <1>1
<1> QED BY <1>1, <1>4, <1>7, <1>8, <1>15, <1>16, <1>17, MemStep

LEMMA CommitInv ==
  ASSUME MemInv, NEW p \in MemProcs, commit(p)
  PROVE  MemInv'
  BY CommitExec, CommitGrow, CommitFork DEF commit, SetJob, ExecCommits, GrowCommits, ForkCommits

LEMMA MemStepInv ==
  ASSUME MemInv, [MemNext]_memVars
  PROVE  MemInv'
<1>1. CASE UNCHANGED memVars
  BY <1>1, MemStutter DEF memVars, MemInv, MemShape
<1>2. ASSUME NEW p \in MemProcs, NEW q \in MemProcs, fork_begin(p, q) \/ wait_proc(p, q) PROVE MemInv'
  BY <1>2, ForkBeginInv, WaitInv
<1>3. ASSUME NEW p \in MemProcs, NEW n \in ExecSizes, exec_begin(p, n) PROVE MemInv'
  BY <1>3, ExecBeginInv
<1>4. ASSUME NEW p \in MemProcs, exec_bad(p) \/ loaduvm_fails(p) \/ copyout_fails(p) PROVE MemInv'
  BY <1>4, FailInv DEF exec_bad, loaduvm_fails, copyout_fails
<1>5. ASSUME NEW p \in MemProcs, NEW n \in GrowSizes, grow_begin(p, n) \/ shrink(p, n) PROVE MemInv'
  BY <1>5, GrowBeginInv, ShrinkInv
<1>7. ASSUME NEW p \in MemProcs, exit_proc(p) PROVE MemInv'
  BY <1>7, ExitInv
<1>6. ASSUME NEW p \in MemProcs, setupkvm(p) \/ user_page(p) \/ mappages(p) \/ commit(p) PROVE MemInv'
  BY <1>6, SetupkvmInv, UserPageInv, MappagesInv, CommitInv
<1> QED BY <1>1, <1>2, <1>3, <1>4, <1>5, <1>6, <1>7 DEF MemNext

LEMMA FirstTablePages ==
  /\ FirstTable \in Tables /\ EachOnce(FirstTable) /\ EmptyFrom(FirstTable, 1)
  /\ PagesOf(FirstTable) = 2 .. 4 + KTabs
<1> DEFINE t == FirstTable
<1>1. UserPages \in Nat \ {0} /\ KTabs \in Nat /\ NPages \in Nat /\ NPages >= 4 + KTabs /\ PerTab \in Nat \ {0}
  BY MemoryAssumption
<1>2. 0 \in 0 .. NTabs - 1 /\ 0 \in 0 .. UserPages - 1
  <2>1. 0 \div PerTab = 0
    BY <1>1
  <2>2. 0 \div PerTab \in 0 .. NTabs - 1
    <3>1. 0 \in Nat /\ 0 < UserPages /\ UserPages \in Nat
      BY <1>1
    <3> QED BY <1>1, <3>1, TableIndex DEF NTabs
  <2> QED BY <1>1, <2>1, <2>2
<1>3. /\ t.dir = 2 /\ t.ktabs = [k \in 1 .. KTabs |-> 4 + k]
      /\ t.tabs = [k \in 0 .. NTabs - 1 |-> IF k = 0 THEN 3 ELSE 0]
      /\ t.pte = [v \in 0 .. UserPages - 1 |-> IF v = 0 THEN 4 ELSE 0]
      /\ t = [dir |-> t.dir, ktabs |-> t.ktabs, tabs |-> t.tabs, pte |-> t.pte]
  <2> DEFINE e == [k \in 0 .. NTabs - 1 |-> 0]
             z == [v \in 0 .. UserPages - 1 |-> 0]
             s == [k \in 1 .. KTabs |-> 4 + k]
  <2>1. t = [dir |-> 2, ktabs |-> s, tabs |-> [e EXCEPT ![0] = 3], pte |-> [z EXCEPT ![0] = 4]]
    <3>1. NoTable = [dir |-> 0, ktabs |-> <<>>, tabs |-> e, pte |-> z]
      BY DEF NoTable
    <3>2. t = [NoTable EXCEPT !.dir = 2, !.ktabs = s, !.tabs[0] = 3, !.pte[0] = 4]
      BY DEF FirstTable
    <3> HIDE DEF e, z, s, t
    <3> QED BY <3>1, <3>2
  <2>2. [e EXCEPT ![0] = 3] = [k \in 0 .. NTabs - 1 |-> IF k = 0 THEN 3 ELSE 0]
    OBVIOUS
  <2>3. [z EXCEPT ![0] = 4] = [v \in 0 .. UserPages - 1 |-> IF v = 0 THEN 4 ELSE 0]
    OBVIOUS
  <2> HIDE DEF e, z, s, t
  <2>4. t.dir = 2 /\ t.ktabs = s /\ t.tabs = [e EXCEPT ![0] = 3] /\ t.pte = [z EXCEPT ![0] = 4]
        /\ t = [dir |-> t.dir, ktabs |-> t.ktabs, tabs |-> t.tabs, pte |-> t.pte]
    BY <2>1
  <2> QED BY <2>2, <2>3, <2>4 DEF s
<1> HIDE DEF t
<1>4. t \in Tables
  <2>1. 2 \in Pages /\ 3 \in Pages /\ 4 \in Pages /\ \A k \in 1 .. KTabs : 4 + k \in Pages
    BY <1>1 DEF Pages
  <2>2. t.ktabs \in Seq(Pages)
    <3>1. t.ktabs \in [1 .. KTabs -> Pages]
      BY <1>3, <2>1
    <3> QED BY <3>1, <1>1, SeqDef
  <2>3. t.tabs \in [0 .. NTabs - 1 -> {0} \cup Pages]
    BY <1>3, <2>1
  <2>4. t.pte \in [0 .. UserPages - 1 -> {0} \cup Pages]
    BY <1>3, <2>1
  <2> QED BY <1>3, <2>1, <2>2, <2>3, <2>4 DEF Tables
<1>5. EmptyFrom(t, 1)
  BY <1>1, <1>3 DEF EmptyFrom
<1> DEFINE Mine == {<<"dir", 0>>, <<"tabs", 0>>, <<"pte", 0>>} \cup ({"ktabs"} \X (1 .. KTabs))
<1>6. Places(t) = {<<"dir", 0>>} \cup ({"ktabs"} \X (1 .. KTabs)) \cup ({"tabs"} \X (0 .. NTabs - 1))
                  \cup ({"pte"} \X (0 .. UserPages - 1))
  BY <1>3 DEF Places
<1>7. Mine \subseteq Places(t) /\ \A l \in Places(t) : At(t, l) # 0 => l \in Mine
  BY <1>2, <1>3, <1>6 DEF At
<1>8. /\ At(t, <<"dir", 0>>) = 2 /\ At(t, <<"tabs", 0>>) = 3 /\ At(t, <<"pte", 0>>) = 4
      /\ \A k \in 1 .. KTabs : At(t, <<"ktabs", k>>) = 4 + k
  BY <1>2, <1>3 DEF At
<1>9. \A l, m \in Mine : At(t, l) = At(t, m) => l = m
  <2>1. \A l \in Mine : \/ l = <<"dir", 0>> \/ l = <<"tabs", 0>> \/ l = <<"pte", 0>>
                        \/ \E k \in 1 .. KTabs : l = <<"ktabs", k>>
    OBVIOUS
  <2> HIDE DEF Mine
  <2>2. \A k, n \in 1 .. KTabs : 4 + k = 4 + n => k = n
    BY <1>1
  <2>3. \A k \in 1 .. KTabs : 4 + k \notin {2, 3, 4}
    BY <1>1
  <2> QED BY <2>1, <2>2, <2>3, <1>8
<1>10. EachOnce(t)
  <2> HIDE DEF Mine
  <2> QED BY <1>7, <1>9 DEF EachOnce
<1>11. PagesOf(t) = 2 .. 4 + KTabs
  <2>1. PagesOf(t) = {At(t, l) : l \in Places(t)} \ {0}
    BY <1>4, TablePages
  <2>2. PagesOf(t) = {At(t, l) : l \in Mine}
    <3>1. \A l \in Mine : At(t, l) # 0
      <4>1. \A k \in 1 .. KTabs : 4 + k # 0
        BY <1>1
      <4> QED BY <1>8, <4>1
    <3> HIDE DEF Mine
    <3> QED BY <2>1, <1>7, <3>1
  <2>3. ASSUME NEW x \in 2 .. 4 + KTabs PROVE \E l \in Mine : At(t, l) = x
    <3>1. CASE x \in {2, 3, 4}
      BY <1>8, <3>1
    <3>2. CASE x \notin {2, 3, 4}
      <4>1. x - 4 \in 1 .. KTabs /\ 4 + (x - 4) = x
        BY <1>1, <3>2
      <4>2. <<"ktabs", x - 4>> \in Mine /\ At(t, <<"ktabs", x - 4>>) = 4 + (x - 4)
        BY <1>8, <4>1
      <4> QED BY <4>1, <4>2
    <3> QED BY <3>1, <3>2
  <2>4. ASSUME NEW l \in Mine PROVE At(t, l) \in 2 .. 4 + KTabs
    <3>1. \A k \in 1 .. KTabs : 4 + k \in 2 .. 4 + KTabs
      BY <1>1
    <3>2. 2 \in 2 .. 4 + KTabs /\ 3 \in 2 .. 4 + KTabs /\ 4 \in 2 .. 4 + KTabs
      BY <1>1
    <3> QED BY <1>8, <3>1, <3>2
  <2> HIDE DEF Mine
  <2> QED BY <2>2, <2>3, <2>4
<1> QED BY <1>4, <1>5, <1>10, <1>11 DEF t

LEMMA MemInitInv ==
  ASSUME MemInit
  PROVE  MemInv
<1> DEFINE a == [state |-> "runnable", kstack |-> 1, pt |-> FirstTable, sz |-> 1]
<1>1. /\ \A p \in MemProcs : as[p] = (IF p = FirstProc THEN a ELSE NoSpace) /\ job[p] = NoJob
      /\ DOMAIN as = MemProcs /\ DOMAIN job = MemProcs /\ FirstProc \in MemProcs
  BY MemoryAssumption DEF MemInit
<1>2. a \in Spaces
  <2>1. 1 \in Pages /\ 1 \in 0 .. UserPages
    BY MemoryAssumption DEF Pages
  <2> QED BY <2>1, FirstTablePages DEF Spaces
<1>3. MemShape
  <2>1. as \in [MemProcs -> Spaces] /\ job \in [MemProcs -> Jobs]
    BY <1>1, <1>2, NoneIs DEF MemInit
  <2> QED BY <2>1 DEF MemShape, MemInit
<1>4. a.state = "runnable" /\ a.kstack = 1 /\ a.pt = FirstTable /\ a.sz = 1
  OBVIOUS
<1> HIDE DEF a
<1>5. Consistent(a, NoJob)
  BY <1>2, <1>4, FirstTablePages, AtRest
<1>6. Consistent(NoSpace, NoJob)
  <2>1. EmptyFrom(NoTable, NoSpace.sz)
    BY NoTablePages DEF NoSpace
  <2>2. SlotFits(NoSpace, NoJob)
    BY <2>1, NoneIs DEF SlotFits
  <2> QED BY <2>2, NoneIs
<1>7. \A p \in MemProcs : Consistent(as[p], job[p]) /\ EachOnce(as[p].pt) /\ EachOnce(job[p].new)
  BY <1>1, <1>4, <1>5, <1>6, FirstTablePages, NoTablePages, NoneIs
<1>8. ChildrenFit
  BY <1>1, NoneIs DEF ChildrenFit
<1> DEFINE f == <<FirstProc, "pt">>
           k == <<FirstProc, "kstack">>
<1>9. Holding[f] = 2 .. 4 + KTabs /\ Holding[k] = {1}
  <2>1. Holding[f] = PagesOf(as[FirstProc].pt) /\ Holding[k] = {as[FirstProc].kstack} \ {0}
    BY <1>1, HoldingIs
  <2>2. as[FirstProc].pt = FirstTable /\ as[FirstProc].kstack = 1
    BY <1>1, <1>4
  <2>3. {1} \ {0} = {1}
    OBVIOUS
  <2> QED BY <2>1, <2>2, <2>3, FirstTablePages
<1>10. \A h \in Holders : h # f /\ h # k => Holding[h] = {}
  <2> SUFFICES ASSUME NEW h \in Holders, h # f, h # k PROVE Holding[h] = {}
    OBVIOUS
  <2>1. PICK p \in MemProcs : h \in {<<p, "pt">>, <<p, "kstack">>, <<p, "new">>, <<p, "mem">>}
    BY HolderIs
  <2>2. /\ Holding[<<p, "new">>] = PagesOf(job[p].new) /\ Holding[<<p, "mem">>] = {job[p].mem} \ {0}
        /\ Holding[<<p, "pt">>] = PagesOf(as[p].pt) /\ Holding[<<p, "kstack">>] = {as[p].kstack} \ {0}
    BY HoldingIs
  <2>3. Holding[<<p, "new">>] = {} /\ Holding[<<p, "mem">>] = {}
    BY <2>2, <1>1, NoneIs, NoTablePages
  <2>4. CASE h \in {<<p, "new">>, <<p, "mem">>}
    BY <2>3, <2>4
  <2>5. CASE h \in {<<p, "pt">>, <<p, "kstack">>}
    <3>1. p # FirstProc
      BY <2>5
    <3>2. Holding[<<p, "pt">>] = {} /\ Holding[<<p, "kstack">>] = {}
      BY <3>1, <2>2, <1>1, NoneIs, NoTablePages
    <3> QED BY <2>5, <3>2
  <2> QED BY <2>1, <2>4, <2>5
<1>11. f \in Holders /\ k \in Holders /\ f # k
  BY <1>1, HolderIs
<1>12. freelist = Pages \ (1 .. 4 + KTabs)
  BY DEF MemInit
<1>13. 2 .. 4 + KTabs \subseteq Pages /\ 1 \in Pages /\ 1 \notin 2 .. 4 + KTabs
       /\ 1 .. 4 + KTabs = {1} \cup 2 .. 4 + KTabs
  BY MemoryAssumption DEF Pages
<1> DEFINE T == 2 .. 4 + KTabs
<1> HIDE DEF f, k
<1>14. Shared(Holding, freelist)
  <2>1. /\ Holding[f] = T /\ freelist = Pages \ ({1} \cup T) /\ T \subseteq Pages /\ 1 \notin T
    BY <1>9, <1>12, <1>13
  <2> HIDE DEF T
  <2>2. \A x \in Pages : x \in freelist \/ \E h \in Holders : x \in Holding[h]
    BY <1>9, <1>11, <2>1
  <2>3. freelist \subseteq Pages /\ \A h \in Holders : Holding[h] \subseteq Pages
    BY <1>9, <1>10, <1>13, <2>1
  <2>4. \A h \in Holders, x \in Pages : ~(x \in Holding[h] /\ x \in freelist)
    BY <1>9, <1>10, <2>1
  <2>5. \A g, h \in Holders, x \in Pages : x \in Holding[g] /\ x \in Holding[h] => g = h
    BY <1>9, <1>10, <2>1
  <2> QED BY <2>2, <2>3, <2>4, <2>5, SharedIs
<1> QED BY <1>3, <1>7, <1>8, <1>14 DEF MemInv, PagesOwnedOnce

\* The invariant behind the ownership of the pages: allocproc(), copyuvm(),
\* exec(), allocuvm(), deallocuvm(), freevm() and wait() keep it.
THEOREM MemInvariant == MemSpec => []MemInv
<1>1. MemInit => MemInv
  BY MemInitInv
<1>2. MemInv /\ [MemNext]_memVars => MemInv'
  BY MemStepInv
<1> QED BY <1>1, <1>2, PTL DEF MemSpec

\* Every page is free or has one owner and one place, on all the paths of
\* fork(), exec() and sbrk() that run out of memory too.
THEOREM PagesStayOwned == MemSpec => []PagesOwnedOnce
<1>1. MemInv => PagesOwnedOnce
  BY DEF MemInv
<1> QED BY <1>1, MemInvariant, PTL

=============================================================================
