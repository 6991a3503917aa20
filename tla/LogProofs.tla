----------------------------- MODULE LogProofs -----------------------------
(***************************************************************************)
(* Proofs about the write-ahead log, for any number of processes, blocks   *)
(* and contents and any log geometry with EnoughSlack: its invariant, and  *)
(* that it implements the atomic disk of Journal.                          *)
(***************************************************************************)
EXTENDS Log, FiniteSetTheorems, TLAPS

-----------------------------------------------------------------------------
(* Sequences of block numbers *)

\* Every entry of a header is one of its block numbers.
LEMMA EntriesType ==
  ASSUME NEW s \in Seq(Blocks)
  PROVE  /\ Entries(s) \subseteq Blocks
         /\ \A i \in 1..Len(s) : s[i] \in Blocks /\ s[i] \in Entries(s)
         /\ s = << >> => Entries(s) = {}
  BY DEF Entries

\* Appending a block that is not listed adds it, after the listed ones.
LEMMA EntriesAppend ==
  ASSUME NEW s \in Seq(Blocks), NEW b \in Blocks
  PROVE  /\ Append(s, b) \in Seq(Blocks)
         /\ Len(Append(s, b)) = Len(s) + 1
         /\ Entries(Append(s, b)) = Entries(s) \cup {b}
         /\ Injective(s) /\ b \notin Entries(s) => Injective(Append(s, b))
<1>1. /\ Append(s, b) \in Seq(Blocks)
      /\ Len(Append(s, b)) = Len(s) + 1
      /\ Len(s) \in Nat
      /\ Append(s, b)[Len(s) + 1] = b
      /\ \A i \in 1..Len(s) : Append(s, b)[i] = s[i]
  OBVIOUS
<1>2. Entries(Append(s, b)) = Entries(s) \cup {b}
  <2>1. ASSUME NEW x \in Entries(Append(s, b)) PROVE x \in Entries(s) \cup {b}
    <3>1. PICK i \in 1..(Len(s) + 1) : x = Append(s, b)[i]
      BY <1>1, <2>1 DEF Entries
    <3>2. CASE i = Len(s) + 1
      BY <1>1, <3>1, <3>2
    <3>3. CASE i \in 1..Len(s)
      BY <1>1, <3>1, <3>3 DEF Entries
    <3> QED  BY <1>1, <3>2, <3>3
  <2>2. ASSUME NEW x \in Entries(s) PROVE x \in Entries(Append(s, b))
    <3>1. PICK i \in 1..Len(s) : x = s[i]
      BY <2>2 DEF Entries
    <3>2. i \in 1..Len(Append(s, b)) /\ x = Append(s, b)[i]
      BY <1>1, <3>1
    <3> QED  BY <3>2 DEF Entries
  <2>3. b \in Entries(Append(s, b))
    <3>1. Len(s) + 1 \in 1..Len(Append(s, b)) /\ b = Append(s, b)[Len(s) + 1]
      BY <1>1
    <3> QED  BY <3>1 DEF Entries
  <2> QED  BY <2>1, <2>2, <2>3
<1>3. ASSUME Injective(s), b \notin Entries(s) PROVE Injective(Append(s, b))
  <2> SUFFICES ASSUME NEW i \in 1..(Len(s) + 1), NEW j \in 1..(Len(s) + 1),
                      Append(s, b)[i] = Append(s, b)[j]
               PROVE  i = j
    BY <1>1 DEF Injective
  <2>1. \A k \in 1..Len(s) : s[k] # b
    BY <1>3 DEF Entries
  <2> QED  BY <1>1, <1>3, <2>1 DEF Injective
<1> QED  BY <1>1, <1>2, <1>3

-----------------------------------------------------------------------------
(* Counting *)

\* Adding an element to a finite set adds at most one to its cardinality.
LEMMA CardAdd ==
  ASSUME NEW S, NEW x, IsFiniteSet(S)
  PROVE  /\ Cardinality(S) \in Nat
         /\ IsFiniteSet(S \cup {x}) /\ Cardinality(S \cup {x}) \in Nat
         /\ x \in S => Cardinality(S \cup {x}) = Cardinality(S)
         /\ x \notin S => Cardinality(S \cup {x}) = Cardinality(S) + 1
<1>1. IsFiniteSet(S \cup {x})
  BY FS_AddElement
<1>2. Cardinality(S) \in Nat /\ Cardinality(S \cup {x}) \in Nat
  BY <1>1, FS_CardinalityType
<1>3. x \in S => Cardinality(S \cup {x}) = Cardinality(S)
  BY FS_AddElement
<1>4. x \notin S => Cardinality(S \cup {x}) = Cardinality(S) + 1
  BY FS_AddElement
<1> QED  BY <1>1, <1>2, <1>3, <1>4

Callers == {p \in Procs : InCall(p)}

\* Running calls and their reservations are finite, at most MAXOPBLOCKS each.
LEMMA Counting ==
  ASSUME NEW C \in SUBSET Procs, NEW R \in SUBSET (C \X (1..MAXOPBLOCKS))
  PROVE  /\ IsFiniteSet(C) /\ Cardinality(C) \in Nat
         /\ IsFiniteSet(R) /\ Cardinality(R) \in Nat
         /\ Cardinality(R) <= Cardinality(C) * MAXOPBLOCKS
<1>1. IsFiniteSet(1..MAXOPBLOCKS) /\ Cardinality(1..MAXOPBLOCKS) = MAXOPBLOCKS
  BY LogAssumption, FS_Interval
<1>2. IsFiniteSet(C)
  BY LogAssumption, FS_Subset
<1>3. /\ IsFiniteSet(C \X (1..MAXOPBLOCKS))
      /\ Cardinality(C \X (1..MAXOPBLOCKS)) = Cardinality(C) * MAXOPBLOCKS
  BY <1>1, <1>2, FS_Product
<1>4. IsFiniteSet(R) /\ Cardinality(R) <= Cardinality(C) * MAXOPBLOCKS
  BY <1>3, FS_Subset
<1> QED  BY <1>2, <1>4, FS_CardinalityType

\* The form in which the steps below use Counting.
LEMMA ReservedType == /\ Callers \in SUBSET Procs
                      /\ Reserved \in SUBSET (Callers \X (1..MAXOPBLOCKS))
  BY DEF Reserved, Callers

\* A running call still holds the part of its reservation it has not used.
LEMMA ReservedOfCaller ==
  ASSUME NEW p \in Procs, InCall(p), IsFiniteSet(wrote[p])
  PROVE  Cardinality(Reserved) >= MAXOPBLOCKS - Cardinality(wrote[p])
<1> DEFINE k == Cardinality(wrote[p])
           I == (k + 1)..MAXOPBLOCKS
           S == {p} \X I
<1>1. k \in Nat
  BY FS_CardinalityType
<1> HIDE DEF k
<1>2. IsFiniteSet(I) /\ Cardinality(I) >= MAXOPBLOCKS - k
  BY <1>1, LogAssumption, FS_Interval
<1>3. IsFiniteSet({p}) /\ Cardinality({p}) = 1
  BY FS_Singleton
<1>4. Cardinality(S) = Cardinality({p}) * Cardinality(I)
  BY <1>2, <1>3, FS_Product
<1>5. Cardinality(I) \in Nat
  BY <1>2, FS_CardinalityType
<1>6. Cardinality(S) >= MAXOPBLOCKS - k
  BY <1>2, <1>3, <1>4, <1>5
<1>7. S \in SUBSET Reserved
  BY <1>1, LogAssumption DEF Reserved, k
<1>8. IsFiniteSet(Reserved) /\ Cardinality(Reserved) \in Nat
  BY Counting, ReservedType
<1>9. IsFiniteSet(S) /\ Cardinality(S) <= Cardinality(Reserved)
  BY <1>7, <1>8, FS_Subset
<1>10. Cardinality(S) \in Nat
  BY <1>9, FS_CardinalityType
<1> QED  BY <1>1, <1>6, <1>8, <1>9, <1>10, LogAssumption DEF k

-----------------------------------------------------------------------------
(* One lemma per action: the step preserves the invariant *)

\* The invariant of a running system.
LEMMA UpFacts ==
  ASSUME LogInv, sys = "up"
  PROVE  /\ TypeOK /\ HeadersOK /\ CleanBuffersOK /\ CommitAlone /\ LogSpace
         /\ HoldersOK /\ CallsOK /\ PhaseOK
         /\ \A b \in Blocks : home[b] \in Vals
         /\ \A b \in pinned : cache[b] \in Vals
  BY DEF LogInv, RunningOK

\* While a call runs nobody commits.
LEMMA CallNoCommit ==
  ASSUME LogInv, sys = "up", NEW p \in Procs, InCall(p)
  PROVE  /\ ~committing /\ outstanding \in Nat \ {0} /\ BeforeCommitPoint
         /\ \A q \in Procs : ~Committer(q)
<1>1. ~committing
  BY UpFacts DEF CommitAlone
<1>2. /\ outstanding = Cardinality(Callers) /\ IsFiniteSet(Callers)
      /\ Cardinality(Callers) \in Nat
  BY UpFacts, Counting, ReservedType DEF CommitAlone, Callers
<1>3. Callers # {}
  BY DEF Callers
<1>4. Cardinality(Callers) # 0
  BY <1>2, <1>3, FS_EmptySet
<1> QED  BY <1>1, <1>2, <1>4, UpFacts DEF CommitAlone, PhaseOK

\* begin_op() keeps the invariant: its test is what makes room for the call.
LEMMA BeginOpStep ==
  ASSUME LogInv, NEW p \in Procs, begin_op(p)
  PROVE  LogInv'
<1> USE LogAssumption
<1>0. /\ sys = "up" /\ pc[p] \in {"idle", "begin"}
      /\ UNCHANGED <<disk, bufs, lh, committing, tail, held, sys>>
      /\ UNCHANGED <<home, logd, head, cache, pinned>>
  BY DEF begin_op, disk, bufs
<1>1. TypeOK /\ HoldersOK /\ CallsOK /\ PhaseOK /\ CommitAlone /\ LogSpace
  BY <1>0 DEF LogInv, RunningOK
<1>2. ~InCall(p) /\ ~Committer(p)
  BY <1>0 DEF InCall, Committer
<1>3. NoPanic' /\ HeadersOK' /\ CleanBuffersOK' /\ BootOK'
  BY <1>0 DEF LogInv, NoPanic, HeadersOK, CleanBuffersOK, BootOK, Unheld
<1>4. CASE MustWait
  <2>1. pc' = [pc EXCEPT ![p] = "asleep"] /\ UNCHANGED <<outstanding, wrote>>
    BY <1>4 DEF begin_op
  <2>2. \A q \in Procs : (InCall(q)' <=> InCall(q)) /\ (Committer(q)' <=> Committer(q))
    BY <1>1, <1>2, <2>1 DEF TypeOK, InCall, Committer
  <2>3. TypeOK'
    BY <1>0, <1>1, <2>1 DEF TypeOK, PCs
  <2>4. Callers' = Callers /\ Reserved' = Reserved
    BY <2>1, <2>2 DEF Callers, Reserved
  <2>5. CommitAlone' /\ LogSpace'
    BY <1>0, <1>1, <2>1, <2>2, <2>4 DEF CommitAlone, LogSpace, Callers
  <2>6. RunningOK'
    <3>1. HoldersOK'
      BY <1>0, <1>1, <2>1 DEF HoldersOK, TypeOK
    <3>2. CallsOK'
      BY <1>0, <1>1, <2>1, <2>2 DEF CallsOK, TypeOK
    <3>3. PhaseOK'
      BY <1>0, <1>1, <2>1 DEF PhaseOK, TypeOK, BeforeCommitPoint, AfterCommitPoint, Copied, Installed
    <3> QED  BY <1>0, <3>1, <3>2, <3>3 DEF RunningOK, LogInv
  <2> QED  BY <1>3, <2>3, <2>5, <2>6 DEF LogInv
<1>5. CASE ~MustWait
  <2>1. /\ pc' = [pc EXCEPT ![p] = "op"] /\ outstanding' = outstanding + 1
        /\ wrote' = [wrote EXCEPT ![p] = {}]
        /\ ~committing /\ ~MayExhaustLog
    BY <1>5 DEF begin_op, MustWait
  <2>2. /\ \A q \in Procs \ {p} : (InCall(q)' <=> InCall(q)) /\ wrote'[q] = wrote[q]
        /\ \A q \in Procs : Committer(q)' <=> Committer(q)
        /\ InCall(p)' /\ wrote'[p] = {}
    BY <1>1, <1>2, <2>1 DEF TypeOK, InCall, Committer
  <2>3. TypeOK'
    BY <1>0, <1>1, <2>1 DEF TypeOK, PCs
  <2>4. Callers' = Callers \cup {p} /\ p \notin Callers
    BY <1>2, <2>2 DEF Callers
  <2>5. outstanding' = Cardinality(Callers') /\ outstanding' \in Nat
    <3>1. outstanding = Cardinality(Callers) /\ IsFiniteSet(Callers) /\ Cardinality(Callers) \in Nat
      BY <1>0, <1>1, Counting, ReservedType DEF CommitAlone, Callers
    <3>2. Cardinality(Callers \cup {p}) = Cardinality(Callers) + 1
      BY <2>4, <3>1, FS_AddElement
    <3> QED  BY <2>1, <2>4, <3>1, <3>2
  <2>6. CommitAlone'
    BY <1>0, <1>1, <2>1, <2>2, <2>5 DEF CommitAlone, Callers
  <2>7. LogSpace'
    <3>1. Callers' \in SUBSET Procs /\ Reserved' \in SUBSET (Callers' \X (1..MAXOPBLOCKS))
      BY DEF Reserved, Callers
    <3>2. Cardinality(Reserved') \in Nat /\ Cardinality(Reserved') <= (outstanding + 1) * MAXOPBLOCKS
      BY <2>1, <2>5, <3>1, Counting
    <3>3. Len(lh) \in Nat /\ outstanding \in Int /\ Len(lh) + (outstanding + 1) * MAXOPBLOCKS <= LOGSIZE
      BY <1>1, <2>1 DEF TypeOK, MayExhaustLog
    <3> HIDE LogAssumption
    <3>4. (outstanding + 1) * MAXOPBLOCKS \in Int
      BY <3>3, LogAssumption
    <3> QED  BY <1>0, <3>2, <3>3, <3>4, LogAssumption DEF LogSpace
  <2>8. RunningOK'
    <3>1. HoldersOK'
      BY <1>0, <1>1, <2>1 DEF HoldersOK, TypeOK
    <3>2. CallsOK'
      BY <1>0, <1>1, <2>1, <2>2, FS_EmptySet DEF CallsOK, TypeOK
    <3>3. PhaseOK'
      <4>1. outstanding' # 0
        BY <1>0, <1>1, <2>1, Counting, ReservedType DEF CommitAlone, Callers
      <4>2. BeforeCommitPoint'
        BY <1>0, <1>1, <2>1 DEF PhaseOK, BeforeCommitPoint
      <4>3. \A q \in Procs : ~Committer(q)'
        BY <1>0, <1>1, <2>1, <2>2 DEF CommitAlone
      <4> QED  BY <4>1, <4>2, <4>3 DEF PhaseOK, Committer
    <3> QED  BY <1>0, <3>1, <3>2, <3>3 DEF RunningOK, LogInv
  <2> QED  BY <1>3, <2>3, <2>6, <2>7, <2>8 DEF LogInv
<1> QED  BY <1>4, <1>5

\* The tests of log_write() never fail: the call's own unused reservation
\* keeps the log below its capacity.
LEMMA LogNotFull ==
  ASSUME LogInv, EnoughSlack, sys = "up", NEW p \in Procs, InCall(p)
  PROVE  /\ Len(lh) < LOGSIZE /\ Len(lh) < NLOG - 1
         /\ outstanding >= 1 /\ OpWrites < MAXOPBLOCKS
<1> DEFINE k == Cardinality(wrote[p])
<1>1. IsFiniteSet(wrote[p]) /\ k <= OpWrites
  BY UpFacts DEF CallsOK
<1>2. k \in Nat
  BY <1>1, FS_CardinalityType
<1>3. Cardinality(Reserved) >= MAXOPBLOCKS - k /\ Cardinality(Reserved) \in Nat
  BY <1>1, ReservedOfCaller, Counting, ReservedType
<1>4. Len(lh) \in Nat /\ Len(lh) + Cardinality(Reserved) <= LOGSIZE
  BY UpFacts DEF TypeOK, LogSpace
<1>5. outstanding \in Nat \ {0}
  BY CallNoCommit
<1> QED  BY <1>1, <1>2, <1>3, <1>4, <1>5, LogAssumption DEF EnoughSlack, LogCapacity

\* Changing a buffer and passing the tests of log_write() keeps the invariant.
LEMMA LogWriteCheckStep ==
  ASSUME LogInv, EnoughSlack, NEW p \in Procs, NEW b \in Blocks, NEW v \in Vals,
         log_write_check(p, b, v)
  PROVE  LogInv'
<1> USE LogAssumption
<1>0. /\ sys = "up" /\ pc[p] = "op" /\ InCall(p) /\ Unheld(b)
      /\ b \in wrote[p] \/ Cardinality(wrote[p]) < OpWrites
      /\ cache' = [cache EXCEPT ![b] = v]
      /\ UNCHANGED <<home, logd, head, pinned, lh, outstanding, committing, tail, wrote>>
  BY DEF log_write_check, disk, logv, InCall, Unheld
<1>1. /\ TypeOK /\ HeadersOK /\ CleanBuffersOK /\ CommitAlone /\ LogSpace
      /\ HoldersOK /\ CallsOK /\ PhaseOK
      /\ \A x \in Blocks : home[x] \in Vals
      /\ \A x \in pinned : cache[x] \in Vals
  BY <1>0, UpFacts
<1>2. /\ ~committing /\ outstanding # 0 /\ BeforeCommitPoint
      /\ \A q \in Procs : ~Committer(q)
  BY <1>0, CallNoCommit
<1>3. /\ pc' = [pc EXCEPT ![p] = "log_write"] /\ held' = [held EXCEPT ![p] = b]
      /\ sys' = sys
  <2>1. Len(lh) < LOGSIZE /\ Len(lh) < NLOG - 1 /\ outstanding >= 1
    BY <1>0, LogNotFull
  <2>2. Len(lh) \in Nat /\ outstanding \in Int
    BY <1>1 DEF TypeOK
  <2>3. ~(Len(lh) >= LOGSIZE \/ Len(lh) >= NLOG - 1 \/ outstanding < 1)
    BY <2>1, <2>2
  <2> QED  BY <2>3 DEF log_write_check
<1>4. \A q \in Procs : (InCall(q)' <=> InCall(q)) /\ ~Committer(q)'
  BY <1>0, <1>1, <1>2, <1>3 DEF TypeOK, InCall, Committer
<1>5. TypeOK'
  BY <1>0, <1>1, <1>3 DEF TypeOK, PCs
<1>6. NoPanic' /\ HeadersOK' /\ BootOK'
  BY <1>0, <1>1, <1>3 DEF NoPanic, HeadersOK, BootOK
<1>7. CleanBuffersOK'
  <2> SUFFICES ASSUME NEW x \in Blocks, cache'[x] # NoBuf, x \notin pinned', Unheld(x)'
               PROVE  cache'[x] = home'[x]
    BY DEF CleanBuffersOK
  <2>1. x # b
    BY <1>1, <1>3 DEF Unheld, TypeOK
  <2>2. \A q \in Procs : held[q] = held'[q] \/ (q = p /\ held[q] = NoBuf)
    BY <1>0, <1>1, <1>3 DEF HoldersOK, TypeOK
  <2>3. Unheld(x)
    BY <2>2 DEF Unheld
  <2> QED  BY <1>0, <1>1, <2>1, <2>3 DEF CleanBuffersOK, TypeOK
<1>8. Callers' = Callers /\ Reserved' = Reserved
  BY <1>0, <1>4 DEF Callers, Reserved
<1>9. CommitAlone' /\ LogSpace'
  BY <1>0, <1>1, <1>2, <1>3, <1>4, <1>8 DEF CommitAlone, LogSpace, Callers
<1>10. HoldersOK'
  <2>1. \A q \in Procs : held'[q] = IF q = p THEN b ELSE held[q]
    BY <1>1, <1>3 DEF TypeOK
  <2>2. \A q \in Procs : pc'[q] = IF q = p THEN "log_write" ELSE pc[q]
    BY <1>1, <1>3 DEF TypeOK
  <2>3. \A q \in Procs : held'[q] # NoBuf <=> pc'[q] = "log_write"
    BY <1>1, <2>1, <2>2 DEF HoldersOK
  <2>4. \A q, r \in Procs : held'[q] = held'[r] /\ held'[q] # NoBuf => q = r
    BY <1>0, <1>1, <2>1 DEF HoldersOK, Unheld
  <2>5. \A x \in Blocks : cache'[x] = IF x = b THEN v ELSE cache[x]
    BY <1>0, <1>1 DEF TypeOK
  <2>6. \A q \in Procs : held[q] \in Blocks \cup {NoBuf} /\ held[q] # b
    BY <1>0, <1>1 DEF Unheld, TypeOK
  <2>7. \A q \in Procs : held'[q] # NoBuf => cache'[held'[q]] \in Vals
    BY <1>1, <2>1, <2>5, <2>6 DEF HoldersOK
  <2> QED  BY <2>3, <2>4, <2>7 DEF HoldersOK
<1>11. CallsOK'
  <2> SUFFICES ASSUME NEW q \in Procs, InCall(q)'
               PROVE  /\ wrote'[q] \subseteq Entries(lh')
                      /\ IsFiniteSet(wrote'[q]) /\ Cardinality(wrote'[q]) <= OpWrites
                      /\ pc'[q] = "log_write" => \/ held'[q] \in wrote'[q]
                                                 \/ Cardinality(wrote'[q]) < OpWrites
    BY DEF CallsOK
  <2>1. InCall(q)
    BY <1>4
  <2> QED  BY <1>0, <1>1, <1>3, <2>1 DEF CallsOK, TypeOK
<1>12. PhaseOK'
  BY <1>0, <1>2, <1>4 DEF PhaseOK, Committer, BeforeCommitPoint
<1>13. \A x \in pinned' : cache'[x] \in Vals
  BY <1>0, <1>1 DEF TypeOK
<1> QED  BY <1>0, <1>1, <1>5, <1>6, <1>7, <1>9, <1>10, <1>11, <1>12, <1>13 DEF LogInv, RunningOK

\* The locked part of log_write() keeps the invariant: an appended entry is
\* paid for by one entry of the caller's reservation.
LEMMA LogWriteStep ==
  ASSUME LogInv, EnoughSlack, NEW p \in Procs, log_write(p)
  PROVE  LogInv'
<1> USE LogAssumption
<1> DEFINE b == held[p]
<1>0. /\ sys = "up" /\ pc[p] = "log_write" /\ InCall(p) /\ sys' = sys
      /\ lh' = IF b \in Entries(lh) THEN lh ELSE Append(lh, b)
      /\ pinned' = pinned \cup {b}
      /\ wrote' = [wrote EXCEPT ![p] = @ \cup {b}]
      /\ held' = [held EXCEPT ![p] = NoBuf]
      /\ pc' = [pc EXCEPT ![p] = "op"]
      /\ UNCHANGED <<home, logd, head, cache, outstanding, committing, tail>>
  BY DEF log_write, disk, InCall
<1>1. /\ TypeOK /\ HeadersOK /\ CleanBuffersOK /\ CommitAlone /\ LogSpace
      /\ HoldersOK /\ CallsOK /\ PhaseOK
      /\ \A x \in Blocks : home[x] \in Vals
      /\ \A x \in pinned : cache[x] \in Vals
  BY <1>0, UpFacts
<1>2. /\ ~committing /\ outstanding # 0 /\ BeforeCommitPoint
      /\ \A q \in Procs : ~Committer(q)
  BY <1>0, CallNoCommit
<1>3. b \in Blocks /\ cache[b] \in Vals
  BY <1>0, <1>1 DEF TypeOK, HoldersOK
<1> HIDE DEF b
<1>4. /\ lh' \in Seq(Blocks) /\ Injective(lh') /\ Entries(lh') = Entries(lh) \cup {b}
      /\ Len(lh') \in Nat
  BY <1>0, <1>1, <1>3, EntriesAppend DEF TypeOK, HeadersOK
<1>5. TypeOK'
  BY <1>0, <1>1, <1>3, <1>4 DEF TypeOK, PCs
<1>6. \A q \in Procs : (InCall(q)' <=> InCall(q)) /\ ~Committer(q)'
  BY <1>0, <1>1, <1>2 DEF TypeOK, InCall, Committer
<1>7. Callers' = Callers
  BY <1>6 DEF Callers
<1>8. LogSpace'
  <2> DEFINE k == Cardinality(wrote[p])
  <2>0. /\ IsFiniteSet(wrote[p]) /\ k <= OpWrites /\ wrote[p] \subseteq Entries(lh)
        /\ b \in wrote[p] \/ k < OpWrites
    BY <1>0, <1>1 DEF CallsOK, b
  <2>1. k \in Nat
    BY <2>0, FS_CardinalityType
  <2>2. /\ IsFiniteSet(Reserved) /\ Cardinality(Reserved) \in Nat
        /\ Len(lh) \in Nat /\ Len(lh) + Cardinality(Reserved) <= LOGSIZE
    BY <1>0, <1>1, Counting, ReservedType DEF LogSpace, TypeOK
  <2>3. \A q \in Procs : wrote'[q] = IF q = p THEN wrote[p] \cup {b} ELSE wrote[q]
    BY <1>0, <1>1 DEF TypeOK
  <2>4. CASE b \in Entries(lh)
    <3>1. Cardinality(wrote[p] \cup {b}) \in Nat /\ Cardinality(wrote[p] \cup {b}) >= k
      <4>1. /\ Cardinality(wrote[p] \cup {b}) \in Nat
            /\ Cardinality(wrote[p] \cup {b}) = k \/ Cardinality(wrote[p] \cup {b}) = k + 1
        BY <2>0, CardAdd
      <4> QED  BY <2>1, <4>1
    <3>2. Reserved' \in SUBSET Reserved
      BY <1>6, <2>1, <2>3, <3>1 DEF Reserved
    <3>3. Cardinality(Reserved') <= Cardinality(Reserved) /\ IsFiniteSet(Reserved')
      BY <2>2, <3>2, FS_Subset
    <3>4. Cardinality(Reserved') \in Nat
      BY <3>3, FS_CardinalityType
    <3> QED  BY <1>0, <2>2, <2>4, <3>3, <3>4 DEF LogSpace
  <2>5. CASE b \notin Entries(lh)
    <3>1. b \notin wrote[p] /\ k < OpWrites
      BY <2>0, <2>5
    <3>2. Cardinality(wrote[p] \cup {b}) = k + 1
      BY <2>0, <2>1, <3>1, FS_AddElement
    <3> DEFINE t == <<p, k + 1>>
    <3>3. k + 1 \in 1..MAXOPBLOCKS
      BY <1>0, <2>1, <3>1, LogNotFull
    <3> HIDE DEF k
    <3>4. t \in Reserved
      BY <1>0, <2>1, <3>3 DEF Reserved, k
    <3>5. Reserved' = Reserved \ {t}
      <4>1. ASSUME NEW q \in Procs, NEW i \in 1..MAXOPBLOCKS
            PROVE  <<q, i>> \in Reserved' <=> <<q, i>> \in Reserved /\ <<q, i>> # t
        <5>1. CASE q = p
          <6>1. <<q, i>> \in Reserved' <=> i > k + 1
            BY <1>0, <1>6, <2>3, <3>2, <5>1 DEF Reserved
          <6>2. <<q, i>> \in Reserved <=> i > k
            BY <1>0, <5>1 DEF Reserved, k
          <6> QED  BY <2>1, <5>1, <6>1, <6>2
        <5>2. CASE q # p
          BY <1>6, <2>3, <5>2 DEF Reserved
        <5> QED  BY <5>1, <5>2
      <4>2. Reserved \subseteq Procs \X (1..MAXOPBLOCKS) /\ Reserved' \subseteq Procs \X (1..MAXOPBLOCKS)
        BY DEF Reserved
      <4> QED  BY <4>1, <4>2
    <3>6. Cardinality(Reserved \ {t}) = Cardinality(Reserved) - 1
      BY <2>2, <3>4, FS_RemoveElement
    <3>7. Len(lh') = Len(lh) + 1
      BY <1>0, <1>1, <1>3, <2>5, EntriesAppend DEF TypeOK
    <3>8. Cardinality(Reserved') = Cardinality(Reserved) - 1
      BY <3>5, <3>6
    <3> QED  BY <1>0, <2>2, <3>7, <3>8 DEF LogSpace
  <2> QED  BY <2>4, <2>5
<1>9. Len(lh') <= LOGSIZE
  <2>1. Callers' \in SUBSET Procs /\ Reserved' \in SUBSET (Callers' \X (1..MAXOPBLOCKS))
    BY DEF Reserved, Callers
  <2>2. Cardinality(Reserved') \in Nat
    BY <2>1, Counting
  <2> QED  BY <1>0, <1>4, <1>8, <2>2 DEF LogSpace
<1>10. NoPanic' /\ HeadersOK' /\ BootOK'
  BY <1>0, <1>1, <1>4, <1>9 DEF NoPanic, HeadersOK, BootOK
<1>11. CommitAlone'
  BY <1>0, <1>1, <1>2, <1>6, <1>7 DEF CommitAlone, Callers
<1>12. \A q \in Procs : held'[q] = IF q = p THEN NoBuf ELSE held[q]
  BY <1>0, <1>1 DEF TypeOK
<1>13. CleanBuffersOK'
  <2> SUFFICES ASSUME NEW x \in Blocks, cache'[x] # NoBuf, x \notin pinned', Unheld(x)'
               PROVE  cache'[x] = home'[x]
    BY DEF CleanBuffersOK
  <2>1. x # b /\ x \notin pinned
    BY <1>0
  <2>2. Unheld(x)
    BY <1>12, <2>1 DEF Unheld, b
  <2> QED  BY <1>0, <1>1, <2>1, <2>2 DEF CleanBuffersOK
<1>14. HoldersOK'
  <2>1. \A q \in Procs : pc'[q] = IF q = p THEN "op" ELSE pc[q]
    BY <1>0, <1>1 DEF TypeOK
  <2> QED  BY <1>0, <1>1, <1>12, <2>1 DEF HoldersOK
<1>15. CallsOK'
  <2> SUFFICES ASSUME NEW q \in Procs, InCall(q)'
               PROVE  /\ wrote'[q] \subseteq Entries(lh')
                      /\ IsFiniteSet(wrote'[q]) /\ Cardinality(wrote'[q]) <= OpWrites
                      /\ pc'[q] = "log_write" => \/ held'[q] \in wrote'[q]
                                                 \/ Cardinality(wrote'[q]) < OpWrites
    BY DEF CallsOK
  <2>1. InCall(q)
    BY <1>6
  <2>2. CASE q # p
    BY <1>0, <1>1, <1>4, <1>12, <2>1, <2>2 DEF CallsOK, TypeOK
  <2>3. CASE q = p
    <3>1. wrote'[q] = wrote[p] \cup {b} /\ pc'[q] = "op"
      BY <1>0, <1>1, <2>3 DEF TypeOK
    <3>2. /\ IsFiniteSet(wrote[p]) /\ Cardinality(wrote[p]) <= OpWrites
          /\ wrote[p] \subseteq Entries(lh)
          /\ b \in wrote[p] \/ Cardinality(wrote[p]) < OpWrites
      BY <1>0, <1>1 DEF CallsOK, b
    <3>3. Cardinality(wrote[p]) \in Nat
      BY <3>2, FS_CardinalityType
    <3>4. IsFiniteSet(wrote[p] \cup {b}) /\ Cardinality(wrote[p] \cup {b}) <= OpWrites
      <4>1. /\ IsFiniteSet(wrote[p] \cup {b})
            /\ b \in wrote[p] => Cardinality(wrote[p] \cup {b}) = Cardinality(wrote[p])
            /\ b \notin wrote[p] => Cardinality(wrote[p] \cup {b}) = Cardinality(wrote[p]) + 1
        BY <3>2, CardAdd
      <4> QED  BY <3>2, <3>3, <4>1
    <3> QED  BY <1>4, <3>1, <3>2, <3>4
  <2> QED  BY <2>2, <2>3
<1>16. PhaseOK'
  BY <1>0, <1>2, <1>4, <1>6 DEF PhaseOK, Committer, BeforeCommitPoint
<1>17. \A x \in pinned' : cache'[x] \in Vals
  BY <1>0, <1>1, <1>3
<1> QED
  BY <1>0, <1>1, <1>5, <1>8, <1>10, <1>11, <1>13, <1>14, <1>15, <1>16, <1>17 DEF LogInv, RunningOK

\* end_op() keeps the invariant: the last call out hands a complete
\* transaction to commit().
LEMMA EndOpStep ==
  ASSUME LogInv, NEW p \in Procs, end_op(p)
  PROVE  LogInv'
<1> USE LogAssumption
<1>0. /\ sys = "up" /\ pc[p] = "op" /\ InCall(p)
      /\ outstanding' = outstanding - 1
      /\ UNCHANGED <<home, logd, head, cache, pinned, lh, held, wrote>>
  BY DEF end_op, disk, bufs, InCall
<1>1. /\ TypeOK /\ HeadersOK /\ CleanBuffersOK /\ CommitAlone /\ LogSpace
      /\ HoldersOK /\ CallsOK /\ PhaseOK
      /\ \A x \in Blocks : home[x] \in Vals
      /\ \A x \in pinned : cache[x] \in Vals
  BY <1>0, UpFacts
<1>2. /\ ~committing /\ outstanding \in Nat \ {0} /\ BeforeCommitPoint
      /\ \A q \in Procs : ~Committer(q)
  BY <1>0, CallNoCommit
<1>3. /\ sys' = sys
      /\ \/ /\ outstanding' = 0 /\ committing' = TRUE /\ tail' = 1
            /\ pc' = [pc EXCEPT ![p] = CommitStart]
         \/ /\ outstanding' # 0 /\ UNCHANGED <<committing, tail>>
            /\ pc' = Awake([pc EXCEPT ![p] = "idle"])
  BY <1>2 DEF end_op
<1>4. /\ \A q \in Procs \ {p} : /\ InCall(q)' <=> InCall(q)
                                /\ pc'[q] = "log_write" <=> pc[q] = "log_write"
                                /\ ~Committer(q)'
      /\ ~InCall(p)' /\ pc'[p] # "log_write"
  BY <1>1, <1>2, <1>3 DEF TypeOK, InCall, Committer, Awake, CommitStart
<1>5. TypeOK'
  <2>1. pc' \in [Procs -> PCs]
    BY <1>1, <1>3 DEF TypeOK, PCs, Awake, CommitStart
  <2>2. tail' \in Nat /\ outstanding' \in Nat
    BY <1>0, <1>1, <1>2, <1>3 DEF TypeOK
  <2>4. committing' \in BOOLEAN
    BY <1>1, <1>3, Zenon DEF TypeOK
  <2>3. sys' \in {"up", "panic", "read_head", "recover", "recovered"}
    BY <1>0, <1>3
  <2> QED  BY <1>0, <1>1, <2>1, <2>2, <2>3, <2>4 DEF TypeOK
<1>6. NoPanic' /\ HeadersOK' /\ CleanBuffersOK' /\ BootOK'
  BY <1>0, <1>1, <1>3 DEF NoPanic, HeadersOK, CleanBuffersOK, BootOK, Unheld
<1>7. Callers' = Callers \ {p} /\ p \in Callers
  BY <1>0, <1>4 DEF Callers
<1>8. outstanding' = Cardinality(Callers') /\ IsFiniteSet(Callers')
  <2>1. outstanding = Cardinality(Callers) /\ IsFiniteSet(Callers)
    BY <1>0, <1>1, Counting, ReservedType DEF CommitAlone, Callers
  <2>2. IsFiniteSet(Callers \ {p}) /\ Cardinality(Callers \ {p}) = Cardinality(Callers) - 1
    BY <1>7, <2>1, FS_RemoveElement
  <2> QED  BY <1>0, <1>7, <2>1, <2>2
<1>9. LogSpace'
  <2>1. Reserved' \in SUBSET Reserved
    BY <1>0, <1>4 DEF Reserved
  <2>2. IsFiniteSet(Reserved) /\ Cardinality(Reserved) \in Nat
    BY Counting, ReservedType
  <2>3. IsFiniteSet(Reserved') /\ Cardinality(Reserved') <= Cardinality(Reserved)
    BY <2>1, <2>2, FS_Subset
  <2>4. Cardinality(Reserved') \in Nat /\ Len(lh) \in Nat
    BY <1>1, <2>3, FS_CardinalityType DEF TypeOK
  <2> QED  BY <1>0, <1>1, <1>3, <2>2, <2>3, <2>4 DEF LogSpace
<1>10. HoldersOK'
  BY <1>0, <1>1, <1>4 DEF HoldersOK
<1>11. CallsOK'
  BY <1>0, <1>1, <1>4 DEF CallsOK
<1>12. CASE outstanding' = 0
  <2>1. committing' = TRUE /\ tail' = 1 /\ pc'[p] = CommitStart /\ Committer(p)'
    BY <1>1, <1>3, <1>12 DEF TypeOK, CommitStart, Committer
  <2>2. Callers' = {}
    BY <1>8, <1>12, FS_EmptySet
  <2>3. CommitAlone'
    BY <1>4, <1>8, <2>1, <2>2 DEF CommitAlone, Callers
  <2>4. PhaseOK'
    <3>1. Len(lh) \in Nat /\ (Len(lh) = 0 => lh = << >>)
      BY <1>1 DEF TypeOK
    <3>2. BeforeCommitPoint'
      BY <1>0, <1>2 DEF BeforeCommitPoint
    <3>3. CASE Len(lh) > 0
      <4>1. pc'[p] = "write_log" /\ tail' \in 1..Len(lh') /\ Copied(tail - 1)'
        BY <1>0, <2>1, <3>1, <3>3 DEF CommitStart, Copied
      <4> QED  BY <1>4, <2>1, <3>2, <4>1 DEF PhaseOK, Committer
    <3>4. CASE ~(Len(lh) > 0)
      <4>1. pc'[p] = "committed" /\ lh' = << >>
        BY <1>0, <2>1, <3>1, <3>4 DEF CommitStart
      <4> QED  BY <1>4, <2>1, <3>2, <4>1 DEF PhaseOK, Committer
    <3> QED  BY <3>3, <3>4
  <2> QED  BY <1>0, <1>1, <1>5, <1>6, <1>9, <1>10, <1>11, <2>3, <2>4 DEF LogInv, RunningOK
<1>13. CASE outstanding' # 0
  <2>1. /\ committing' = FALSE
        /\ \A q \in Procs : ~Committer(q)'
    BY <1>1, <1>2, <1>3, <1>4, <1>13 DEF TypeOK, Awake, Committer
  <2>2. CommitAlone'
    BY <1>8, <2>1 DEF CommitAlone, Callers
  <2>3. PhaseOK'
    BY <1>0, <1>2, <1>13, <2>1 DEF PhaseOK, Committer, BeforeCommitPoint
  <2> QED  BY <1>0, <1>1, <1>5, <1>6, <1>9, <1>10, <1>11, <2>2, <2>3 DEF LogInv, RunningOK
<1> QED  BY <1>12, <1>13

\* What every step of commit() leaves alone: nobody else is in the log.
LEMMA CommitFrame ==
  ASSUME LogInv, sys = "up", NEW p \in Procs, Committer(p), sys' = sys,
         NEW x \in {"write_log", "write_head", "install", "clear_head", "committed"},
         pc' = [pc EXCEPT ![p] = x],
         UNCHANGED <<outstanding, committing, held, wrote>>
  PROVE  /\ pc' \in [Procs -> PCs] /\ pc'[p] = x
         /\ committing /\ outstanding = 0
         /\ \A q \in Procs : held[q] = NoBuf
         /\ CommitAlone' /\ CallsOK'
         /\ Reserved' = Reserved
         /\ \A q \in Procs \ {p} : pc'[q] = pc[q] /\ ~Committer(q)'
<1>1. TypeOK /\ CommitAlone /\ HoldersOK
  BY UpFacts
<1>2. pc' \in [Procs -> PCs] /\ pc'[p] = x /\ \A q \in Procs \ {p} : pc'[q] = pc[q]
  BY <1>1 DEF TypeOK, PCs
<1>3. /\ committing /\ \A q \in Procs : ~InCall(q)
      /\ \A q \in Procs \ {p} : ~Committer(q)
  BY <1>1 DEF CommitAlone
<1>4. \A q \in Procs \ {p} : ~Committer(q)'
  BY <1>2, <1>3 DEF Committer
<1>5. \A q \in Procs : ~InCall(q)'
  BY <1>2, <1>3 DEF InCall
<1>6. Callers = {} /\ Callers' = {}
  BY <1>3, <1>5 DEF Callers
<1>7. outstanding = 0 /\ outstanding' = 0
  BY <1>1, <1>6, FS_EmptySet DEF CommitAlone, Callers
<1>8. \A q \in Procs : held[q] = NoBuf
  BY <1>1, <1>3 DEF HoldersOK, InCall
<1>9. Committer(p)'
  BY <1>2 DEF Committer
<1>10. CommitAlone'
  BY <1>3, <1>4, <1>5, <1>6, <1>7, <1>9, FS_EmptySet DEF CommitAlone, Callers
<1>11. CallsOK' /\ Reserved' = Reserved
  BY <1>3, <1>5 DEF CallsOK, Reserved
<1> QED  BY <1>2, <1>3, <1>4, <1>7, <1>8, <1>10, <1>11

\* Copying one pinned block to the log area keeps the invariant.
LEMMA WriteLogStep ==
  ASSUME LogInv, NEW p \in Procs, write_log(p)
  PROVE  LogInv'
<1> USE LogAssumption
<1> DEFINE b == lh[tail]
<1>0. /\ sys = "up" /\ pc[p] = "write_log" /\ Committer(p) /\ sys' = sys
      /\ cache' = [cache EXCEPT ![b] = Bread(b)] /\ logd' = [logd EXCEPT ![tail] = Bread(b)]
      /\ UNCHANGED <<home, head, pinned, lh, outstanding, committing, held, wrote>>
  BY DEF write_log, Committer
<1>1. /\ TypeOK /\ HeadersOK /\ CleanBuffersOK /\ CommitAlone /\ LogSpace
      /\ HoldersOK /\ CallsOK /\ PhaseOK
      /\ \A x \in Blocks : home[x] \in Vals
      /\ \A x \in pinned : cache[x] \in Vals
  BY <1>0, UpFacts
<1>2. head = << >> /\ pinned = Entries(lh) /\ tail \in 1..Len(lh) /\ Copied(tail - 1)
  BY <1>0, <1>1 DEF PhaseOK, BeforeCommitPoint
<1>3. b \in Blocks /\ b \in pinned /\ cache[b] \in Vals /\ tail \in 1..LOGSIZE /\ Len(lh) \in Nat
  BY <1>1, <1>2, EntriesType DEF TypeOK, HeadersOK
<1>4. cache' = cache /\ Bread(b) = cache[b]
  BY <1>0, <1>1, <1>3 DEF Bread, TypeOK
<1>5. \A i \in 1..LOGSIZE : logd'[i] = IF i = tail THEN cache[lh[i]] ELSE logd[i]
  BY <1>0, <1>1, <1>4 DEF TypeOK
<1>7. \A i \in 1..tail : logd'[i] = cache'[lh'[i]]
  BY <1>0, <1>1, <1>2, <1>3, <1>4, <1>5 DEF Copied, HeadersOK
<1>8. PICK x \in {"write_log", "write_head"} :
        /\ pc' = [pc EXCEPT ![p] = x]
        /\ x = "write_log" => tail < Len(lh) /\ tail' = tail + 1
        /\ x = "write_head" => tail = Len(lh) /\ tail' = 1
  <2>1. CASE tail < Len(lh)
    BY <1>0, <1>1, <2>1 DEF write_log, TypeOK
  <2>2. CASE ~(tail < Len(lh))
    BY <1>2, <1>3, <2>2 DEF write_log
  <2> QED  BY <2>1, <2>2
<1>9. /\ pc' \in [Procs -> PCs] /\ pc'[p] = x
      /\ committing /\ outstanding = 0
      /\ \A q \in Procs : held[q] = NoBuf
      /\ CommitAlone' /\ CallsOK' /\ Reserved' = Reserved
      /\ \A q \in Procs \ {p} : pc'[q] = pc[q] /\ ~Committer(q)'
  BY <1>0, <1>8, CommitFrame
<1>10. TypeOK'
  BY <1>0, <1>1, <1>2, <1>3, <1>4, <1>8, <1>9 DEF TypeOK
<1>11. NoPanic' /\ BootOK' /\ LogSpace'
  BY <1>0, <1>1, <1>9 DEF NoPanic, BootOK, LogSpace
<1>12. HeadersOK' /\ CleanBuffersOK'
  BY <1>0, <1>1, <1>2, <1>4 DEF HeadersOK, CleanBuffersOK, Unheld
<1>13. HoldersOK'
  BY <1>0, <1>1, <1>4, <1>8, <1>9 DEF HoldersOK
<1>14. PhaseOK'
  <2>1. BeforeCommitPoint'
    BY <1>0, <1>2 DEF BeforeCommitPoint
  <2>2. CASE x = "write_log"
    <3>1. tail' \in 1..Len(lh') /\ Copied(tail - 1)'
      BY <1>0, <1>2, <1>3, <1>7, <1>8, <2>2 DEF Copied
    <3> QED  BY <1>0, <1>9, <2>1, <2>2, <3>1 DEF PhaseOK, Committer
  <2>3. CASE x = "write_head"
    <3>1. tail' = 1 /\ Len(lh') > 0 /\ Copied(Len(lh))'
      BY <1>0, <1>2, <1>3, <1>7, <1>8, <2>3 DEF Copied
    <3> QED  BY <1>0, <1>9, <2>1, <2>3, <3>1 DEF PhaseOK, Committer
  <2> QED  BY <2>2, <2>3
<1> QED
  BY <1>0, <1>1, <1>4, <1>9, <1>10, <1>11, <1>12, <1>13, <1>14 DEF LogInv, RunningOK

\* The commit point keeps the invariant: the header on disk now names log
\* blocks that hold the cached contents.
LEMMA WriteHeadStep ==
  ASSUME LogInv, NEW p \in Procs, write_head(p)
  PROVE  LogInv'
<1> USE LogAssumption
<1>0. /\ sys = "up" /\ pc[p] = "write_head" /\ Committer(p) /\ sys' = sys
      /\ head' = lh /\ pc' = [pc EXCEPT ![p] = "install"]
      /\ UNCHANGED <<home, logd, cache, pinned, lh, outstanding, committing, tail, held, wrote>>
  BY DEF write_head, Committer, bufs, logv
<1>1. /\ TypeOK /\ HeadersOK /\ CleanBuffersOK /\ CommitAlone /\ LogSpace
      /\ HoldersOK /\ CallsOK /\ PhaseOK
      /\ \A x \in Blocks : home[x] \in Vals
      /\ \A x \in pinned : cache[x] \in Vals
  BY <1>0, UpFacts
<1>2. pinned = Entries(lh) /\ tail = 1 /\ Len(lh) > 0 /\ Copied(Len(lh)) /\ Len(lh) \in Nat
  BY <1>0, <1>1 DEF PhaseOK, BeforeCommitPoint, TypeOK
<1>3. /\ pc' \in [Procs -> PCs] /\ pc'[p] = "install"
      /\ committing /\ outstanding = 0
      /\ \A q \in Procs : held[q] = NoBuf
      /\ CommitAlone' /\ CallsOK' /\ Reserved' = Reserved
      /\ \A q \in Procs \ {p} : pc'[q] = pc[q] /\ ~Committer(q)'
  BY <1>0, CommitFrame
<1>4. TypeOK' /\ NoPanic' /\ BootOK' /\ LogSpace'
  BY <1>0, <1>1, <1>3 DEF TypeOK, NoPanic, BootOK, LogSpace
<1>5. \A i \in 1..Len(lh) : logd[i] \in Vals
  BY <1>1, <1>2, EntriesType DEF Copied, TypeOK
<1>6. HeadersOK' /\ CleanBuffersOK'
  BY <1>0, <1>1, <1>5 DEF HeadersOK, CleanBuffersOK, Unheld
<1>7. HoldersOK'
  BY <1>0, <1>1, <1>3 DEF HoldersOK
<1>8. AfterCommitPoint(tail - 1)'
  BY <1>0, <1>2 DEF AfterCommitPoint, Installed, Entries, Copied
<1>9. PhaseOK'
  BY <1>0, <1>2, <1>3, <1>8 DEF PhaseOK, Committer
<1> QED  BY <1>0, <1>1, <1>3, <1>4, <1>6, <1>7, <1>9 DEF LogInv, RunningOK

\* Writing one block home keeps the invariant: it is unpinned exactly when
\* the disk has it.
LEMMA InstallTransStep ==
  ASSUME LogInv, NEW p \in Procs, install_trans(p)
  PROVE  LogInv'
<1> USE LogAssumption
<1> DEFINE b == lh[tail]
<1>0. /\ sys = "up" /\ pc[p] = "install" /\ Committer(p) /\ sys' = sys
      /\ home' = [home EXCEPT ![b] = logd[tail]]
      /\ cache' = [cache EXCEPT ![b] = logd[tail]]
      /\ pinned' = pinned \ {b}
      /\ UNCHANGED <<logd, head, lh, outstanding, committing, held, wrote>>
  BY DEF install_trans, InstallBlock, Committer
<1>1. /\ TypeOK /\ HeadersOK /\ CleanBuffersOK /\ CommitAlone /\ LogSpace
      /\ HoldersOK /\ CallsOK /\ PhaseOK
      /\ \A x \in Blocks : home[x] \in Vals
      /\ \A x \in pinned : cache[x] \in Vals
  BY <1>0, UpFacts
<1>2. tail \in 1..Len(lh) /\ AfterCommitPoint(tail - 1)
  BY <1>0, <1>1 DEF PhaseOK
<1>3. /\ b \in Blocks /\ tail \in 1..LOGSIZE /\ Len(lh) \in Nat /\ logd[tail] \in Vals
      /\ \A i \in 1..Len(lh) : lh[i] \in Blocks /\ (i # tail => lh[i] # b)
  BY <1>1, <1>2, EntriesType DEF TypeOK, HeadersOK, AfterCommitPoint, Injective
<1>4. \A y \in Blocks : /\ home'[y] = IF y = b THEN logd[tail] ELSE home[y]
                        /\ cache'[y] = IF y = b THEN logd[tail] ELSE cache[y]
  BY <1>0, <1>1 DEF TypeOK
<1> HIDE DEF b
<1>5. /\ \A i \in 1..tail : home'[lh[i]] = logd[i]
      /\ \A i \in (tail + 1)..Len(lh) : cache'[lh[i]] = logd[i]
  <2>1. \A i \in 1..tail : home'[lh[i]] = logd[i]
    BY <1>2, <1>3, <1>4 DEF AfterCommitPoint, Installed, b
  <2>2. \A i \in (tail + 1)..Len(lh) : cache'[lh[i]] = logd[i]
    BY <1>2, <1>3, <1>4 DEF AfterCommitPoint
  <2> QED  BY <2>1, <2>2
<1>6. pinned' = {lh[i] : i \in (tail + 1)..Len(lh)}
  <2>1. pinned = {lh[i] : i \in tail..Len(lh)}
    BY <1>2, <1>3 DEF AfterCommitPoint
  <2>2. ASSUME NEW y \in pinned' PROVE \E i \in (tail + 1)..Len(lh) : y = lh[i]
    <3>1. PICK i \in tail..Len(lh) : y = lh[i]
      BY <1>0, <2>1, <2>2
    <3>2. i # tail
      BY <1>0, <2>2, <3>1 DEF b
    <3> QED  BY <1>2, <3>1, <3>2
  <2>3. ASSUME NEW i \in (tail + 1)..Len(lh) PROVE lh[i] \in pinned'
    BY <1>0, <1>2, <1>3, <2>1
  <2> QED  BY <2>2, <2>3
<1>8. PICK x \in {"install", "clear_head"} :
        /\ pc' = [pc EXCEPT ![p] = x]
        /\ x = "install" => tail < Len(lh) /\ tail' = tail + 1
        /\ x = "clear_head" => tail = Len(lh) /\ tail' = 1
  <2>1. CASE tail < Len(lh)
    BY <1>0, <1>1, <2>1 DEF install_trans, TypeOK
  <2>2. CASE ~(tail < Len(lh))
    BY <1>2, <1>3, <2>2 DEF install_trans
  <2> QED  BY <2>1, <2>2
<1>9. /\ pc' \in [Procs -> PCs] /\ pc'[p] = x
      /\ committing /\ outstanding = 0
      /\ \A q \in Procs : held[q] = NoBuf
      /\ CommitAlone' /\ CallsOK' /\ Reserved' = Reserved
      /\ \A q \in Procs \ {p} : pc'[q] = pc[q] /\ ~Committer(q)'
  BY <1>0, <1>8, CommitFrame
<1>10. TypeOK'
  BY <1>0, <1>1, <1>2, <1>3, <1>8, <1>9 DEF TypeOK
<1>11. NoPanic' /\ BootOK' /\ LogSpace'
  BY <1>0, <1>1, <1>9 DEF NoPanic, BootOK, LogSpace
<1>12. HeadersOK'
  BY <1>0, <1>1, <1>3, <1>4 DEF HeadersOK
<1>13. CleanBuffersOK'
  BY <1>0, <1>1, <1>4, <1>9 DEF CleanBuffersOK, Unheld
<1>14. HoldersOK'
  BY <1>0, <1>1, <1>8, <1>9 DEF HoldersOK
<1>15. PhaseOK'
  <2>1. CASE x = "install"
    <3>1. tail' \in 1..Len(lh') /\ AfterCommitPoint(tail - 1)'
      BY <1>0, <1>2, <1>3, <1>5, <1>6, <1>8, <2>1 DEF AfterCommitPoint, Installed
    <3> QED  BY <1>0, <1>9, <2>1, <3>1 DEF PhaseOK, Committer
  <2>2. CASE x = "clear_head"
    <3>1. AfterCommitPoint(Len(lh))'
      BY <1>0, <1>2, <1>3, <1>5, <1>6, <1>8, <2>2 DEF AfterCommitPoint, Installed
    <3> QED  BY <1>0, <1>9, <2>2, <3>1 DEF PhaseOK, Committer
  <2> QED  BY <2>1, <2>2
<1>16. /\ \A y \in Blocks : home'[y] \in Vals
       /\ \A y \in pinned' : cache'[y] \in Vals
  <2>1. pinned \subseteq Blocks
    BY <1>1 DEF TypeOK
  <2> QED  BY <1>0, <1>1, <1>3, <1>4, <2>1
<1> QED
  BY <1>0, <1>1, <1>9, <1>10, <1>11, <1>12, <1>13, <1>14, <1>15, <1>16 DEF LogInv, RunningOK

\* Erasing the header keeps the invariant: every block it named is home.
LEMMA ClearHeadStep ==
  ASSUME LogInv, NEW p \in Procs, clear_head(p)
  PROVE  LogInv'
<1> USE LogAssumption
<1>0. /\ sys = "up" /\ pc[p] = "clear_head" /\ Committer(p) /\ sys' = sys
      /\ lh' = << >> /\ head' = << >> /\ pc' = [pc EXCEPT ![p] = "committed"]
      /\ UNCHANGED <<home, logd, cache, pinned, outstanding, committing, tail, held, wrote>>
  BY DEF clear_head, Committer, bufs
<1>1. /\ TypeOK /\ HeadersOK /\ CleanBuffersOK /\ CommitAlone /\ LogSpace
      /\ HoldersOK /\ CallsOK /\ PhaseOK
      /\ \A x \in Blocks : home[x] \in Vals
      /\ \A x \in pinned : cache[x] \in Vals
  BY <1>0, UpFacts
<1>2. pinned = {} /\ Len(lh) \in Nat
  BY <1>0, <1>1 DEF PhaseOK, AfterCommitPoint, TypeOK
<1>3. /\ pc' \in [Procs -> PCs] /\ pc'[p] = "committed"
      /\ committing /\ outstanding = 0
      /\ \A q \in Procs : held[q] = NoBuf
      /\ CommitAlone' /\ CallsOK' /\ Reserved' = Reserved
      /\ \A q \in Procs \ {p} : pc'[q] = pc[q] /\ ~Committer(q)'
  BY <1>0, CommitFrame
<1>4. /\ << >> \in Seq(Blocks) /\ Len(<< >>) = 0
  OBVIOUS
<1>5. TypeOK' /\ NoPanic' /\ BootOK'
  BY <1>0, <1>1, <1>3 DEF TypeOK, NoPanic, BootOK
<1>6. LogSpace'
  <2>1. Cardinality(Reserved) \in Nat
    BY Counting, ReservedType
  <2> QED  BY <1>0, <1>1, <1>2, <1>3, <1>4, <2>1 DEF LogSpace
<1>7. HeadersOK' /\ CleanBuffersOK'
  BY <1>0, <1>1 DEF HeadersOK, CleanBuffersOK, Unheld, Injective
<1>8. HoldersOK'
  BY <1>0, <1>1, <1>3 DEF HoldersOK
<1>9. PhaseOK'
  <2>1. Entries(<< >>) = {}
    BY <1>4, EntriesType
  <2> QED  BY <1>0, <1>2, <1>3, <2>1 DEF PhaseOK, Committer, BeforeCommitPoint
<1> QED  BY <1>0, <1>1, <1>3, <1>5, <1>6, <1>7, <1>8, <1>9 DEF LogInv, RunningOK

\* The end of end_op() keeps the invariant.
LEMMA EndCommitStep ==
  ASSUME LogInv, NEW p \in Procs, end_commit(p)
  PROVE  LogInv'
<1> USE LogAssumption
<1>0. /\ sys = "up" /\ pc[p] = "committed" /\ Committer(p) /\ sys' = sys
      /\ committing' = FALSE /\ pc' = Awake([pc EXCEPT ![p] = "idle"])
      /\ UNCHANGED <<home, logd, head, cache, pinned, lh, outstanding, tail, held, wrote>>
  BY DEF end_commit, Committer, disk, bufs
<1>1. /\ TypeOK /\ HeadersOK /\ CleanBuffersOK /\ CommitAlone /\ LogSpace
      /\ HoldersOK /\ CallsOK /\ PhaseOK
      /\ \A x \in Blocks : home[x] \in Vals
      /\ \A x \in pinned : cache[x] \in Vals
  BY <1>0, UpFacts
<1>2. /\ committing /\ \A q \in Procs : ~InCall(q)
      /\ \A q \in Procs \ {p} : ~Committer(q)
      /\ BeforeCommitPoint /\ lh = << >>
  BY <1>0, <1>1 DEF CommitAlone, PhaseOK
<1>3. pc' \in [Procs -> PCs] /\ \A q \in Procs : ~InCall(q)' /\ ~Committer(q)' /\ pc'[q] # "log_write"
  BY <1>0, <1>1, <1>2 DEF TypeOK, PCs, Awake, InCall, Committer
<1>4. TypeOK' /\ NoPanic' /\ BootOK' /\ HeadersOK' /\ CleanBuffersOK'
  BY <1>0, <1>1, <1>3 DEF TypeOK, NoPanic, BootOK, HeadersOK, CleanBuffersOK, Unheld
<1>5. Callers' = Callers /\ Reserved' = Reserved
  BY <1>2, <1>3 DEF Callers, Reserved
<1>6. CommitAlone' /\ LogSpace'
  BY <1>0, <1>1, <1>3, <1>5 DEF CommitAlone, LogSpace, Callers
<1>7. HoldersOK' /\ CallsOK'
  BY <1>0, <1>1, <1>2, <1>3 DEF HoldersOK, CallsOK, InCall
<1>8. PhaseOK'
  BY <1>0, <1>2, <1>3 DEF PhaseOK, Committer, BeforeCommitPoint
<1> QED  BY <1>0, <1>1, <1>4, <1>6, <1>7, <1>8 DEF LogInv, RunningOK

\* Filling and recycling clean buffers keeps the invariant.
LEMMA CacheStep ==
  ASSUME LogInv, NEW b \in Blocks, bread(b) \/ bget_recycle(b)
  PROVE  LogInv'
<1> USE LogAssumption
<1>0. /\ sys = "up" /\ sys' = sys
      /\ UNCHANGED <<home, logd, head, pinned, lh, outstanding, committing, tail, pc, held, wrote>>
      /\ \E c \in {home[b], NoBuf} : cache' = [cache EXCEPT ![b] = c]
      /\ b \notin pinned /\ Unheld(b)
  <2>1. /\ TypeOK /\ HoldersOK /\ \A x \in pinned : cache[x] \in Vals
    BY UpFacts DEF bread, bget_recycle
  <2>2. cache[b] = NoBuf => b \notin pinned /\ Unheld(b)
    BY <2>1 DEF HoldersOK, Unheld, TypeOK
  <2> QED  BY <2>2 DEF bread, bget_recycle, disk, logv, prov, Unheld
<1>1. /\ TypeOK /\ HeadersOK /\ CleanBuffersOK /\ CommitAlone /\ LogSpace
      /\ HoldersOK /\ CallsOK /\ PhaseOK
      /\ \A x \in Blocks : home[x] \in Vals
      /\ \A x \in pinned : cache[x] \in Vals
  BY <1>0, UpFacts
<1>2. PICK c \in {home[b], NoBuf} : cache' = [cache EXCEPT ![b] = c]
  BY <1>0
<1>3. \A y \in Blocks : cache'[y] = IF y = b THEN c ELSE cache[y]
  BY <1>1, <1>2 DEF TypeOK
<1>4. TypeOK' /\ NoPanic' /\ BootOK' /\ HeadersOK'
  BY <1>0, <1>1, <1>2 DEF TypeOK, NoPanic, BootOK, HeadersOK
<1>5. CleanBuffersOK'
  BY <1>0, <1>1, <1>3 DEF CleanBuffersOK, Unheld
<1>6. CommitAlone' /\ LogSpace' /\ CallsOK'
  BY <1>0, <1>1 DEF CommitAlone, LogSpace, CallsOK, InCall, Committer, Reserved
<1>7. HoldersOK'
  BY <1>0, <1>1, <1>3 DEF HoldersOK, Unheld, TypeOK
<1>8. PhaseOK'
  <2>1. \A i \in 1..Len(lh) : lh[i] \in Blocks
    BY <1>1 DEF TypeOK
  <2>2. ASSUME NEW n \in Nat, Copied(n), n <= Len(lh), pinned = Entries(lh)
        PROVE  Copied(n)'
    <3>1. \A i \in 1..n : lh[i] \in Blocks /\ lh[i] # b
      BY <1>0, <1>1, <2>2, EntriesType DEF TypeOK
    <3> QED  BY <1>0, <1>3, <2>2, <3>1 DEF Copied
  <2>3. ASSUME NEW n \in Nat, AfterCommitPoint(n)
        PROVE  AfterCommitPoint(n)'
    <3>1. \A i \in (n + 1)..Len(lh) : lh[i] \in Blocks /\ lh[i] # b
      BY <1>0, <1>1, <2>1, <2>3 DEF AfterCommitPoint, TypeOK
    <3> QED  BY <1>0, <1>3, <2>3, <3>1 DEF AfterCommitPoint, Installed
  <2>4. BeforeCommitPoint' <=> BeforeCommitPoint
    BY <1>0 DEF BeforeCommitPoint
  <2>5. Len(lh) \in Nat /\ tail \in Nat
    BY <1>1 DEF TypeOK
  <2>6. \A q \in Procs : pc[q] = "write_log" => Copied(tail - 1)'
    BY <1>0, <1>1, <2>2, <2>5 DEF PhaseOK, BeforeCommitPoint, Copied
  <2>7. \A q \in Procs : pc[q] = "write_head" => Copied(Len(lh))'
    BY <1>0, <1>1, <2>2, <2>5 DEF PhaseOK, BeforeCommitPoint, Copied
  <2>8. \A q \in Procs : pc[q] = "install" => AfterCommitPoint(tail - 1)'
    BY <1>0, <1>1, <2>3, <2>5 DEF PhaseOK, AfterCommitPoint, Installed
  <2>9. \A q \in Procs : pc[q] = "clear_head" => AfterCommitPoint(Len(lh))'
    BY <1>0, <1>1, <2>3, <2>5 DEF PhaseOK, AfterCommitPoint, Installed
  <2> QED  BY <1>0, <1>1, <2>4, <2>6, <2>7, <2>8, <2>9 DEF PhaseOK
<1>9. \A y \in pinned' : cache'[y] \in Vals
  BY <1>0, <1>1, <1>3 DEF TypeOK
<1> QED  BY <1>0, <1>1, <1>4, <1>5, <1>6, <1>7, <1>8, <1>9 DEF LogInv, RunningOK

\* The facts about a machine that is booting.
LEMMA BootFacts ==
  ASSUME LogInv, sys # "up"
  PROVE  /\ TypeOK /\ HeadersOK /\ BootOK
         /\ \A p \in Procs : pc[p] = "idle" /\ held[p] = NoBuf /\ ~InCall(p) /\ ~Committer(p)
         /\ \A b \in Blocks : cache[b] # NoBuf => cache[b] = home[b]
         /\ pinned = {} /\ outstanding = 0 /\ ~committing /\ Callers = {} /\ Reserved = {}
<1>1. /\ TypeOK /\ HeadersOK /\ BootOK
      /\ \A p \in Procs : pc[p] = "idle" /\ held[p] = NoBuf
      /\ pinned = {} /\ outstanding = 0 /\ ~committing
  BY DEF LogInv, BootOK
<1>2. \A p \in Procs : ~InCall(p) /\ ~Committer(p)
  BY <1>1 DEF InCall, Committer
<1>3. Callers = {} /\ Reserved = {}
  BY <1>2 DEF Callers, Reserved
<1>4. \A b \in Blocks : Unheld(b)
  BY <1>1, LogAssumption DEF Unheld
<1> QED  BY <1>1, <1>2, <1>3, <1>4 DEF LogInv, CleanBuffersOK

\* A state in which no process is in the log and nothing is logged.
LEMMA QuietUp ==
  ASSUME TypeOK', \A p \in Procs : pc'[p] = "idle" /\ held'[p] = NoBuf,
         outstanding' = 0, ~committing', pinned' = {}, lh' = << >>, head' = << >>,
         \A b \in Blocks : home'[b] \in Vals
  PROVE  (CommitAlone /\ LogSpace /\ RunningOK)'
<1>1. \A p \in Procs : ~InCall(p)' /\ ~Committer(p)'
  BY DEF InCall, Committer
<1>2. {p \in Procs : InCall(p)'} = {} /\ Reserved' = {}
  BY <1>1 DEF Reserved
<1>3. CommitAlone'
  BY <1>1, <1>2, FS_EmptySet DEF CommitAlone
<1>4. LogSpace'
  <2>1. Cardinality(Reserved') = 0 /\ Len(lh') = 0
    BY <1>2, FS_EmptySet
  <2> QED  BY <2>1, LogAssumption DEF LogSpace
<1>5. HoldersOK' /\ CallsOK'
  BY <1>1 DEF HoldersOK, CallsOK
<1>6. PhaseOK'
  <2>1. Entries(lh') = {}
    BY EntriesType DEF TypeOK
  <2> QED  BY <2>1 DEF PhaseOK, BeforeCommitPoint
<1> QED  BY <1>3, <1>4, <1>5, <1>6 DEF RunningOK

\* The steps of recover_from_log() keep the invariant.
LEMMA RecoverStep ==
  ASSUME LogInv, Recover
  PROVE  LogInv'
<1> USE LogAssumption
<1>0. /\ TypeOK /\ HeadersOK /\ BootOK
      /\ \A p \in Procs : pc[p] = "idle" /\ held[p] = NoBuf /\ ~InCall(p) /\ ~Committer(p)
      /\ \A b \in Blocks : cache[b] # NoBuf => cache[b] = home[b]
      /\ pinned = {} /\ outstanding = 0 /\ ~committing
  BY BootFacts DEF Recover, read_head, recover_install, recover_clear
<1>1. CASE read_head
  <2>1. /\ sys' = "recover" /\ lh' = head /\ tail' = 1
        /\ UNCHANGED <<home, logd, head, cache, pinned, outstanding, committing, pc, held, wrote>>
    BY <1>1 DEF read_head, disk, bufs, prov
  <2>2. TypeOK' /\ NoPanic' /\ HeadersOK'
    BY <1>0, <2>1 DEF TypeOK, NoPanic, HeadersOK
  <2>3. BootOK'
    <3>1. Len(head) \in Nat
      BY <1>0 DEF TypeOK
    <3> QED  BY <1>0, <2>1, <3>1 DEF BootOK, Installed
  <2>4. CleanBuffersOK' /\ CommitAlone' /\ LogSpace' /\ RunningOK'
    BY <1>0, <2>1 DEF CleanBuffersOK, CommitAlone, LogSpace, RunningOK
  <2> QED  BY <2>2, <2>3, <2>4 DEF LogInv
<1>2. CASE recover_install
  <2>1. /\ sys = "recover" /\ lh = head /\ tail \in 1..(Len(lh) + 1) /\ Installed(tail - 1)
        /\ UNCHANGED <<logd, head, lh, outstanding, committing, pc, held, wrote>>
        /\ Len(lh) \in Nat
    BY <1>0, <1>2 DEF recover_install, BootOK, prov, TypeOK
  <2>2. CASE tail <= Len(lh)
    <3> DEFINE b == lh[tail]
    <3>1. /\ home' = [home EXCEPT ![b] = logd[tail]]
          /\ cache' = [cache EXCEPT ![b] = logd[tail]]
          /\ pinned' = pinned \ {b} /\ tail' = tail + 1 /\ sys' = "recover"
      BY <1>2, <2>1, <2>2 DEF recover_install, InstallBlock
    <3>2. /\ tail \in 1..Len(lh) /\ tail \in 1..LOGSIZE /\ b \in Blocks /\ logd[tail] \in Vals
          /\ \A i \in 1..Len(lh) : lh[i] \in Blocks /\ (i # tail => lh[i] # b)
      BY <1>0, <2>1, <2>2, EntriesType DEF TypeOK, HeadersOK, Injective
    <3>3. \A y \in Blocks : /\ home'[y] = IF y = b THEN logd[tail] ELSE home[y]
                            /\ cache'[y] = IF y = b THEN logd[tail] ELSE cache[y]
      BY <1>0, <3>1 DEF TypeOK
    <3>4. TypeOK'
      BY <1>0, <2>1, <3>1, <3>2 DEF TypeOK
    <3>5. NoPanic' /\ HeadersOK'
      BY <1>0, <2>1, <3>1, <3>2, <3>3 DEF NoPanic, HeadersOK
    <3>6. BootOK'
      <4>1. \A i \in 1..tail : home'[lh[i]] = logd[i]
        BY <2>1, <3>2, <3>3 DEF Installed
      <4> QED  BY <1>0, <2>1, <3>1, <3>2, <4>1 DEF BootOK, Installed
    <3>7. CleanBuffersOK' /\ CommitAlone' /\ LogSpace' /\ RunningOK'
      BY <1>0, <3>1, <3>3 DEF CleanBuffersOK, CommitAlone, LogSpace, RunningOK
    <3> QED  BY <3>4, <3>5, <3>6, <3>7 DEF LogInv
  <2>3. CASE ~(tail <= Len(lh))
    <3>1. sys' = "recovered" /\ UNCHANGED <<home, cache, pinned, tail>>
      BY <1>2, <2>1, <2>3 DEF recover_install, bufs
    <3>2. TypeOK' /\ NoPanic' /\ HeadersOK' /\ BootOK'
      BY <1>0, <2>1, <2>3, <3>1 DEF TypeOK, NoPanic, HeadersOK, BootOK, Installed
    <3>3. CleanBuffersOK' /\ CommitAlone' /\ LogSpace' /\ RunningOK'
      BY <1>0, <3>1 DEF CleanBuffersOK, CommitAlone, LogSpace, RunningOK
    <3> QED  BY <3>2, <3>3 DEF LogInv
  <2> QED  BY <2>2, <2>3
<1>3. CASE recover_clear
  <2>1. /\ sys = "recovered" /\ lh = head /\ Installed(Len(lh)) /\ Len(lh) \in Nat
        /\ sys' = "up" /\ lh' = << >> /\ head' = << >> /\ tail' = 1
        /\ UNCHANGED <<home, logd, cache, pinned, outstanding, committing, pc, held, wrote>>
    BY <1>0, <1>3 DEF recover_clear, BootOK, bufs, prov, TypeOK
  <2>2. \A b \in Blocks : home[b] \in Vals
    <3> SUFFICES ASSUME NEW b \in Blocks, b \in Entries(head) PROVE home[b] \in Vals
      BY <1>0 DEF HeadersOK
    <3>1. PICK i \in 1..Len(head) : b = head[i]
      BY DEF Entries
    <3> QED  BY <1>0, <2>1, <3>1 DEF HeadersOK, Installed
  <2>3. << >> \in Seq(Blocks) /\ Len(<< >>) = 0
    OBVIOUS
  <2>4. TypeOK' /\ NoPanic' /\ BootOK'
    BY <1>0, <2>1, <2>3 DEF TypeOK, NoPanic, BootOK
  <2>5. HeadersOK' /\ CleanBuffersOK'
    BY <1>0, <2>1, <2>2, <2>3 DEF HeadersOK, CleanBuffersOK, Injective
  <2>6. (CommitAlone /\ LogSpace /\ RunningOK)'
    BY <1>0, <2>1, <2>2, <2>4, QuietUp
  <2> QED  BY <2>4, <2>5, <2>6 DEF LogInv
<1> QED  BY <1>1, <1>2, <1>3 DEF Recover

\* A crash keeps the invariant: what it can tear is either a log block no
\* header names yet or a home block the header on disk still covers.
LEMMA CrashStep ==
  ASSUME LogInv, Crash
  PROVE  LogInv'
<1> USE LogAssumption
<1>0. /\ TornWrite /\ cache' = [b \in Blocks |-> NoBuf] /\ pinned' = {} /\ lh' = << >>
      /\ outstanding' = 0 /\ committing' = FALSE /\ tail' = 1
      /\ pc' = [p \in Procs |-> "idle"] /\ held' = [p \in Procs |-> NoBuf]
      /\ wrote' = [p \in Procs |-> {}] /\ sys' = "read_head" /\ head' = head
  BY DEF Crash
<1>1. TypeOK /\ HeadersOK
  BY DEF LogInv
<1>2. /\ home' \in [Blocks -> Vals \cup {Torn}] /\ logd' \in [1..LOGSIZE -> Vals \cup {Torn}]
      /\ \A i \in 1..Len(head) : logd'[i] \in Vals
      /\ \A b \in Blocks : b \notin Entries(head) => home'[b] \in Vals
  <2>1. CASE UNCHANGED <<home, logd>>
    BY <1>1, <2>1 DEF TypeOK, HeadersOK
  <2>2. ASSUME NEW p \in Procs, sys = "up", pc[p] = "write_log",
               logd' = [logd EXCEPT ![tail] = Torn], home' = home
        PROVE  <1>2!1 /\ <1>2!2 /\ <1>2!3
    <3>1. head = << >>
      BY <2>2, UpFacts DEF PhaseOK, BeforeCommitPoint
    <3>2. Len(head) = 0
      BY <3>1
    <3>3. logd' \in [1..LOGSIZE -> Vals \cup {Torn}]
      BY <1>1, <2>2 DEF TypeOK
    <3>4. \A i \in 1..Len(head) : logd'[i] \in Vals
      BY <3>2
    <3> QED  BY <1>1, <2>2, <3>3, <3>4 DEF TypeOK, HeadersOK
  <2>3. ASSUME lh = head, tail \in 1..Len(lh),
               home' = [home EXCEPT ![lh[tail]] = Torn], logd' = logd
        PROVE  <1>2!1 /\ <1>2!2 /\ <1>2!3
    <3>1. lh[tail] \in Blocks /\ lh[tail] \in Entries(head)
      BY <1>1, <2>3, EntriesType DEF TypeOK
    <3> QED  BY <1>1, <2>3, <3>1 DEF TypeOK, HeadersOK
  <2>4. sys = "recover" => lh = head
    BY BootFacts DEF BootOK
  <2>5. \A p \in Procs : sys = "up" /\ pc[p] = "install" => lh = head
    BY UpFacts DEF PhaseOK, AfterCommitPoint
  <2> QED  BY <1>0, <2>1, <2>2, <2>3, <2>4, <2>5 DEF TornWrite
<1>3. << >> \in Seq(Blocks) /\ Len(<< >>) = 0
  OBVIOUS
<1>4. TypeOK'
  <2>1. cache' \in [Blocks -> Vals \cup {Torn, NoBuf}] /\ pinned' \subseteq Blocks
    BY <1>0
  <2>2. pc' \in [Procs -> PCs] /\ held' \in [Procs -> Blocks \cup {NoBuf}]
    BY <1>0 DEF PCs
  <2>3. wrote' \in [Procs -> SUBSET Blocks]
    BY <1>0
  <2>4. committing' \in BOOLEAN
    BY <1>0, Zenon
  <2> QED  BY <1>0, <1>1, <1>2, <1>3, <2>1, <2>2, <2>3, <2>4 DEF TypeOK
<1>5. NoPanic' /\ HeadersOK'
  BY <1>0, <1>1, <1>2, <1>3 DEF NoPanic, HeadersOK, Injective
<1>6. BootOK'
  BY <1>0 DEF BootOK
<1>7. CleanBuffersOK' /\ CommitAlone' /\ LogSpace' /\ RunningOK'
  BY <1>0 DEF CleanBuffersOK, CommitAlone, LogSpace, RunningOK
<1> QED  BY <1>4, <1>5, <1>6, <1>7 DEF LogInv

\* The freshly made disk satisfies the invariant.
LEMMA InitInv == Init => LogInv
<1> SUFFICES ASSUME Init PROVE LogInv
  OBVIOUS
<1> USE LogAssumption
<1>1. << >> \in Seq(Blocks) /\ Len(<< >>) = 0
  OBVIOUS
<1>2. TypeOK
  <2>1. home \in [Blocks -> Vals \cup {Torn}] /\ logd \in [1..LOGSIZE -> Vals \cup {Torn}]
    BY DEF Init
  <2>2. cache \in [Blocks -> Vals \cup {Torn, NoBuf}] /\ pinned \subseteq Blocks
    BY DEF Init
  <2>3. pc \in [Procs -> PCs] /\ held \in [Procs -> Blocks \cup {NoBuf}]
    BY DEF Init, PCs
  <2>4. wrote \in [Procs -> SUBSET Blocks]
    BY DEF Init
  <2>5. committing \in BOOLEAN
    BY Zenon DEF Init
  <2> QED  BY <1>1, <2>1, <2>2, <2>3, <2>4, <2>5 DEF Init, TypeOK
<1>3. NoPanic /\ BootOK /\ CleanBuffersOK /\ CommitAlone /\ LogSpace /\ RunningOK
  BY DEF Init, NoPanic, BootOK, CleanBuffersOK, CommitAlone, LogSpace, RunningOK
<1>4. HeadersOK
  BY <1>1 DEF Init, HeadersOK, Injective
<1> QED  BY <1>2, <1>3, <1>4 DEF LogInv

\* A stuttering step keeps the invariant.
LEMMA StutterStep ==
  ASSUME LogInv, UNCHANGED vars
  PROVE  LogInv'
<1>1. UNCHANGED <<home, logd, head, cache, pinned, lh, outstanding, committing, tail, pc, held, wrote, sys>>
  BY DEF vars, disk, bufs, logv, prov
<1>2. TypeOK' /\ NoPanic' /\ HeadersOK' /\ BootOK'
  BY <1>1 DEF LogInv, TypeOK, NoPanic, HeadersOK, BootOK, Installed
<1>3. CleanBuffersOK' /\ CommitAlone' /\ LogSpace'
  BY <1>1 DEF LogInv, CleanBuffersOK, Unheld, CommitAlone, LogSpace, InCall, Committer, Reserved
<1>4. RunningOK'
  BY <1>1 DEF LogInv, RunningOK, HoldersOK, CallsOK, InCall, PhaseOK, BeforeCommitPoint,
              AfterCommitPoint, Copied, Installed
<1> QED  BY <1>2, <1>3, <1>4 DEF LogInv

\* Every step of log.c keeps the invariant.
LEMMA NextInv ==
  ASSUME EnoughSlack, LogInv, [Next]_vars
  PROVE  LogInv'
<1>1. ASSUME NEW p \in Procs, begin_op(p) \/ ProcStep(p) PROVE LogInv'
  BY <1>1, BeginOpStep, EndOpStep, LogWriteStep, WriteLogStep, WriteHeadStep,
     InstallTransStep, ClearHeadStep, EndCommitStep DEF ProcStep
<1>2. ASSUME NEW p \in Procs, NEW b \in Blocks, NEW v \in Vals, log_write_check(p, b, v)
      PROVE  LogInv'
  BY <1>2, LogWriteCheckStep
<1>3. ASSUME NEW b \in Blocks, bread(b) \/ bget_recycle(b) PROVE LogInv'
  BY <1>3, CacheStep
<1>4. CASE Recover
  BY <1>4, RecoverStep
<1>5. CASE Crash
  BY <1>5, CrashStep
<1>6. CASE UNCHANGED vars
  BY <1>6, StutterStep
<1> QED  BY <1>1, <1>2, <1>3, <1>4, <1>5, <1>6 DEF Next

\* With enough slack in the log geometry the inductive invariant holds of
\* every run of log.c, crashes and recoveries included.
THEOREM LogInvariant == ASSUME EnoughSlack PROVE Spec => []LogInv
<1>1. Init => LogInv
  BY InitInv
<1>2. LogInv /\ [Next]_vars => LogInv'
  BY NextInv
<1> QED  BY <1>1, <1>2, PTL DEF Spec

-----------------------------------------------------------------------------
(* What the invariant gives *)

\* The n-th entry of a header is found at n.
LEMMA PosOf ==
  ASSUME NEW s \in Seq(Blocks), Injective(s), NEW i \in 1..Len(s)
  PROVE  Pos(s, s[i]) = i
  BY DEF Pos, Injective

\* A block a header names is recovered from the log.
LEMMA RecoveredEntry ==
  ASSUME NEW m, NEW h \in Seq(Blocks), NEW l, Injective(h), NEW i \in 1..Len(h)
  PROVE  RecoveredFrom(m, h, l)[h[i]] = l[i]
<1>1. h[i] \in Blocks /\ h[i] \in Entries(h)
  BY EntriesType
<1>2. Pos(h, h[i]) = i
  BY PosOf
<1> QED  BY <1>1, <1>2 DEF RecoveredFrom

\* What recovery makes of a disk, block by block.
LEMMA RecoveredAt ==
  ASSUME NEW m, NEW h \in Seq(Blocks), NEW l, Injective(h)
  PROVE  /\ RecoveredFrom(m, h, l) = [b \in Blocks |-> RecoveredFrom(m, h, l)[b]]
         /\ \A i \in 1..Len(h) : RecoveredFrom(m, h, l)[h[i]] = l[i]
         /\ \A b \in Blocks : b \notin Entries(h) => RecoveredFrom(m, h, l)[b] = m[b]
<1>1. RecoveredFrom(m, h, l) = [b \in Blocks |-> RecoveredFrom(m, h, l)[b]]
  BY DEF RecoveredFrom
<1>2. \A b \in Blocks : b \notin Entries(h) => RecoveredFrom(m, h, l)[b] = m[b]
  BY DEF RecoveredFrom
<1>3. \A i \in 1..Len(h) : RecoveredFrom(m, h, l)[h[i]] = l[i]
  BY RecoveredEntry
<1> QED  BY <1>1, <1>2, <1>3

\* An empty header recovers the home blocks as they are.
LEMMA RecoveredEmpty ==
  ASSUME NEW l, NEW V, NEW m \in [Blocks -> V]
  PROVE  RecoveredFrom(m, << >>, l) = m
<1>1. << >> \in Seq(Blocks)
  OBVIOUS
<1>2. Entries(<< >>) = {}
  BY <1>1, EntriesType
<1> QED  BY <1>2 DEF RecoveredFrom

\* Recovery builds whole blocks from every disk log.c can leave behind.
LEMMA WholeBlocks == ASSUME LogInv PROVE NothingTorn
<1>1. head \in Seq(Blocks) /\ HeadersOK
  BY DEF LogInv, TypeOK
<1> SUFFICES ASSUME NEW b \in Blocks PROVE Recovered[b] \in Vals
  BY DEF NothingTorn
<1>2. CASE b \in Entries(head)
  <2>1. PICK i \in 1..Len(head) : b = head[i]
    BY <1>2 DEF Entries
  <2> QED  BY <1>1, <2>1, RecoveredAt DEF HeadersOK, Recovered
<1>3. CASE b \notin Entries(head)
  BY <1>1, <1>3, RecoveredAt DEF HeadersOK, Recovered
<1> QED  BY <1>2, <1>3

\* With enough slack, log_write() and end_op() never panic, whatever the
\* processes, blocks and interleaving.
THEOREM LogNeverPanics == ASSUME EnoughSlack PROVE Spec => []NoPanic
<1>1. LogInv => NoPanic
  BY DEF LogInv
<1> QED  BY <1>1, LogInvariant, PTL

\* With enough slack, the entries used and reserved always fit the log.
THEOREM LogSpaceHolds == ASSUME EnoughSlack PROVE Spec => []LogSpace
<1>1. LogInv => LogSpace
  BY DEF LogInv
<1> QED  BY <1>1, LogInvariant, PTL

\* At most one process commits, and only while no call is active.
THEOREM CommitsAlone == ASSUME EnoughSlack PROVE Spec => []CommitAlone
<1>1. LogInv => CommitAlone
  BY DEF LogInv
<1> QED  BY <1>1, LogInvariant, PTL

\* A block that differs from the disk stays in the cache until it is home.
THEOREM PinningHolds == ASSUME EnoughSlack PROVE Spec => []PinnedUntilHome
<1>1. LogInv => PinnedUntilHome
  BY DEF LogInv, CleanBuffersOK, PinnedUntilHome, Unheld
<1> QED  BY <1>1, LogInvariant, PTL

\* No crash, of the system or of its recovery, leaves a torn block behind.
THEOREM RecoversWholeBlocks == ASSUME EnoughSlack PROVE Spec => []NothingTorn
<1>1. LogInv => NothingTorn
  BY WholeBlocks
<1> QED  BY <1>1, LogInvariant, PTL

-----------------------------------------------------------------------------
(* The refinement of Journal: every step of Log is, through View, Recovered *)
(* and the set of running calls, a step of Journal or none at all.          *)


\* A cached block that is neither pinned nor held is read from the disk.
LEMMA CleanRead ==
  ASSUME LogInv, NEW b \in Blocks, b \notin pinned, Unheld(b)
  PROVE  Bread(b) = home[b]
  BY DEF LogInv, CleanBuffersOK, Bread

\* In a running system with an empty header on disk, a crash leaves the home
\* blocks.
LEMMA RecoveredHome ==
  ASSUME LogInv, head = << >>
  PROVE  Recovered = home
<1>1. home \in [Blocks -> Vals \cup {Torn}]
  BY DEF LogInv, TypeOK
<1> QED  BY <1>1, RecoveredEmpty DEF Recovered

\* A step that changes neither the disk, nor the contents read, nor who is
\* in a call, is no step of the atomic disk.
LEMMA StutterMap ==
  ASSUME View' = View, Recovered' = Recovered,
         \A p \in Procs : InCall(p)' <=> InCall(p)
  PROVE  UNCHANGED J!jvars
<1>1. {p \in Procs : InCall(p)}' = {p \in Procs : InCall(p)}
  OBVIOUS
<1> QED  BY <1>1 DEF J!jvars

\* begin_op() is a stutter while it sleeps and Begin when it enters.
LEMMA BeginOpMap ==
  ASSUME LogInv, NEW p \in Procs, begin_op(p)
  PROVE  [J!JNext]_(J!jvars)
<1>0. /\ sys = "up" /\ pc[p] \in {"idle", "begin"} /\ ~InCall(p)
      /\ UNCHANGED <<home, logd, head, cache, lh, sys>>
  BY DEF begin_op, disk, bufs, InCall
<1>1. View' = View /\ Recovered' = Recovered
  BY <1>0 DEF View, Bread, Recovered
<1>2. pc \in [Procs -> PCs]
  BY DEF LogInv, TypeOK
<1>3. CASE MustWait
  <2>1. pc' = [pc EXCEPT ![p] = "asleep"]
    BY <1>3 DEF begin_op
  <2>2. \A q \in Procs : InCall(q)' <=> InCall(q)
    BY <1>0, <1>2, <2>1 DEF InCall
  <2> QED  BY <1>1, <2>2, StutterMap
<1>4. CASE ~MustWait
  <2>1. pc' = [pc EXCEPT ![p] = "op"] /\ ~committing
    BY <1>4 DEF begin_op, MustWait
  <2>2. {q \in Procs : InCall(q)}' = {q \in Procs : InCall(q)} \cup {p}
    BY <1>0, <1>2, <2>1 DEF InCall
  <2>3. {q \in Procs : InCall(q)} # {} \/ View = Recovered
    <3> SUFFICES ASSUME Callers = {} PROVE View = Recovered
      BY DEF Callers
    <3>1. outstanding = 0 /\ \A q \in Procs : ~InCall(q)
      BY <1>0, UpFacts, FS_EmptySet DEF CommitAlone, Callers
    <3>2. lh = << >> /\ head = << >> /\ pinned = Entries(lh) /\ lh \in Seq(Blocks)
      BY <1>0, <2>1, <3>1, UpFacts DEF PhaseOK, BeforeCommitPoint, TypeOK
    <3>3. pinned = {}
      BY <3>2, EntriesType
    <3>4. \A b \in Blocks : Unheld(b)
      BY <1>0, <3>1, UpFacts, LogAssumption DEF HoldersOK, Unheld, InCall
    <3>5. \A b \in Blocks : Bread(b) = home[b]
      BY <3>3, <3>4, CleanRead
    <3>6. View = [b \in Blocks |-> home[b]]
      BY <1>0, <3>5 DEF View
    <3>7. home = [b \in Blocks |-> home[b]]
      BY DEF LogInv, TypeOK
    <3> QED  BY <3>2, <3>6, <3>7, RecoveredHome
  <2>4. J!JBegin(p)
    BY <1>0, <1>1, <2>2, <2>3 DEF J!JBegin
  <2> QED  BY <2>4 DEF J!JNext
<1> QED  BY <1>3, <1>4

\* Changing a buffer inside a call is Write.
LEMMA LogWriteCheckMap ==
  ASSUME LogInv, EnoughSlack, NEW p \in Procs, NEW b \in Blocks, NEW v \in Vals,
         log_write_check(p, b, v)
  PROVE  [J!JNext]_(J!jvars)
<1>0. /\ sys = "up" /\ pc[p] = "op" /\ InCall(p)
      /\ cache' = [cache EXCEPT ![b] = v]
      /\ UNCHANGED <<home, logd, head, lh>>
  BY DEF log_write_check, disk, logv, InCall
<1>1. Recovered' = Recovered
  BY <1>0 DEF Recovered
<1>2. TypeOK
  BY DEF LogInv
<1>3. pc' = [pc EXCEPT ![p] = "log_write"] /\ sys' = sys
  <2>1. Len(lh) < LOGSIZE /\ Len(lh) < NLOG - 1 /\ outstanding >= 1
    BY <1>0, LogNotFull
  <2>2. Len(lh) \in Nat /\ outstanding \in Int
    BY <1>2 DEF TypeOK
  <2>3. ~(Len(lh) >= LOGSIZE \/ Len(lh) >= NLOG - 1 \/ outstanding < 1)
    BY <2>1, <2>2, LogAssumption
  <2> QED  BY <2>3 DEF log_write_check
<1>4. {q \in Procs : InCall(q)}' = {q \in Procs : InCall(q)}
  BY <1>0, <1>2, <1>3 DEF TypeOK, InCall
<1>5. \A x \in Blocks : Bread(x)' = IF x = b THEN v ELSE Bread(x)
  BY <1>0, <1>2, LogAssumption DEF Bread, TypeOK
<1>6. View = [x \in Blocks |-> Bread(x)] /\ View' = [x \in Blocks |-> Bread(x)']
  BY <1>0, <1>3 DEF View
<1>7. View' = [View EXCEPT ![b] = v]
  BY <1>5, <1>6
<1>8. J!JWrite(p, b, v)
  BY <1>0, <1>1, <1>4, <1>7 DEF J!JWrite
<1> QED  BY <1>8 DEF J!JNext

\* The locked part of log_write() is a stutter.
LEMMA LogWriteMap ==
  ASSUME LogInv, NEW p \in Procs, log_write(p)
  PROVE  [J!JNext]_(J!jvars)
<1>0. /\ pc[p] = "log_write" /\ pc' = [pc EXCEPT ![p] = "op"]
      /\ UNCHANGED <<home, logd, head, cache, sys>>
  BY DEF log_write, disk
<1>1. View' = View /\ Recovered' = Recovered
  BY <1>0 DEF View, Bread, Recovered
<1>2. \A q \in Procs : InCall(q)' <=> InCall(q)
  BY <1>0 DEF LogInv, TypeOK, InCall
<1> QED  BY <1>1, <1>2, StutterMap

\* end_op() is End.
LEMMA EndOpMap ==
  ASSUME LogInv, NEW p \in Procs, end_op(p)
  PROVE  [J!JNext]_(J!jvars)
<1>0. /\ sys = "up" /\ pc[p] = "op" /\ InCall(p)
      /\ UNCHANGED <<home, logd, head, cache>>
  BY DEF end_op, disk, bufs, InCall
<1>1. /\ sys' = sys
      /\ \/ pc' = [pc EXCEPT ![p] = CommitStart]
         \/ pc' = Awake([pc EXCEPT ![p] = "idle"])
  BY <1>0, CallNoCommit DEF end_op
<1>2. View' = View /\ Recovered' = Recovered
  BY <1>0, <1>1 DEF View, Bread, Recovered
<1>3. {q \in Procs : InCall(q)}' = {q \in Procs : InCall(q)} \ {p}
  BY <1>0, <1>1 DEF LogInv, TypeOK, InCall, Awake, CommitStart
<1>4. J!JEnd(p)
  BY <1>0, <1>2, <1>3 DEF J!JEnd
<1> QED  BY <1>4 DEF J!JNext

\* A commit step moves the committer among the phases of commit(); no call
\* is active before or after it.
LEMMA CommitNoCalls ==
  ASSUME LogInv, NEW p \in Procs, sys = "up", Committer(p),
         NEW x \in {"write_log", "write_head", "install", "clear_head", "committed", "idle"},
         pc' = [pc EXCEPT ![p] = x] \/ pc' = Awake([pc EXCEPT ![p] = x])
  PROVE  /\ \A q \in Procs : ~InCall(q) /\ ~InCall(q)'
         /\ \A b \in Blocks : Unheld(b)
<1>1. TypeOK /\ HoldersOK /\ \A q \in Procs : ~InCall(q)
  BY UpFacts DEF CommitAlone
<1>2. \A q \in Procs : ~InCall(q)'
  BY <1>1 DEF TypeOK, InCall, Awake
<1>3. \A b \in Blocks : Unheld(b)
  BY <1>1, LogAssumption DEF HoldersOK, InCall, Unheld
<1> QED  BY <1>1, <1>2, <1>3

\* Copying blocks to the log area is a stutter: no header names them yet.
LEMMA WriteLogMap ==
  ASSUME LogInv, NEW p \in Procs, write_log(p)
  PROVE  [J!JNext]_(J!jvars)
<1> DEFINE b == lh[tail]
<1>0. /\ sys = "up" /\ pc[p] = "write_log" /\ Committer(p) /\ sys' = sys
      /\ cache' = [cache EXCEPT ![b] = Bread(b)]
      /\ UNCHANGED <<home, head>>
      /\ pc' = [pc EXCEPT ![p] = "write_log"] \/ pc' = [pc EXCEPT ![p] = "write_head"]
  <2>1. pc = [pc EXCEPT ![p] = pc[p]]
    BY DEF LogInv, TypeOK
  <2> QED  BY <2>1 DEF write_log, Committer
<1>1. TypeOK /\ head = << >>
  BY <1>0, UpFacts DEF PhaseOK, BeforeCommitPoint
<1>2. home' = home /\ head' = << >> /\ home \in [Blocks -> Vals \cup {Torn}]
  BY <1>0, <1>1 DEF TypeOK
<1>3. Recovered' = Recovered
  <2>1. RecoveredFrom(home', head', logd') = home /\ RecoveredFrom(home, head, logd) = home
    BY <1>1, <1>2, RecoveredEmpty
  <2> QED  BY <2>1 DEF Recovered
<1>4. \A x \in Blocks : Bread(x)' = Bread(x)
  BY <1>0, <1>1 DEF Bread, TypeOK
<1>5. View' = View
  BY <1>0, <1>4 DEF View
<1>6. \A q \in Procs : InCall(q)' <=> InCall(q)
  BY <1>0, CommitNoCalls
<1> QED  BY <1>3, <1>5, <1>6, StutterMap

\* Writing the header is Commit: every block the running system reads is now
\* what a crash would leave.
LEMMA WriteHeadMap ==
  ASSUME LogInv, NEW p \in Procs, write_head(p)
  PROVE  [J!JNext]_(J!jvars)
<1>0. /\ sys = "up" /\ pc[p] = "write_head" /\ Committer(p) /\ sys' = sys
      /\ head' = lh /\ pc' = [pc EXCEPT ![p] = "install"]
      /\ UNCHANGED <<home, logd, cache>>
  BY DEF write_head, Committer, bufs
<1>1. TypeOK /\ HeadersOK /\ BeforeCommitPoint /\ Copied(Len(lh)) /\ \A y \in pinned : cache[y] \in Vals
  BY <1>0, UpFacts DEF PhaseOK
<1>2. /\ \A q \in Procs : ~InCall(q) /\ ~InCall(q)'
      /\ \A b \in Blocks : Unheld(b)
  BY <1>0, CommitNoCalls
<1>3. View' = View /\ View = [b \in Blocks |-> Bread(b)]
  BY <1>0 DEF View, Bread
<1>4. Recovered' = RecoveredFrom(home, lh, logd)
  BY <1>0 DEF Recovered
<1>5. ASSUME NEW b \in Blocks PROVE RecoveredFrom(home, lh, logd)[b] = Bread(b)
  <2>1. CASE b \in Entries(lh)
    <3>1. PICK i \in 1..Len(lh) : b = lh[i]
      BY <2>1 DEF Entries
    <3>2. RecoveredFrom(home, lh, logd)[b] = cache[b]
      <4>1. lh \in Seq(Blocks) /\ Injective(lh) /\ i \in 1..Len(lh)
        BY <1>1, <3>1 DEF TypeOK, HeadersOK
      <4>2. RecoveredFrom(home, lh, logd)[lh[i]] = logd[i]
        BY <4>1, RecoveredEntry
      <4> QED  BY <1>1, <3>1, <4>2 DEF Copied
    <3>3. cache[b] \in Vals
      BY <1>1, <2>1 DEF BeforeCommitPoint
    <3> QED  BY <3>2, <3>3, LogAssumption DEF Bread
  <2>2. CASE b \notin Entries(lh)
    <3>1. RecoveredFrom(home, lh, logd)[b] = home[b]
      BY <1>1, <2>2, RecoveredAt DEF TypeOK, HeadersOK
    <3> QED  BY <1>1, <1>2, <2>2, <3>1, CleanRead DEF BeforeCommitPoint
  <2> QED  BY <2>1, <2>2
<1>6. RecoveredFrom(home, lh, logd) = [b \in Blocks |-> RecoveredFrom(home, lh, logd)[b]]
  BY <1>1, RecoveredAt DEF TypeOK, HeadersOK
<1>7. Recovered' = View
  BY <1>3, <1>4, <1>5, <1>6
<1>8. J!JCommit
  BY <1>2, <1>3, <1>7 DEF J!JCommit
<1> QED  BY <1>8 DEF J!JNext

\* Writing a block home is a stutter: the header still covers it.
LEMMA InstallMap ==
  ASSUME LogInv, tail \in 1..Len(lh), lh = head, InstallBlock, UNCHANGED <<head, logd>>
  PROVE  Recovered' = Recovered
<1>1. TypeOK /\ HeadersOK
  BY DEF LogInv
<1>2. lh[tail] \in Blocks /\ lh[tail] \in Entries(head)
  BY <1>1, EntriesType DEF TypeOK
<1>3. \A b \in Blocks : b \notin Entries(head) => home'[b] = home[b]
  BY <1>1, <1>2 DEF InstallBlock, TypeOK
<1>4. RecoveredFrom(home', head, logd) = RecoveredFrom(home, head, logd)
  BY <1>3 DEF RecoveredFrom
<1> QED  BY <1>4 DEF Recovered

\* The install step of commit() is a stutter.
LEMMA InstallTransMap ==
  ASSUME LogInv, NEW p \in Procs, install_trans(p)
  PROVE  [J!JNext]_(J!jvars)
<1> DEFINE b == lh[tail]
<1>0. /\ sys = "up" /\ pc[p] = "install" /\ Committer(p) /\ sys' = sys
      /\ InstallBlock /\ UNCHANGED <<logd, head, lh>>
      /\ pc' = [pc EXCEPT ![p] = "install"] \/ pc' = [pc EXCEPT ![p] = "clear_head"]
  <2>1. pc = [pc EXCEPT ![p] = pc[p]]
    BY DEF LogInv, TypeOK
  <2> QED  BY <2>1 DEF install_trans, Committer
<1>1. TypeOK /\ HeadersOK /\ tail \in 1..Len(lh) /\ AfterCommitPoint(tail - 1)
  BY <1>0, UpFacts DEF PhaseOK
<1>2. Recovered' = Recovered
  BY <1>0, <1>1, InstallMap DEF AfterCommitPoint
<1>3. b \in Blocks /\ logd[tail] \in Vals /\ cache[b] = logd[tail]
  BY <1>1, EntriesType DEF TypeOK, HeadersOK, AfterCommitPoint
<1>4. \A x \in Blocks : Bread(x)' = Bread(x)
  BY <1>0, <1>1, <1>3, LogAssumption DEF Bread, InstallBlock, TypeOK
<1>5. View' = View
  BY <1>0, <1>4 DEF View
<1>6. \A q \in Procs : InCall(q)' <=> InCall(q)
  BY <1>0, CommitNoCalls
<1> QED  BY <1>2, <1>5, <1>6, StutterMap

\* When every block a header names is home, erasing the header changes
\* nothing that a crash could show.
LEMMA EraseMap ==
  ASSUME LogInv, lh = head, Installed(Len(lh)), head' = << >>, UNCHANGED home
  PROVE  Recovered' = Recovered /\ Recovered = home
<1>1. TypeOK /\ HeadersOK
  BY DEF LogInv
<1>2. ASSUME NEW b \in Blocks PROVE RecoveredFrom(home, head, logd)[b] = home[b]
  <2>1. CASE b \in Entries(head)
    <3>1. PICK i \in 1..Len(head) : b = head[i]
      BY <2>1 DEF Entries
    <3>2. head \in Seq(Blocks) /\ Injective(head)
      BY <1>1 DEF TypeOK, HeadersOK
    <3>3. RecoveredFrom(home, head, logd)[head[i]] = logd[i]
      BY <3>1, <3>2, RecoveredEntry
    <3> QED  BY <3>1, <3>3 DEF Installed
  <2>2. CASE b \notin Entries(head)
    BY <1>1, <2>2, RecoveredAt DEF TypeOK, HeadersOK
  <2> QED  BY <2>1, <2>2
<1>3. RecoveredFrom(home, head, logd) = [b \in Blocks |-> RecoveredFrom(home, head, logd)[b]]
  BY <1>1, RecoveredAt DEF TypeOK, HeadersOK
<1>4. home = [b \in Blocks |-> home[b]] /\ home \in [Blocks -> Vals \cup {Torn}]
  BY <1>1 DEF TypeOK
<1>5. RecoveredFrom(home, head, logd) = home
  BY <1>2, <1>3, <1>4
<1>6. RecoveredFrom(home, << >>, logd') = home
  BY <1>4, RecoveredEmpty
<1> QED  BY <1>5, <1>6 DEF Recovered

\* Erasing the header, and the end of end_op(), are stutters.
LEMMA FinishMap ==
  ASSUME LogInv, NEW p \in Procs, clear_head(p) \/ end_commit(p)
  PROVE  [J!JNext]_(J!jvars)
<1>1. CASE clear_head(p)
  <2>0. /\ sys = "up" /\ pc[p] = "clear_head" /\ Committer(p) /\ sys' = sys
        /\ head' = << >> /\ pc' = [pc EXCEPT ![p] = "committed"]
        /\ UNCHANGED <<home, logd, cache>>
    BY <1>1 DEF clear_head, Committer, bufs
  <2>1. lh = head /\ Installed(Len(lh))
    BY <2>0, UpFacts DEF PhaseOK, AfterCommitPoint
  <2>2. Recovered' = Recovered
    BY <2>0, <2>1, EraseMap
  <2>3. View' = View
    BY <2>0 DEF View, Bread
  <2>4. \A q \in Procs : InCall(q)' <=> InCall(q)
    BY <2>0, CommitNoCalls
  <2> QED  BY <2>2, <2>3, <2>4, StutterMap
<1>2. CASE end_commit(p)
  <2>0. /\ sys = "up" /\ pc[p] = "committed" /\ Committer(p) /\ sys' = sys
        /\ pc' = Awake([pc EXCEPT ![p] = "idle"])
        /\ UNCHANGED <<home, logd, head, cache>>
    BY <1>2 DEF end_commit, Committer, disk, bufs
  <2>1. View' = View /\ Recovered' = Recovered
    BY <2>0 DEF View, Bread, Recovered
  <2>2. \A q \in Procs : InCall(q)' <=> InCall(q)
    BY <2>0, CommitNoCalls
  <2> QED  BY <2>1, <2>2, StutterMap
<1> QED  BY <1>1, <1>2

\* Filling and recycling clean buffers are stutters.
LEMMA CacheMap ==
  ASSUME LogInv, NEW b \in Blocks, bread(b) \/ bget_recycle(b)
  PROVE  [J!JNext]_(J!jvars)
<1>0. /\ sys = "up" /\ sys' = sys /\ UNCHANGED <<home, logd, head, pc>>
      /\ \E c \in {home[b], NoBuf} : cache' = [cache EXCEPT ![b] = c]
      /\ cache[b] = NoBuf \/ (b \notin pinned /\ Unheld(b))
  BY DEF bread, bget_recycle, disk, prov, Unheld
<1>1. TypeOK
  BY DEF LogInv
<1>2. Bread(b) = home[b]
  BY <1>0, CleanRead DEF Bread
<1>3. \A x \in Blocks : Bread(x)' = Bread(x)
  BY <1>0, <1>1, <1>2 DEF Bread, TypeOK
<1>4. View' = View /\ Recovered' = Recovered
  BY <1>0, <1>3 DEF View, Recovered
<1>5. \A q \in Procs : InCall(q)' <=> InCall(q)
  BY <1>0 DEF InCall
<1> QED  BY <1>4, <1>5, StutterMap

\* The whole recovery is a stutter.
LEMMA RecoverMap ==
  ASSUME LogInv, Recover
  PROVE  [J!JNext]_(J!jvars)
<1>0. /\ TypeOK /\ HeadersOK /\ BootOK
      /\ \A b \in Blocks : cache[b] # NoBuf => cache[b] = home[b]
      /\ sys \in {"read_head", "recover", "recovered"}
      /\ UNCHANGED pc
  BY BootFacts DEF Recover, read_head, recover_install, recover_clear, prov
<1>1. \A q \in Procs : InCall(q)' <=> InCall(q)
  BY <1>0 DEF InCall
<1>2. View = Recovered
  BY <1>0 DEF View
<1>3. CASE read_head
  <2>1. sys' = "recover" /\ UNCHANGED <<home, logd, head>>
    BY <1>3 DEF read_head, disk
  <2>2. View' = View /\ Recovered' = Recovered
    BY <1>2, <2>1 DEF View, Recovered
  <2> QED  BY <1>1, <2>2, StutterMap
<1>4. CASE recover_install
  <2>1. /\ sys' \in {"recover", "recovered"} /\ UNCHANGED <<logd, head>>
        /\ lh = head /\ tail \in 1..(Len(lh) + 1) /\ Len(lh) \in Nat
    BY <1>0, <1>4 DEF recover_install, BootOK, TypeOK
  <2>2. CASE tail <= Len(lh)
    <3>1. InstallBlock /\ tail \in 1..Len(lh)
      BY <1>4, <2>1, <2>2 DEF recover_install
    <3>2. Recovered' = Recovered
      BY <2>1, <3>1, InstallMap
    <3>3. View' = Recovered'
      BY <2>1 DEF View
    <3> QED  BY <1>1, <1>2, <3>2, <3>3, StutterMap
  <2>3. CASE ~(tail <= Len(lh))
    <3>1. UNCHANGED home
      BY <1>4, <2>3 DEF recover_install
    <3>2. Recovered' = Recovered
      BY <2>1, <3>1 DEF Recovered
    <3>3. View' = Recovered'
      BY <2>1 DEF View
    <3> QED  BY <1>1, <1>2, <3>2, <3>3, StutterMap
  <2> QED  BY <2>2, <2>3
<1>5. CASE recover_clear
  <2>1. /\ sys' = "up" /\ head' = << >> /\ UNCHANGED <<home, logd, cache>>
        /\ lh = head /\ Installed(Len(lh))
    BY <1>0, <1>5 DEF recover_clear, BootOK, bufs
  <2>2. Recovered' = Recovered /\ Recovered = home
    BY <2>1, EraseMap
  <2>3. \A b \in Blocks : Bread(b)' = home[b]
    BY <1>0, <2>1 DEF Bread
  <2>4. home = [b \in Blocks |-> home[b]]
    BY <1>0 DEF TypeOK
  <2>5. View' = home
    BY <2>1, <2>3, <2>4 DEF View
  <2> QED  BY <1>1, <1>2, <2>2, <2>5, StutterMap
<1> QED  BY <1>3, <1>4, <1>5 DEF Recover

\* A crash is Crash.
LEMMA CrashMap ==
  ASSUME LogInv, Crash
  PROVE  [J!JNext]_(J!jvars)
<1>0. /\ TornWrite /\ head' = head /\ sys' = "read_head"
      /\ pc' = [p \in Procs |-> "idle"]
  BY DEF Crash
<1>1. TypeOK /\ HeadersOK
  BY DEF LogInv
<1>2. Recovered' = Recovered
  <2>1. CASE UNCHANGED <<home, logd>>
    BY <1>0, <2>1 DEF Recovered
  <2>2. ASSUME NEW p \in Procs, sys = "up", pc[p] = "write_log", home' = home
        PROVE  Recovered' = Recovered
    <3>1. head = << >> /\ home \in [Blocks -> Vals \cup {Torn}]
      BY <1>1, <2>2, UpFacts DEF PhaseOK, BeforeCommitPoint, TypeOK
    <3>2. RecoveredFrom(home, << >>, logd') = home /\ RecoveredFrom(home, << >>, logd) = home
      BY <3>1, RecoveredEmpty
    <3> QED  BY <1>0, <2>2, <3>1, <3>2 DEF Recovered
  <2>3. ASSUME lh = head, tail \in 1..Len(lh),
               home' = [home EXCEPT ![lh[tail]] = Torn], logd' = logd
        PROVE  Recovered' = Recovered
    <3>1. lh[tail] \in Blocks /\ lh[tail] \in Entries(head)
      BY <1>1, <2>3, EntriesType DEF TypeOK
    <3>2. \A b \in Blocks : b \notin Entries(head) => home'[b] = home[b]
      BY <1>1, <2>3, <3>1 DEF TypeOK
    <3>3. RecoveredFrom(home', head, logd) = RecoveredFrom(home, head, logd)
      BY <3>2 DEF RecoveredFrom
    <3> QED  BY <1>0, <2>3, <3>3 DEF Recovered
  <2>4. sys = "recover" => lh = head
    BY BootFacts DEF BootOK
  <2>5. \A p \in Procs : sys = "up" /\ pc[p] = "install" => lh = head
    BY UpFacts DEF PhaseOK, AfterCommitPoint
  <2> QED  BY <1>0, <2>1, <2>2, <2>3, <2>4, <2>5 DEF TornWrite
<1>3. View' = Recovered'
  BY <1>0 DEF View
<1>4. {p \in Procs : InCall(p)}' = {}
  BY <1>0 DEF InCall
<1>5. J!JCrash
  BY <1>2, <1>3, <1>4 DEF J!JCrash
<1> QED  BY <1>5 DEF J!JNext

\* A stuttering step of the log is a stuttering step of the atomic disk.
LEMMA UnchangedMap ==
  ASSUME UNCHANGED vars
  PROVE  UNCHANGED J!jvars
<1>1. UNCHANGED <<home, logd, head, cache, pc, sys>>
  BY DEF vars, disk, bufs, prov
<1>2. View' = View /\ Recovered' = Recovered
  BY <1>1 DEF View, Bread, Recovered
<1>3. \A q \in Procs : InCall(q)' <=> InCall(q)
  BY <1>1 DEF InCall
<1> QED  BY <1>2, <1>3, StutterMap

\* The initial states of the log are initial states of the atomic disk.
LEMMA InitMap == Init => J!JInit
<1> SUFFICES ASSUME Init PROVE J!JInit
  OBVIOUS
<1>1. home \in [Blocks -> Vals] /\ head = << >> /\ sys = "read_head"
  BY DEF Init
<1>2. Recovered = home
  BY <1>1, RecoveredEmpty DEF Recovered
<1>3. View = Recovered
  BY <1>1 DEF View
<1>4. {p \in Procs : InCall(p)} = {}
  BY DEF Init, InCall
<1> QED  BY <1>1, <1>2, <1>3, <1>4 DEF J!JInit

\* Every step of the log maps to a step of the atomic disk or to none.
LEMMA NextMap ==
  ASSUME EnoughSlack, LogInv, [Next]_vars
  PROVE  [J!JNext]_(J!jvars)
<1>1. ASSUME NEW p \in Procs, begin_op(p) \/ ProcStep(p) PROVE [J!JNext]_(J!jvars)
  BY <1>1, BeginOpMap, EndOpMap, LogWriteMap, WriteLogMap, WriteHeadMap,
     InstallTransMap, FinishMap DEF ProcStep
<1>2. ASSUME NEW p \in Procs, NEW b \in Blocks, NEW v \in Vals, log_write_check(p, b, v)
      PROVE  [J!JNext]_(J!jvars)
  BY <1>2, LogWriteCheckMap
<1>3. ASSUME NEW b \in Blocks, bread(b) \/ bget_recycle(b) PROVE [J!JNext]_(J!jvars)
  BY <1>3, CacheMap
<1>4. CASE Recover
  BY <1>4, RecoverMap
<1>5. CASE Crash
  BY <1>5, CrashMap
<1>6. CASE UNCHANGED vars
  BY <1>6, UnchangedMap
<1> QED  BY <1>1, <1>2, <1>3, <1>4, <1>5, <1>6 DEF Next

\* The log implements the atomic disk: with enough slack, every run of
\* log.c, with any crashes and recoveries, is a run of Journal.
THEOREM LogIsAtomic == ASSUME EnoughSlack PROVE Spec => AtomicDisk
<1>1. Init => J!JInit
  BY InitMap
<1>2. LogInv /\ [Next]_vars => [J!JNext]_(J!jvars)
  BY NextMap
<1> QED  BY <1>1, <1>2, LogInvariant, PTL DEF Spec, AtomicDisk, J!JSpec
=============================================================================
