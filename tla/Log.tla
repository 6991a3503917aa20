-------------------------------- MODULE Log --------------------------------
(***************************************************************************)
(* The write-ahead log of kernel/log.c together with what it needs of the  *)
(* buffer cache (kernel/bio.c): a block changed inside a transaction stays *)
(* pinned in the cache (B_DIRTY) until the commit has written it home.     *)
(*                                                                         *)
(* Processes run file-system calls begin_op(); log_write()*; end_op().     *)
(* The last call to end commits: write_log, write_head, install_trans,     *)
(* write_head.  The machine may crash between, and in the middle of, any   *)
(* two disk writes; the next boot runs recover_from_log.                   *)
(***************************************************************************)
EXTENDS Integers, Sequences, FiniteSets

CONSTANTS Procs,        \* processes that make file-system calls
          Blocks,       \* home blocks of the file system
          Vals,         \* contents of a block
          Torn,         \* contents of a block whose write a crash cut short
          NoBuf,        \* "not in the buffer cache" / "no buffer held"
          LOGSIZE,      \* entries of log.lh.block[] (param.h:14)
          MAXOPBLOCKS,  \* blocks begin_op() reserves for a call (param.h:13)
          NLOG,         \* log.size, blocks of the log area (mkfs.c:33)
          OpWrites      \* distinct blocks a call really writes at most

ASSUME LogAssumption ==
  /\ IsFiniteSet(Procs)
  /\ LOGSIZE \in Nat /\ MAXOPBLOCKS \in Nat /\ NLOG \in Nat /\ OpWrites \in Nat
  /\ Torn \notin Vals /\ NoBuf \notin Vals /\ Torn # NoBuf
  /\ NoBuf \notin Blocks

VARIABLES
  home,         \* on disk: the blocks at their home location
  logd,         \* on disk: the data blocks of the log area
  head,         \* on disk: the block numbers of the header block
  cache,        \* buffer cache: contents of every cached home block
  pinned,       \* buffer cache: blocks with B_DIRTY set
  lh,           \* log.lh, the header in memory
  outstanding,  \* log.outstanding
  committing,   \* log.committing
  tail,         \* loop variable of write_log / install_trans
  pc,           \* where each process is
  held,         \* buffer a process modifies between bread and log_write
  wrote,        \* distinct blocks the process has logged in this call
  sys           \* "up", "panic", or the step recover_from_log is at

disk == <<home, logd, head>>
bufs == <<cache, pinned>>
logv == <<lh, outstanding, committing, tail>>
prov == <<pc, held, wrote>>
vars == <<disk, bufs, logv, prov, sys>>

PCs == {"idle", "begin", "asleep", "op", "log_write",
        "write_log", "write_head", "install", "clear_head", "committed"}

TypeOK ==
  /\ home \in [Blocks -> Vals \cup {Torn}]
  /\ logd \in [1..LOGSIZE -> Vals \cup {Torn}]
  /\ head \in Seq(Blocks)
  /\ cache \in [Blocks -> Vals \cup {Torn, NoBuf}]
  /\ pinned \subseteq Blocks
  /\ lh \in Seq(Blocks)
  /\ outstanding \in Nat
  /\ committing \in BOOLEAN
  /\ tail \in Nat
  /\ pc \in [Procs -> PCs]
  /\ held \in [Procs -> Blocks \cup {NoBuf}]
  /\ wrote \in [Procs -> SUBSET Blocks]
  /\ sys \in {"up", "panic", "read_head", "recover", "recovered"}

Entries(s) == {s[i] : i \in 1..Len(s)}

InCall(p) == pc[p] \in {"op", "log_write"}
Committer(p) == pc[p] \in {"write_log", "write_head", "install", "clear_head", "committed"}

-----------------------------------------------------------------------------
(* The machine is switched on: memory is zeroed, disk is what mkfs made.   *)

Init ==
  /\ home \in [Blocks -> Vals]
  /\ logd \in [1..LOGSIZE -> {Torn}]
  /\ head = << >>
  /\ cache = [b \in Blocks |-> NoBuf]
  /\ pinned = {}
  /\ lh = << >>
  /\ outstanding = 0
  /\ committing = FALSE
  /\ tail = 1
  /\ pc = [p \in Procs |-> "idle"]
  /\ held = [p \in Procs |-> NoBuf]
  /\ wrote = [p \in Procs |-> {}]
  /\ sys = "read_head"

-----------------------------------------------------------------------------
(* Buffer cache *)

\* bread(): the cached contents, or the disk's when the block is not cached.
Bread(b) == IF cache[b] # NoBuf THEN cache[b] ELSE home[b]

\* A read outside any transaction (fileread, ilock, dirlookup) caches b.
bread(b) ==
  /\ sys = "up"
  /\ cache[b] = NoBuf
  /\ cache' = [cache EXCEPT ![b] = home[b]]
  /\ UNCHANGED <<disk, pinned, logv, prov, sys>>

\* Mutant of bget_recycle.
bget_recycleDirty(b) ==
  /\ sys = "up"
  /\ cache[b] # NoBuf
  /\ \A p \in Procs : held[p] # b
  /\ cache' = [cache EXCEPT ![b] = NoBuf]
  /\ UNCHANGED <<disk, pinned, logv, prov, sys>>

\* bget() recycles the buffer of b for some other block: refcnt is 0 and
\* B_DIRTY is clear.
bget_recycle(b) ==
  /\ sys = "up"
  /\ cache[b] # NoBuf
  /\ b \notin pinned
  /\ \A p \in Procs : held[p] # b
  /\ cache' = [cache EXCEPT ![b] = NoBuf]
  /\ UNCHANGED <<disk, pinned, logv, prov, sys>>

-----------------------------------------------------------------------------
(* begin_op *)

\* Mutant of MayExhaustLog.
MayExhaustLogOffByOne == Len(lh) + outstanding * MAXOPBLOCKS > LOGSIZE

\* Space a further call may need on top of the calls that are running.
MayExhaustLog == Len(lh) + (outstanding + 1) * MAXOPBLOCKS > LOGSIZE

MustWait == committing \/ MayExhaustLog

\* Mutant of begin_op.
begin_opNoCommitCheck(p) ==
  /\ sys = "up"
  /\ pc[p] \in {"idle", "begin"}
  /\ IF MayExhaustLog
     THEN /\ pc' = [pc EXCEPT ![p] = "asleep"]
          /\ UNCHANGED <<outstanding, wrote>>
     ELSE /\ outstanding' = outstanding + 1
          /\ pc' = [pc EXCEPT ![p] = "op"]
          /\ wrote' = [wrote EXCEPT ![p] = {}]
  /\ UNCHANGED <<disk, bufs, lh, committing, tail, held, sys>>

\* One turn of the loop in begin_op(), under log.lock: sleep on &log, which
\* releases the lock, or join the running calls.
begin_op(p) ==
  /\ sys = "up"
  /\ pc[p] \in {"idle", "begin"}
  /\ IF MustWait
     THEN /\ pc' = [pc EXCEPT ![p] = "asleep"]
          /\ UNCHANGED <<outstanding, wrote>>
     ELSE /\ outstanding' = outstanding + 1
          /\ pc' = [pc EXCEPT ![p] = "op"]
          /\ wrote' = [wrote EXCEPT ![p] = {}]
  /\ UNCHANGED <<disk, bufs, lh, committing, tail, held, sys>>

-----------------------------------------------------------------------------
(* log_write *)

\* The caller's bread(b) and change of b->data, with b's sleep lock held,
\* and log_write()'s two tests, which read log.lh.n without log.lock.
log_write_check(p, b, v) ==
  /\ sys = "up"
  /\ pc[p] = "op"
  /\ \A q \in Procs : held[q] # b
  /\ b \in wrote[p] \/ Cardinality(wrote[p]) < OpWrites
  /\ cache' = [cache EXCEPT ![b] = v]
  /\ IF Len(lh) >= LOGSIZE \/ Len(lh) >= NLOG - 1 \/ outstanding < 1
     THEN sys' = "panic" /\ UNCHANGED <<pc, held>>
     ELSE /\ pc' = [pc EXCEPT ![p] = "log_write"]
          /\ held' = [held EXCEPT ![p] = b]
          /\ UNCHANGED sys
  /\ UNCHANGED <<disk, pinned, logv, wrote>>

\* Mutant of log_write.
log_writeNoPin(p) ==
  /\ sys = "up"
  /\ pc[p] = "log_write"
  /\ lh' = IF held[p] \in Entries(lh) THEN lh ELSE Append(lh, held[p])
  /\ wrote' = [wrote EXCEPT ![p] = @ \cup {held[p]}]
  /\ held' = [held EXCEPT ![p] = NoBuf]
  /\ pc' = [pc EXCEPT ![p] = "op"]
  /\ UNCHANGED <<disk, cache, pinned, outstanding, committing, tail, sys>>

\* The rest of log_write() under log.lock (absorb or append, pin), and the
\* caller's brelse().
log_write(p) ==
  /\ sys = "up"
  /\ pc[p] = "log_write"
  /\ lh' = IF held[p] \in Entries(lh) THEN lh ELSE Append(lh, held[p])
  /\ pinned' = pinned \cup {held[p]}
  /\ wrote' = [wrote EXCEPT ![p] = @ \cup {held[p]}]
  /\ held' = [held EXCEPT ![p] = NoBuf]
  /\ pc' = [pc EXCEPT ![p] = "op"]
  /\ UNCHANGED <<disk, cache, outstanding, committing, tail, sys>>

-----------------------------------------------------------------------------
(* end_op and commit *)

\* wakeup(&log): every process asleep in begin_op() turns its loop again.
Awake(f) == [q \in Procs |-> IF f[q] = "asleep" THEN "begin" ELSE f[q]]

\* Mutant of CommitStart.
CommitStartHeadFirst == IF Len(lh) > 0 THEN "write_head" ELSE "committed"

\* commit() writes nothing when the transaction is empty.
CommitStart == IF Len(lh) > 0 THEN "write_log" ELSE "committed"

\* Mutant of end_op.
end_opEager(p) ==
  /\ sys = "up"
  /\ pc[p] = "op"
  /\ ~committing
  /\ outstanding' = outstanding - 1
  /\ committing' = TRUE
  /\ tail' = 1
  /\ pc' = [pc EXCEPT ![p] = CommitStart]
  /\ UNCHANGED <<disk, bufs, lh, held, wrote, sys>>

\* The locked part of end_op(): the last call out starts the commit, any
\* other wakes the calls that wait for log space.
end_op(p) ==
  /\ sys = "up"
  /\ pc[p] = "op"
  /\ outstanding' = outstanding - 1
  /\ IF committing
     THEN sys' = "panic" /\ UNCHANGED <<committing, pc, tail>>
     ELSE /\ IF outstanding' = 0
             THEN /\ committing' = TRUE
                  /\ pc' = [pc EXCEPT ![p] = CommitStart]
                  /\ tail' = 1
             ELSE /\ pc' = Awake([pc EXCEPT ![p] = "idle"])
                  /\ UNCHANGED <<committing, tail>>
          /\ UNCHANGED sys
  /\ UNCHANGED <<disk, bufs, lh, held, wrote>>

\* write_log(): one block from the cache to the log area, then the next.
write_log(p) ==
  /\ sys = "up"
  /\ pc[p] = "write_log"
  /\ cache' = [cache EXCEPT ![lh[tail]] = Bread(lh[tail])]
  /\ logd' = [logd EXCEPT ![tail] = Bread(lh[tail])]
  /\ IF tail < Len(lh)
     THEN tail' = tail + 1 /\ UNCHANGED pc
     ELSE tail' = 1 /\ pc' = [pc EXCEPT ![p] = "write_head"]
  /\ UNCHANGED <<home, head, pinned, lh, outstanding, committing, held, wrote, sys>>

\* write_head(): the header block reaches the disk, the commit point.
write_head(p) ==
  /\ sys = "up"
  /\ pc[p] = "write_head"
  /\ head' = lh
  /\ pc' = [pc EXCEPT ![p] = "install"]
  /\ UNCHANGED <<home, logd, bufs, logv, held, wrote, sys>>

\* The body of install_trans()'s loop: the log block is copied into the
\* cached home block and written home; bwrite() ends with B_DIRTY clear.
InstallBlock ==
  /\ home' = [home EXCEPT ![lh[tail]] = logd[tail]]
  /\ cache' = [cache EXCEPT ![lh[tail]] = logd[tail]]
  /\ pinned' = pinned \ {lh[tail]}

install_trans(p) ==
  /\ sys = "up"
  /\ pc[p] = "install"
  /\ InstallBlock
  /\ IF tail < Len(lh)
     THEN tail' = tail + 1 /\ UNCHANGED pc
     ELSE tail' = 1 /\ pc' = [pc EXCEPT ![p] = "clear_head"]
  /\ UNCHANGED <<logd, head, lh, outstanding, committing, held, wrote, sys>>

\* Mutant of clear_head.
clear_headKeepLh(p) ==
  /\ sys = "up"
  /\ pc[p] = "clear_head"
  /\ head' = << >>
  /\ pc' = [pc EXCEPT ![p] = "committed"]
  /\ UNCHANGED <<home, logd, bufs, logv, held, wrote, sys>>

\* log.lh.n = 0; write_head().
clear_head(p) ==
  /\ sys = "up"
  /\ pc[p] = "clear_head"
  /\ lh' = << >>
  /\ head' = << >>
  /\ pc' = [pc EXCEPT ![p] = "committed"]
  /\ UNCHANGED <<home, logd, bufs, outstanding, committing, tail, held, wrote, sys>>

\* Mutant of end_commit.
end_commitNoWakeup(p) ==
  /\ sys = "up"
  /\ pc[p] = "committed"
  /\ committing' = FALSE
  /\ pc' = [pc EXCEPT ![p] = "idle"]
  /\ UNCHANGED <<disk, bufs, lh, outstanding, tail, held, wrote, sys>>

\* The end of end_op(): log.committing = 0 and wakeup(&log).
end_commit(p) ==
  /\ sys = "up"
  /\ pc[p] = "committed"
  /\ committing' = FALSE
  /\ pc' = Awake([pc EXCEPT ![p] = "idle"])
  /\ UNCHANGED <<disk, bufs, lh, outstanding, tail, held, wrote, sys>>

-----------------------------------------------------------------------------
(* Crash and recovery *)

\* A disk write that is under way when the machine stops may leave the block
\* torn: BSIZE is four sectors.  The header's 124 bytes lie in one sector.
TornWrite ==
  \/ UNCHANGED <<home, logd>>
  \/ /\ \E p \in Procs : sys = "up" /\ pc[p] = "write_log"
     /\ logd' = [logd EXCEPT ![tail] = Torn]
     /\ UNCHANGED home
  \/ /\ sys = "recover" \/ \E p \in Procs : sys = "up" /\ pc[p] = "install"
     /\ tail \in 1..Len(lh)
     /\ home' = [home EXCEPT ![lh[tail]] = Torn]
     /\ UNCHANGED logd

\* The machine stops and boots again: memory is lost, the disk stays.
Crash ==
  /\ TornWrite
  /\ cache' = [b \in Blocks |-> NoBuf]
  /\ pinned' = {}
  /\ lh' = << >>
  /\ outstanding' = 0
  /\ committing' = FALSE
  /\ tail' = 1
  /\ pc' = [p \in Procs |-> "idle"]
  /\ held' = [p \in Procs |-> NoBuf]
  /\ wrote' = [p \in Procs |-> {}]
  /\ sys' = "read_head"
  /\ UNCHANGED head

\* initlog() and read_head() at boot.
read_head ==
  /\ sys = "read_head"
  /\ lh' = head
  /\ tail' = 1
  /\ sys' = "recover"
  /\ UNCHANGED <<disk, bufs, outstanding, committing, prov>>

\* recover_from_log(): install_trans() over the header's blocks.
recover_install ==
  /\ sys = "recover"
  /\ IF tail <= Len(lh)
     THEN /\ InstallBlock
          /\ tail' = tail + 1
          /\ UNCHANGED sys
     ELSE /\ sys' = "recovered"
          /\ UNCHANGED <<home, bufs, tail>>
  /\ UNCHANGED <<logd, head, lh, outstanding, committing, prov>>

\* recover_from_log(): log.lh.n = 0; write_head(); file-system calls begin.
recover_clear ==
  /\ sys = "recovered"
  /\ lh' = << >>
  /\ head' = << >>
  /\ tail' = 1
  /\ sys' = "up"
  /\ UNCHANGED <<home, logd, bufs, outstanding, committing, prov>>

-----------------------------------------------------------------------------
\* The steps of a process inside the log, which the scheduler always reaches.
ProcStep(p) ==
  \/ end_op(p) \/ log_write(p)
  \/ write_log(p) \/ write_head(p) \/ install_trans(p) \/ clear_head(p)
  \/ end_commit(p)

Recover == read_head \/ recover_install \/ recover_clear

Next ==
  \/ \E p \in Procs : begin_op(p) \/ ProcStep(p)
  \/ \E p \in Procs, b \in Blocks, v \in Vals : log_write_check(p, b, v)
  \/ \E b \in Blocks : bread(b) \/ bget_recycle(b)
  \/ Recover
  \/ Crash

Spec == Init /\ [][Next]_vars

\* The scheduler runs every runnable process and the disk answers, so a step
\* that stays enabled is taken.  A call logs finitely many blocks, so one
\* that can end again and again does end.
Fairness ==
  /\ \A p \in Procs : /\ WF_vars(ProcStep(p))
                      /\ WF_vars(pc[p] = "begin" /\ begin_op(p))
                      /\ SF_vars(end_op(p))
  /\ WF_vars(Recover)

FairSpec == Spec /\ Fairness

-----------------------------------------------------------------------------
(* The disk a crash leaves behind *)

Pos(s, b) == CHOOSE i \in 1..Len(s) : s[i] = b

\* Contents of every block once recover_from_log() has run on a disk with
\* home blocks m, header h and log blocks l.
RecoveredFrom(m, h, l) ==
  [b \in Blocks |-> IF b \in Entries(h) THEN l[Pos(h, b)] ELSE m[b]]

Recovered == RecoveredFrom(home, head, logd)

\* Contents of b that the running kernel sees.
View == IF sys \in {"up", "panic"} THEN [b \in Blocks |-> Bread(b)]
                                   ELSE Recovered

J == INSTANCE Journal WITH view <- View,
                           stable <- Recovered,
                           active <- {p \in Procs : InCall(p)}

\* The log implements the atomic disk: what begin_op/log_write/end_op,
\* commit() and recover_from_log() do, crashes included, is what an atomic
\* disk that commits whole groups of finished calls could do.
AtomicDisk == J!JSpec

-----------------------------------------------------------------------------
(* Safety *)

\* log.outstanding counts the calls between begin_op() and end_op(), at most
\* one process is in commit(), exactly while log.committing is set, and no
\* call is active then ("only commits when there are no FS system calls
\* active", log.c:12).
CommitAlone ==
  sys = "up" =>
    /\ outstanding = Cardinality({p \in Procs : InCall(p)})
    /\ committing <=> \E p \in Procs : Committer(p)
    /\ \A p, q \in Procs : Committer(p) /\ Committer(q) => p = q
    /\ committing => \A p \in Procs : ~InCall(p)

\* A block whose newest contents are only in memory is pinned, and stays
\* pinned until commit() has copied it to the log and home; every other
\* cached block equals the disk, so recycling it loses nothing.
PinnedUntilHome ==
  sys = "up" =>
    \A b \in Blocks :
      cache[b] # NoBuf /\ b \notin pinned /\ (\A p \in Procs : held[p] # b)
        => cache[b] = home[b]

\* A crash at any point leaves a disk from which recovery builds whole
\* blocks: no block torn by the crash, or by a crash of the recovery itself,
\* survives it.
NothingTorn == \A b \in Blocks : Recovered[b] \in Vals

\* Log entries that the running calls have reserved and not used.
Reserved == {t \in Procs \X (1..MAXOPBLOCKS) :
               InCall(t[1]) /\ t[2] > Cardinality(wrote[t[1]])}

\* begin_op()'s reservation is sound although log_write() tests log.lh.n
\* without the lock: entries used and entries still reserved fit the header.
LogSpace == sys = "up" => Len(lh) + Cardinality(Reserved) <= LOGSIZE

\* No sequence of calls makes log_write() or end_op() panic.
NoPanic == sys # "panic"

-----------------------------------------------------------------------------
(* Liveness *)

\* A process asleep in begin_op() is woken: the wakeup(&log) of end_op()
\* cannot be lost between its test and its sleep.
SleeperWoken == \A p \in Procs : pc[p] = "asleep" ~> pc[p] # "asleep"

-----------------------------------------------------------------------------
(* The inductive invariant *)

\* Data blocks the log can really hold.
LogCapacity == IF LOGSIZE < NLOG - 1 THEN LOGSIZE ELSE NLOG - 1

\* The slack that makes the reservation of begin_op() sufficient.
EnoughSlack == OpWrites + LOGSIZE < MAXOPBLOCKS + LogCapacity

Injective(s) == \A i, j \in 1..Len(s) : s[i] = s[j] => i = j

Unheld(b) == \A p \in Procs : held[p] # b

\* Both headers list distinct blocks within the log area, the log blocks
\* that a committed header names are whole, and so is every other block.
HeadersOK ==
  /\ Injective(lh) /\ Len(lh) <= LOGSIZE
  /\ Injective(head) /\ Len(head) <= LOGSIZE
  /\ \A i \in 1..Len(head) : logd[i] \in Vals
  /\ \A b \in Blocks : b \notin Entries(head) => home[b] \in Vals

CleanBuffersOK ==
  \A b \in Blocks : cache[b] # NoBuf /\ b \notin pinned /\ Unheld(b)
                     => cache[b] = home[b]

Installed(n) == \A i \in 1..n : home[lh[i]] = logd[i]

\* Until recovery is done no process runs and nothing is pinned.
BootOK ==
  sys # "up" =>
    /\ \A p \in Procs : pc[p] = "idle" /\ held[p] = NoBuf
    /\ pinned = {} /\ outstanding = 0 /\ ~committing
    /\ sys = "recover" => lh = head /\ tail \in 1..(Len(lh) + 1) /\ Installed(tail - 1)
    /\ sys = "recovered" => lh = head /\ Installed(Len(lh))

\* Buffers under modification are locked by one process each.
HoldersOK ==
  /\ \A p \in Procs : held[p] # NoBuf <=> pc[p] = "log_write"
  /\ \A p, q \in Procs : held[p] = held[q] /\ held[p] # NoBuf => p = q
  /\ \A p \in Procs : held[p] # NoBuf => cache[held[p]] \in Vals

\* A call stays within its OpWrites blocks, all of them logged.
CallsOK ==
  \A p \in Procs : InCall(p) =>
    /\ wrote[p] \subseteq Entries(lh)
    /\ IsFiniteSet(wrote[p]) /\ Cardinality(wrote[p]) <= OpWrites
    /\ pc[p] = "log_write" => \/ held[p] \in wrote[p]
                              \/ Cardinality(wrote[p]) < OpWrites

Copied(n) == \A i \in 1..n : logd[i] = cache[lh[i]]

\* Before the commit point the disk header is empty and exactly the logged
\* blocks are pinned; after it the header is the one in memory and exactly
\* the blocks that are not home yet are pinned.
BeforeCommitPoint == head = << >> /\ pinned = Entries(lh)

AfterCommitPoint(n) ==
  /\ head = lh
  /\ Installed(n)
  /\ pinned = {lh[i] : i \in (n + 1)..Len(lh)}
  /\ \A i \in (n + 1)..Len(lh) : cache[lh[i]] = logd[i]

PhaseOK ==
  /\ ~committing => BeforeCommitPoint
  /\ ~committing /\ outstanding = 0 => lh = << >>
  /\ \A p \in Procs :
       /\ pc[p] = "write_log" => /\ BeforeCommitPoint
                                 /\ tail \in 1..Len(lh) /\ Copied(tail - 1)
       /\ pc[p] = "write_head" => /\ BeforeCommitPoint
                                  /\ tail = 1 /\ Len(lh) > 0 /\ Copied(Len(lh))
       /\ pc[p] = "install" => tail \in 1..Len(lh) /\ AfterCommitPoint(tail - 1)
       /\ pc[p] = "clear_head" => AfterCommitPoint(Len(lh))
       /\ pc[p] = "committed" => BeforeCommitPoint /\ lh = << >>

RunningOK ==
  sys = "up" =>
    /\ HoldersOK
    /\ CallsOK
    /\ PhaseOK
    /\ \A b \in Blocks : home[b] \in Vals
    /\ \A b \in pinned : cache[b] \in Vals

\* The inductive invariant: headers, cache, recovery, callers and the phases
\* of commit() agree with each other at every step of log.c.
LogInv ==
  /\ TypeOK
  /\ NoPanic
  /\ HeadersOK
  /\ CleanBuffersOK
  /\ BootOK
  /\ CommitAlone
  /\ LogSpace
  /\ RunningOK
=============================================================================
