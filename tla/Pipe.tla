-------------------------------- MODULE Pipe --------------------------------
(***************************************************************************)
(* One pipe, kernel/pipe.c, with the files and processes that hold its     *)
(* ends.  p->lock is held from acquire() to release() or sleep(), so a     *)
(* pass through pipewrite() or piperead() is one step; between the last    *)
(* test of such a pass and the sleep the lock is still held, but kill(),   *)
(* which takes only ptable.lock, may run.                                  *)
(***************************************************************************)
EXTENDS Integers, Sequences

CONSTANTS Procs,
          PIPESIZE,
          Wrap,       \* 2^32 in the code: the modulus of nread and nwrite
          MaxCount,   \* bound: bytes of one read() or write()
          MaxBytes,   \* bound: bytes of all calls of write()
          Killable    \* processes that may be killed

ASSUME PipeAssumption ==
  /\ PIPESIZE \in Nat \ {0} /\ Wrap \in Nat /\ \E k \in 2..Wrap : Wrap = k * PIPESIZE
  /\ MaxCount \in Nat \ {0} /\ MaxBytes \in Nat
  /\ Procs # {} /\ Killable \subseteq Procs   \* whoever called pipe() is one of them

VARIABLES
  data, nread, nwrite, readopen, writeopen, freed, \* struct pipe
  rfd, wfd,      \* the processes with a descriptor of the read or write file
  pc,            \* where each process is
  todo,          \* bytes its call has still to move
  killed,
  budget,        \* bytes that may still be written
  flight,        \* history: the bytes written and not read yet, in order
  sawEof         \* history: a read returned 0

pipe == <<data, nread, nwrite, readopen, writeopen, freed>>
pipeHist == <<flight, sawEof>>
pipeVars == <<pipe, rfd, wfd, pc, todo, killed, budget, pipeHist>>

\* A byte: the process that writes it and how many it has still to write.
Bytes == Procs \X (1..MaxCount)
Junk == <<>>

\* pipealloc() succeeded, and fork() gave every process both descriptors.
PipeInit ==
  /\ data = [i \in 0..PIPESIZE-1 |-> Junk]
  /\ nread = 0 /\ nwrite = 0
  /\ readopen = TRUE /\ writeopen = TRUE /\ freed = FALSE
  /\ rfd = Procs /\ wfd = Procs
  /\ pc = [p \in Procs |-> "user"]
  /\ todo = [p \in Procs |-> 0]
  /\ killed = {}
  /\ budget = MaxBytes
  /\ flight = <<>> /\ sawEof = FALSE

-----------------------------------------------------------------------------

Holds(p) == pc[p] \in {"rsleep", "wsleep"}
LockFree == \A p \in Procs : ~Holds(p)

\* pc after wakeup(&p->nread) or wakeup(&p->nwrite).
Woken(from, to) == [q \in Procs |-> IF pc[q] = from THEN to ELSE pc[q]]

\* Bytes in the ring; piperead() finds it empty when nread = nwrite.
Used == (nwrite - nread) % Wrap

\* The test of pipewrite().
Full == nwrite = (nread + PIPESIZE) % Wrap

\* The bytes in the ring, in the order piperead() takes them.
Ring == [i \in 1..Used |-> data[((nread + i - 1) % Wrap) % PIPESIZE]]

least(a, b) == IF a < b THEN a ELSE b

\* write(fd, addr, n) and read(fd, addr, n) of a process that has the file.
sys_write(p, n) ==
  /\ pc[p] = "user" /\ p \in wfd /\ p \notin killed /\ n <= budget
  /\ budget' = budget - n
  /\ pc' = [pc EXCEPT ![p] = "write"]
  /\ todo' = [todo EXCEPT ![p] = n]
  /\ UNCHANGED <<pipe, rfd, wfd, killed, pipeHist>>

sys_read(p, n) ==
  /\ pc[p] = "user" /\ p \in rfd /\ p \notin killed
  /\ pc' = [pc EXCEPT ![p] = "read"]
  /\ todo' = [todo EXCEPT ![p] = n]
  /\ UNCHANGED <<pipe, rfd, wfd, killed, budget, pipeHist>>

\* The bytes a pass of pipewrite() can store before the ring is full.
Room == IF Full THEN 0 ELSE PIPESIZE - Used

\* Store k bytes of the call of p in the ring, from slot first on.
StoreAt(p, k, first) ==
  LET slot(i) == ((first + i - 1) % Wrap) % PIPESIZE
      byte(i) == <<p, todo[p] - i + 1>>
  IN  /\ data' = [s \in 0..PIPESIZE-1 |->
                    LET is == {i \in 1..k : slot(i) = s}
                    IN  IF is = {} THEN data[s]
                        ELSE byte(CHOOSE i \in is : \A j \in is : j <= i)]
      /\ nwrite' = (nwrite + k) % Wrap
      /\ flight' = flight \o [i \in 1..k |-> byte(i)]

\* Mutant: nwrite is incremented before it is used.
StorePreIncrement(p, k) == StoreAt(p, k, nwrite + 1)

Store(p, k) == StoreAt(p, k, nwrite)

\* Mutant: a writer that fills the ring does not wake the readers.
pipewriteQuiet(p) ==
  /\ pc[p] = "write" /\ LockFree
  /\ LET k == least(todo[p], Room)
     IN  /\ Store(p, k)
         /\ todo' = [todo EXCEPT ![p] = @ - k]
         /\ pc' = IF k = todo[p] THEN [Woken("rasleep", "read") EXCEPT ![p] = "user"]
                  ELSE [pc EXCEPT ![p] = IF ~readopen \/ p \in killed THEN "user" ELSE "wsleep"]
  /\ UNCHANGED <<nread, readopen, writeopen, freed, rfd, wfd, killed, budget, sawEof>>

\* A pass of pipewrite(): store what fits; then return n, give up because
\* nobody can read it or the process is killed, or go to sleep.
pipewrite(p) ==
  /\ pc[p] = "write" /\ LockFree
  /\ LET k == least(todo[p], Room)
     IN  /\ Store(p, k)
         /\ todo' = [todo EXCEPT ![p] = @ - k]
         /\ pc' = IF k = todo[p] THEN [Woken("rasleep", "read") EXCEPT ![p] = "user"]
                  ELSE IF ~readopen \/ p \in killed THEN [pc EXCEPT ![p] = "user"]
                  ELSE [Woken("rasleep", "read") EXCEPT ![p] = "wsleep"]
  /\ UNCHANGED <<nread, readopen, writeopen, freed, rfd, wfd, killed, budget, sawEof>>

\* A read returns: there is a byte, or the end of the file.
MayReturn == Used > 0 \/ ~writeopen

\* A pass of piperead(): take what is there, or go to sleep.
piperead(p) ==
  /\ pc[p] = "read" /\ LockFree
  /\ IF MayReturn
     THEN LET k == least(todo[p], Used)
          IN  /\ flight' = SubSeq(flight, k + 1, Len(flight))
              /\ nread' = (nread + k) % Wrap
              /\ sawEof' = (sawEof \/ k = 0)
              /\ pc' = [Woken("wasleep", "write") EXCEPT ![p] = "user"]
              /\ todo' = [todo EXCEPT ![p] = 0]
     ELSE /\ pc' = [pc EXCEPT ![p] = IF p \in killed THEN "user" ELSE "rsleep"]
          /\ UNCHANGED <<flight, nread, sawEof, todo>>
  /\ UNCHANGED <<data, nwrite, readopen, writeopen, freed, rfd, wfd, killed, budget>>

\* sleep() takes ptable.lock, releases p->lock and sets SLEEPING.
sleep(p) ==
  /\ Holds(p)
  /\ pc' = [pc EXCEPT ![p] = IF @ = "rsleep" THEN "rasleep" ELSE "wasleep"]
  /\ UNCHANGED <<pipe, rfd, wfd, todo, killed, budget, pipeHist>>

\* kill() marks the process and makes it runnable if it sleeps already.
kill(p) ==
  /\ p \in Killable \ killed
  /\ killed' = killed \cup {p}
  /\ pc' = [pc EXCEPT ![p] = IF @ = "rasleep" THEN "read" ELSE IF @ = "wasleep" THEN "write" ELSE @]
  /\ UNCHANGED <<pipe, rfd, wfd, todo, budget, pipeHist>>

\* Mutant: closing the write end wakes nobody.
close_writeQuiet(p) ==
  /\ pc[p] = "user" /\ p \in wfd /\ (wfd = {p} => LockFree)
  /\ wfd' = wfd \ {p}
  /\ writeopen' = (wfd' # {})
  /\ freed' = (~readopen /\ ~writeopen')
  /\ UNCHANGED <<data, nread, nwrite, readopen, rfd, pc, todo, killed, budget, pipeHist>>

\* close() or exit() drops a descriptor; the last one of a file runs
\* pipeclose(), and the second pipeclose() frees the pipe.
close_write(p) ==
  /\ pc[p] = "user" /\ p \in wfd /\ (wfd = {p} => LockFree)
  /\ wfd' = wfd \ {p}
  /\ writeopen' = (wfd' # {})
  /\ pc' = IF wfd' = {} THEN Woken("rasleep", "read") ELSE pc
  /\ freed' = (~readopen /\ ~writeopen')
  /\ UNCHANGED <<data, nread, nwrite, readopen, rfd, todo, killed, budget, pipeHist>>

close_read(p) ==
  /\ pc[p] = "user" /\ p \in rfd /\ (rfd = {p} => LockFree)
  /\ rfd' = rfd \ {p}
  /\ readopen' = (rfd' # {})
  /\ pc' = IF rfd' = {} THEN Woken("wasleep", "write") ELSE pc
  /\ freed' = (~readopen' /\ ~writeopen)
  /\ UNCHANGED <<data, nread, nwrite, writeopen, wfd, todo, killed, budget, pipeHist>>

System(p) == pipewrite(p) \/ piperead(p) \/ sleep(p)

PipeNext ==
  \E p \in Procs :
    \/ \E n \in 1..MaxCount : sys_write(p, n)
    \/ \E n \in 1..MaxCount : sys_read(p, n)
    \/ pipewrite(p) \/ piperead(p) \/ sleep(p)
    \/ close_write(p) \/ close_read(p) \/ kill(p)

PipeSpec == PipeInit /\ [][PipeNext]_pipeVars

-----------------------------------------------------------------------------
(* Properties *)

\* What piperead() will take is what was written and not read yet, in order:
\* no byte is lost, repeated or overwritten, also when nread and nwrite wrap,
\* a read returns 0 only when no byte is left and none can follow, and
\* kfree() in pipeclose() leaves nobody inside the pipe.
Fifo ==
  /\ Ring = flight
  /\ sawEof => ~writeopen /\ flight = <<>>
  /\ freed => \A p \in Procs : pc[p] = "user"

\* A process asleep has a reason to: no wakeup was lost between the test in
\* piperead() or pipewrite() and the sleep, and none left out.  Only a writer
\* that is killed leaves bytes behind without a wakeup (pipe.c:81).
NoLostWakeup ==
  \A p \in Procs :
    /\ pc[p] = "rasleep" => (Used = 0 \/ killed # {}) /\ writeopen
    /\ pc[p] = "wasleep" => Full /\ readopen

PipeShape ==
  /\ data \in [0..PIPESIZE-1 -> Bytes \cup {Junk}]
  /\ nread \in 0..Wrap-1 /\ nwrite \in 0..Wrap-1
  /\ rfd \subseteq Procs /\ wfd \subseteq Procs
  /\ readopen = (rfd # {}) /\ writeopen = (wfd # {})
  /\ freed = (~readopen /\ ~writeopen)
  /\ pc \in [Procs -> {"user", "read", "rsleep", "rasleep", "write", "wsleep", "wasleep"}]
  /\ todo \in [Procs -> 0..MaxCount]
  /\ flight \in Seq(Bytes)
  /\ sawEof \in BOOLEAN

\* A process inside a call has the descriptor it called with.
CallersHoldEnds ==
  \A p \in Procs :
    /\ pc[p] \in {"read", "rsleep", "rasleep"} => p \in rfd /\ todo[p] > 0
    /\ pc[p] \in {"write", "wsleep", "wasleep"} => p \in wfd /\ todo[p] > 0

\* What the last test before a sleep has found still holds at the sleep.
TestedUnderLock ==
  \A p \in Procs :
    /\ pc[p] = "rsleep" => Used = 0 /\ writeopen
    /\ pc[p] = "wsleep" => Full /\ readopen

\* The inductive invariant: the ring is never more than full, and counters,
\* ends, sleepers and history agree at every step of pipe.c.
PipeInv ==
  /\ PipeShape
  /\ CallersHoldEnds
  /\ TestedUnderLock
  /\ Used <= PIPESIZE
  /\ Fifo
  /\ NoLostWakeup

\* Closing one end lets everybody at the other end go: a reader returns
\* what is left or 0, a writer -1.
CloseReleases ==
  \A p \in Procs :
    (\/ ~writeopen /\ pc[p] \in {"read", "rasleep"}
     \/ ~readopen /\ pc[p] \in {"write", "wasleep"})
      ~> pc[p] = "user"
=============================================================================
