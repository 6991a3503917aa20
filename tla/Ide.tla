-------------------------------- MODULE Ide --------------------------------
(***************************************************************************)
(* The disk driver, kernel/ide.c: iderw() queues a locked buffer by block  *)
(* number and sleeps, idestart() hands the head of the queue to the disk,  *)
(* ideintr() completes it.  Both run under idelock, so each is one step.   *)
(*                                                                         *)
(* The disk (external) works on one command.  It finishes by itself and    *)
(* raises its interrupt, or it finishes while idewait() polls the status   *)
(* register; reading that register may or may not come too late to take    *)
(* the interrupt back (`latched').                                         *)
(***************************************************************************)
EXTENDS Integers, Sequences, FiniteSets

CONSTANTS Blocks,    \* block numbers; a block has one buffer (bio.c)
          MaxCalls,  \* bound: calls of iderw()
          Faulty     \* TRUE if the disk may not get ready or report an error

ASSUME IdeAssumption == Blocks \subseteq Nat /\ MaxCalls \in Nat /\ Faulty \in BOOLEAN

NoBlock == -1
NoData == 2      \* contents that are nobody's

VARIABLES
  queue,         \* idequeue and the qnext links
  valid, dirty,  \* B_VALID and B_DIRTY of each buffer
  bdata,         \* b->data
  caller,        \* the process that holds b->lock: outside, or asleep in iderw()
  calls,         \* calls so far
  platter,       \* contents on the disk
  dev,           \* the disk's command
  irq,           \* an interrupt is waiting for ideintr()
  latest,        \* history: what the last write of each block wrote
  failed         \* history: idewait() gave up or reported an error

bufs == <<valid, dirty, bdata, caller>>
hw == <<platter, dev, irq>>
ideHist == <<latest, failed>>
ideVars == <<queue, bufs, calls, hw, ideHist>>

IdeInit ==
  /\ queue = <<>>
  /\ valid = [b \in Blocks |-> FALSE] /\ dirty = [b \in Blocks |-> FALSE]
  /\ bdata = [b \in Blocks |-> NoData]
  /\ caller = [b \in Blocks |-> "out"]
  /\ calls = 0
  /\ platter = [b \in Blocks |-> 0]
  /\ dev = [block |-> NoBlock, write |-> FALSE, bdata |-> NoData, busy |-> FALSE]
  /\ irq = FALSE
  /\ latest = [b \in Blocks |-> 0] /\ failed = FALSE

-----------------------------------------------------------------------------
(* The disk *)

\* The contents on the disk when the command is finished.
Finished == IF dev.busy /\ dev.write THEN [platter EXCEPT ![dev.block] = dev.bdata] ELSE platter

\* The command finishes and the interrupt is raised.
disk_done ==
  /\ dev.busy
  /\ platter' = Finished
  /\ dev' = [dev EXCEPT !.busy = FALSE]
  /\ irq' = TRUE
  /\ UNCHANGED <<queue, bufs, calls, ideHist>>

\* What insl() reads after the disk has become ready.
DataRegister(b) == IF dev.block = b /\ ~dev.write THEN platter[b] ELSE NoData

-----------------------------------------------------------------------------
(* The driver *)

\* The command idestart() gives for b, with its contents if it is a write.
Command(b, w, d) == [block |-> b, write |-> w, bdata |-> IF w THEN d ELSE NoData, busy |-> TRUE]

\* The queue after iderw() has linked b in.
Enlisted(q, b) ==
  LET later == {i \in 1..Len(q) : b < q[i]}
      n == IF later = {} THEN Len(q) + 1 ELSE CHOOSE i \in later : \A j \in later : i <= j
  IN  SubSeq(q, 1, n - 1) \o <<b>> \o SubSeq(q, n, Len(q))

\* The caller hands over a recycled buffer (a read) or one it has changed (w),
\* and iderw() links it in and sleeps.
Enqueue(b, w) ==
  /\ caller[b] = "out" /\ calls < MaxCalls
  /\ calls' = calls + 1
  /\ valid' = [valid EXCEPT ![b] = w /\ @]
  /\ dirty' = [dirty EXCEPT ![b] = w]
  /\ bdata' = [bdata EXCEPT ![b] = IF w THEN 1 - latest[b] ELSE NoData]
  /\ latest' = [latest EXCEPT ![b] = IF w THEN 1 - @ ELSE @]
  /\ queue' = Enlisted(queue, b)
  /\ caller' = [caller EXCEPT ![b] = "sleep"]

\* iderw(b): a request that becomes the head of the queue is started, also
\* while the disk works on another.
iderw(b, w, latched, ready) ==
  /\ ready \/ Faulty
  /\ Enqueue(b, w)
  /\ IF queue'[1] = b /\ ready
     THEN /\ platter' = Finished
          /\ irq' = (irq \/ (dev.busy /\ latched))
          /\ dev' = Command(b, w, bdata'[b])
     ELSE UNCHANGED hw
  /\ failed' = (failed \/ (queue'[1] = b /\ ~ready))

\* The buffer after its request: filled by a read unless the disk reports an
\* error, clean, and its process awake.
Complete(b, good, got) ==
  /\ valid' = [valid EXCEPT ![b] = dirty[b] \/ good]
  /\ bdata' = [bdata EXCEPT ![b] = IF dirty[b] \/ ~good THEN @ ELSE got]
  /\ dirty' = [dirty EXCEPT ![b] = FALSE]
  /\ caller' = [caller EXCEPT ![b] = "woken"]

\* Mutant: the next request is not started.
ideintrNoNext(latched, good, ready) ==
  /\ irq /\ queue # <<>>
  /\ Complete(Head(queue), TRUE, DataRegister(Head(queue)))
  /\ queue' = Tail(queue)
  /\ irq' = FALSE
  /\ UNCHANGED <<platter, dev, calls, ideHist>>

\* Mutant: a read takes the data register without waiting for the disk.
ideintrNoPoll(latched, good, ready) ==
  /\ irq
  /\ IF queue = <<>> THEN irq' = FALSE /\ UNCHANGED <<queue, bufs, platter, dev>>
     ELSE LET b == Head(queue)
              rest == Tail(queue)
          IN  /\ queue' = rest
              /\ Complete(b, TRUE, IF dev.busy THEN NoData ELSE DataRegister(b))
              /\ platter' = Finished
              /\ irq' = (dev.busy /\ latched)
              /\ dev' = IF rest # <<>> THEN Command(rest[1], dirty[rest[1]], bdata[rest[1]])
                        ELSE [dev EXCEPT !.busy = FALSE]
  /\ UNCHANGED <<calls, ideHist>>

\* ideintr(): completes the head of the queue, whichever command raised the
\* interrupt, and starts the next.  A read polls until the disk is ready; so
\* does idestart().
ideintr(latched, good, ready) ==
  /\ irq
  /\ (good /\ ready) \/ Faulty
  /\ IF queue = <<>> THEN irq' = FALSE /\ UNCHANGED <<queue, bufs, platter, dev, failed>>
     ELSE LET b == Head(queue)
              rest == Tail(queue)
              polls == (~dirty[b] /\ good) \/ (rest # <<>> /\ ready)
          IN  /\ queue' = rest
              /\ Complete(b, good, DataRegister(b))
              /\ platter' = IF polls THEN Finished ELSE platter
              /\ irq' = (polls /\ dev.busy /\ latched)
              /\ dev' = IF rest # <<>> /\ ready
                        THEN Command(rest[1], dirty[rest[1]], bdata[rest[1]])
                        ELSE IF polls THEN [dev EXCEPT !.busy = FALSE] ELSE dev
              /\ failed' = (failed \/ (~dirty[b] /\ ~good) \/ (rest # <<>> /\ ~ready))
  /\ UNCHANGED <<calls, latest>>

\* The loop of iderw() after wakeup(b): return, or sleep again.
iderw_return(b) ==
  /\ caller[b] = "woken"
  /\ caller' = [caller EXCEPT ![b] = IF valid[b] /\ ~dirty[b] THEN "out" ELSE "sleep"]
  /\ UNCHANGED <<queue, valid, dirty, bdata, calls, hw, ideHist>>

IdeNext ==
  \/ \E b \in Blocks, w, latched, ready \in BOOLEAN : iderw(b, w, latched, ready)
  \/ \E latched, good, ready \in BOOLEAN : ideintr(latched, good, ready)
  \/ \E b \in Blocks : iderw_return(b)
  \/ disk_done

IdeSpec == IdeInit /\ [][IdeNext]_ideVars

-----------------------------------------------------------------------------
(* Properties *)

\* A buffer that iderw() has returned holds what was last written to its
\* block, although interrupts complete requests they do not belong to.  (Not
\* after the disk failed: a request that idestart() gave up on is completed
\* by the interrupt of another.)
ReadsSeeWrites ==
  ~failed => \A b \in Blocks : caller[b] = "out" /\ valid[b] => bdata[b] = latest[b]

(* The inductive invariant behind it *)

IdeShape ==
  /\ queue \in Seq(Blocks) /\ calls \in Nat /\ irq \in BOOLEAN /\ failed \in BOOLEAN
  /\ valid \in [Blocks -> BOOLEAN] /\ dirty \in [Blocks -> BOOLEAN]
  /\ bdata \in [Blocks -> {0, 1, NoData}] /\ caller \in [Blocks -> {"out", "sleep", "woken"}]
  /\ platter \in [Blocks -> {0, 1}] /\ latest \in [Blocks -> {0, 1}]
  /\ dev \in [block : Blocks \cup {NoBlock}, write : BOOLEAN, bdata : {0, 1, NoData},
              busy : BOOLEAN]
  /\ dev.write => dev.block \in Blocks /\ dev.bdata \in {0, 1}
  /\ \A b \in Blocks : dirty[b] => bdata[b] \in {0, 1}

\* Each block is queued at most once, and exactly while its caller sleeps.
QueueOfSleepers ==
  /\ \A i, j \in 1 .. Len(queue) : queue[i] = queue[j] => i = j
  /\ \A b \in Blocks : caller[b] = "sleep" <=> \E i \in 1 .. Len(queue) : queue[i] = b

\* What a buffer holds: nothing of use while a read is under way, else what
\* was written last; it is dirty only while its caller sleeps.
BuffersHold ==
  \A b \in Blocks :
    /\ dirty[b] => caller[b] = "sleep" /\ bdata[b] = latest[b]
    /\ caller[b] = "woken" => valid[b]
    /\ caller[b] # "sleep" /\ valid[b] => bdata[b] = latest[b]

\* The disk has the command of the head of the queue, finished or not.
DiskWorksOnHead ==
  queue # <<>> =>
    dev.block = queue[1] /\ dev.write = dirty[queue[1]]

\* Once the disk is done with its command it holds what was last written to
\* every block, those behind the head with a write to come excepted.
DiskCatchesUp ==
  \A b \in Blocks : ~dirty[b] \/ (queue # <<>> /\ queue[1] = b) => Finished[b] = latest[b]

IdeInv ==
  /\ IdeShape
  /\ ~failed => QueueOfSleepers /\ BuffersHold /\ DiskWorksOnHead /\ DiskCatchesUp

\* Every request ends, of the finitely many a run makes, as long as the disk
\* gets ready and reports no error: after a failure nothing starts the
\* request again.
RequestsEnd == <>[](failed \/ \A b \in Blocks : caller[b] = "out")
=============================================================================
