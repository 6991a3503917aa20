-------------------------------- MODULE Proc --------------------------------
(***************************************************************************)
(* Processes and scheduling: kernel/proc.c, the timer and system-call      *)
(* paths of kernel/trap.c, sys_sleep and sys_kill of kernel/sysproc.c and  *)
(* the loop of user/init.c.                                                *)
(*                                                                         *)
(* ptable.lock is taken on one kernel stack and released on another: a     *)
(* process that gives up its CPU keeps the lock until the scheduler of     *)
(* that CPU, or the process it runs next, lets it go.  `lock' is the CPU   *)
(* that holds it.  A step of the model is a stretch of code between two    *)
(* points where other CPUs can see or change the process table.            *)
(***************************************************************************)
EXTENDS Integers, FiniteSets

CONSTANTS NPROC,      \* slots of ptable.proc[] (param.h:4)
          NCPU,       \* CPUs that run scheduler()
          MaxPid,     \* bound: fork() is not called once nextpid exceeds it
          KillPids,   \* pids that programs pass to kill()
          NoMemory    \* TRUE if kalloc() and copyuvm() may fail

ASSUME ProcAssumption ==
  /\ NPROC \in Nat \ {0} /\ NCPU \in Nat \ {0} /\ MaxPid \in Nat
  /\ KillPids \subseteq Nat /\ NoMemory \in BOOLEAN

Slots == 1..NPROC
Cpus == 0..(NCPU - 1)
None == -1            \* no process, no holder
initproc == 1         \* userinit() takes the first slot
Ticks == 0            \* the channel &ticks; a slot is the channel of its wait()
Handler == 0          \* tickslock held by the timer interrupt of CPU 0

VARIABLES
  state, pid, parent, killed, chan, kstack,  \* struct proc, one entry per slot
  pc,        \* where the thread of the slot is
  np,        \* fork(): the slot allocproc() returned
  left,      \* sys_sleep(): n - (ticks - ticks0), down to 0
  nextpid,
  desktop,   \* init.c: pid of the desktop it waits for, 0 if none
  lock,      \* ptable.lock
  tickslock,
  cproc,     \* cpus[c].proc
  scan,      \* loop variable of scheduler() on each CPU
  intr,      \* the timer interrupt a CPU is handling
  panicked

tab == <<state, pid, parent, killed, chan, kstack>>
thr == <<pc, np, left, nextpid, desktop>>
cpu == <<cproc, scan, intr>>
vars == <<tab, thr, cpu, lock, tickslock, panicked>>

First(S) == CHOOSE i \in S : \A j \in S : i <= j

-----------------------------------------------------------------------------
\* After userinit(): init is runnable and every CPU enters scheduler().
Init ==
  /\ state = [s \in Slots |-> IF s = initproc THEN "RUNNABLE" ELSE "UNUSED"]
  /\ pid = [s \in Slots |-> IF s = initproc THEN 1 ELSE 0]
  /\ parent = [s \in Slots |-> 0]
  /\ killed = [s \in Slots |-> FALSE]
  /\ chan = [s \in Slots |-> None]
  /\ kstack = [s \in Slots |-> s = initproc]
  /\ pc = [s \in Slots |-> IF s = initproc THEN "forkret" ELSE "none"]
  /\ np = [s \in Slots |-> None]
  /\ left = [s \in Slots |-> 0]
  /\ nextpid = 2
  /\ desktop = 0
  /\ lock = None
  /\ tickslock = None
  /\ cproc = [c \in Cpus |-> None]
  /\ scan = [c \in Cpus |-> 1]
  /\ intr = [c \in Cpus |-> "no"]
  /\ panicked = FALSE

-----------------------------------------------------------------------------
(* scheduler() and sched() *)

\* acquire(&ptable.lock) at the top of the scheduler's loop.
sched_acquire(c) ==
  /\ cproc[c] = None /\ lock = None /\ intr[c] = "no"
  /\ lock' = c
  /\ scan' = [scan EXCEPT ![c] = 1]
  /\ UNCHANGED <<tab, thr, cproc, intr, tickslock, panicked>>

\* The slots the scan has still to visit and will run.
Runnable(c) == {s \in Slots : s >= scan[c] /\ state[s] = "RUNNABLE"}

\* Mutant of sched_pick.
sched_pickFirst(c) ==
  /\ lock = c /\ cproc[c] = None
  /\ LET R == {s \in Slots : state[s] = "RUNNABLE"} IN
       /\ R # {}
       /\ cproc' = [cproc EXCEPT ![c] = First(R)]
       /\ state' = [state EXCEPT ![First(R)] = "RUNNING"]
       /\ scan' = [scan EXCEPT ![c] = 1]
  /\ UNCHANGED <<pid, parent, killed, chan, kstack, thr, intr, lock, tickslock, panicked>>

\* The next runnable slot of the scan: c->proc = p, RUNNING, swtch to it with
\* the lock held.  switchuvm() panics on a process without a kernel stack.
sched_pick(c) ==
  /\ lock = c /\ cproc[c] = None
  /\ Runnable(c) # {}
  /\ LET s == First(Runnable(c)) IN
       /\ cproc' = [cproc EXCEPT ![c] = s]
       /\ scan' = [scan EXCEPT ![c] = s + 1]
       /\ state' = [state EXCEPT ![s] = "RUNNING"]
       /\ panicked' = ~kstack[s]
  /\ UNCHANGED <<pid, parent, killed, chan, kstack, thr, intr, lock, tickslock>>

\* The scan is over: release(&ptable.lock), and the loop starts again.
sched_release(c) ==
  /\ lock = c /\ cproc[c] = None
  /\ Runnable(c) = {}
  /\ lock' = None
  /\ UNCHANGED <<tab, thr, cpu, tickslock, panicked>>

\* sched(): the process has changed its state and switches to the scheduler's
\* stack, which forgets it and goes on scanning with the lock held.
swtch(c) ==
  /\ lock = c /\ cproc[c] # None
  /\ state[cproc[c]] # "RUNNING"
  /\ cproc' = [cproc EXCEPT ![c] = None]
  /\ UNCHANGED <<tab, thr, scan, intr, lock, tickslock, panicked>>

\* s runs on c, with interrupts on or off, and is not handling an interrupt.
Runs(s, c) ==
  /\ cproc[c] = s /\ state[s] = "RUNNING" /\ intr[c] = "no" /\ lock # c /\ ~panicked

\* s has just been switched to and still holds ptable.lock.
Resumes(s, c) ==
  /\ cproc[c] = s /\ state[s] = "RUNNING" /\ lock = c /\ ~panicked

\* forkret(), the end of yield() and the end of sleep(&ticks): release the
\* lock.  The interrupt that yielded looks at killed again (trap.c:108).
resume(s, c) ==
  /\ Resumes(s, c)
  /\ pc[s] # "waitloop"
  /\ lock' = None
  /\ chan' = [chan EXCEPT ![s] = None]
  /\ pc' = [pc EXCEPT ![s] = CASE @ = "forkret" -> "user"
                               [] @ = "slept" -> "tick_test"
                               [] @ = "user" /\ killed[s] -> "exit"
                               [] OTHER -> @]
  /\ UNCHANGED <<state, pid, parent, killed, kstack, np, left, nextpid, desktop, cpu, panicked>>
  /\ UNCHANGED tickslock

-----------------------------------------------------------------------------
(* System calls *)

\* The table after wakeup1(ch).
Woken(st, ch) == [s \in Slots |-> IF st[s] = "SLEEPING" /\ chan[s] = ch THEN "RUNNABLE" ELSE st[s]]

\* trap(): a system call of a killed process exits instead.
Enters(s, c) == Runs(s, c) /\ pc[s] = "user" /\ ~killed[s]

enter_killed(s, c) ==
  /\ Runs(s, c) /\ pc[s] = "user" /\ killed[s]
  /\ pc' = [pc EXCEPT ![s] = "exit"]
  /\ UNCHANGED <<tab, np, left, nextpid, desktop, cpu, lock, tickslock, panicked>>

\* trap(): the return from a system call looks at killed again.
sysret(s, c) ==
  /\ Runs(s, c) /\ pc[s] = "ret"
  /\ pc' = [pc EXCEPT ![s] = IF killed[s] THEN "exit" ELSE "user"]
  /\ UNCHANGED <<tab, np, left, nextpid, desktop, cpu, lock, tickslock, panicked>>

\* trap(): a fault in user space kills the process.
fault(s, c) ==
  /\ Runs(s, c) /\ pc[s] = "user" /\ s # initproc
  /\ killed' = [killed EXCEPT ![s] = TRUE]
  /\ pc' = [pc EXCEPT ![s] = "exit"]
  /\ UNCHANGED <<state, pid, parent, chan, kstack, np, left, nextpid, desktop, cpu, lock, tickslock, panicked>>

\* What a program may call now: init.c forks the desktop and waits for it.
MayFork(s) == nextpid <= MaxPid /\ (s = initproc => desktop = 0)
MayWait(s) == s = initproc => desktop # 0 \/ nextpid > MaxPid

\* fork(): allocproc() takes the first UNUSED slot under the lock.  When
\* there is none fork() fails, on which init.c exits.
fork_alloc(s, c) ==
  /\ Enters(s, c) /\ MayFork(s) /\ lock = None
  /\ LET U == {t \in Slots : state[t] = "UNUSED"} IN
     IF U = {} THEN /\ pc' = [pc EXCEPT ![s] = IF s = initproc THEN "exit" ELSE "ret"]
                    /\ UNCHANGED <<state, pid, np, nextpid>>
     ELSE /\ state' = [state EXCEPT ![First(U)] = "EMBRYO"]
          /\ pid' = [pid EXCEPT ![First(U)] = nextpid]
          /\ nextpid' = nextpid + 1
          /\ np' = [np EXCEPT ![s] = First(U)]
          /\ pc' = [pc EXCEPT ![s] = "fork_alloc"]
  /\ UNCHANGED <<parent, killed, chan, kstack, left, desktop, cpu, lock, tickslock, panicked>>

\* fork(): the kernel stack or the page directory cannot be allocated; the
\* slot is given back without the lock, with its pid and killed left in it.
fork_fail(s, c) ==
  /\ NoMemory /\ Runs(s, c) /\ pc[s] = "fork_alloc"
  /\ state' = [state EXCEPT ![np[s]] = "UNUSED"]
  /\ np' = [np EXCEPT ![s] = None]
  /\ pc' = [pc EXCEPT ![s] = IF s = initproc THEN "exit" ELSE "ret"]
  /\ UNCHANGED <<pid, parent, killed, chan, kstack, left, nextpid, desktop, cpu, lock, tickslock, panicked>>

\* fork(): stack, memory, parent, files and name of the child.
fork_copy(s, c) ==
  /\ Runs(s, c) /\ pc[s] = "fork_alloc"
  /\ kstack' = [kstack EXCEPT ![np[s]] = TRUE]
  /\ parent' = [parent EXCEPT ![np[s]] = s]
  /\ pc' = [pc EXCEPT ![s] = "fork_ready", ![np[s]] = "forkret"]
  /\ UNCHANGED <<state, pid, killed, chan, np, left, nextpid, desktop, cpu, lock, tickslock, panicked>>

\* fork(): the child becomes RUNNABLE under the lock.
fork_ready(s, c) ==
  /\ Runs(s, c) /\ pc[s] = "fork_ready" /\ lock = None
  /\ state' = [state EXCEPT ![np[s]] = "RUNNABLE"]
  /\ desktop' = IF s = initproc THEN pid[np[s]] ELSE desktop
  /\ np' = [np EXCEPT ![s] = None]
  /\ pc' = [pc EXCEPT ![s] = "ret"]
  /\ UNCHANGED <<pid, parent, killed, chan, kstack, left, nextpid, cpu, lock, tickslock, panicked>>

call_exit(s, c) ==
  /\ Enters(s, c) /\ s # initproc
  /\ pc' = [pc EXCEPT ![s] = "exit"]
  /\ UNCHANGED <<tab, np, left, nextpid, desktop, cpu, lock, tickslock, panicked>>

\* The table after exit() of s: wake the parent, give the children to init,
\* wake init if one of them is a zombie.
ExitState(s) ==
  LET woken == Woken(state, parent[s])
      handed == IF \E k \in Slots : parent[k] = s /\ state[k] = "ZOMBIE"
                THEN Woken(woken, initproc) ELSE woken
  IN  [handed EXCEPT ![s] = "ZOMBIE"]

\* Mutant of exit.
exitNoReparent(s, c) ==
  /\ Runs(s, c) /\ pc[s] = "exit" /\ lock = None
  /\ state' = [Woken(state, parent[s]) EXCEPT ![s] = "ZOMBIE"]
  /\ lock' = c
  /\ pc' = [pc EXCEPT ![s] = "zombie"]
  /\ UNCHANGED <<pid, parent, killed, chan, kstack, np, left, nextpid, desktop, cpu, tickslock, panicked>>

\* Mutant of exit.
exitNoWakeParent(s, c) ==
  /\ Runs(s, c) /\ pc[s] = "exit" /\ lock = None /\ s # initproc
  /\ state' = [state EXCEPT ![s] = "ZOMBIE"]
  /\ parent' = [k \in Slots |-> IF parent[k] = s THEN initproc ELSE parent[k]]
  /\ lock' = c
  /\ pc' = [pc EXCEPT ![s] = "zombie"]
  /\ UNCHANGED <<pid, killed, chan, kstack, np, left, nextpid, desktop, cpu, tickslock, panicked>>

\* Mutant of exit.
exitReleases(s, c) ==
  /\ Runs(s, c) /\ pc[s] = "exit" /\ lock = None /\ s # initproc
  /\ state' = ExitState(s)
  /\ parent' = [k \in Slots |-> IF parent[k] = s THEN initproc ELSE parent[k]]
  /\ pc' = [pc EXCEPT ![s] = "zombie"]
  /\ UNCHANGED <<pid, killed, chan, kstack, np, left, nextpid, desktop, cpu, lock, tickslock, panicked>>

\* exit(), once files and directory are closed: under the lock, which the
\* scheduler inherits.  init may not exit.
exit(s, c) ==
  /\ Runs(s, c) /\ pc[s] = "exit" /\ lock = None
  /\ IF s = initproc
     THEN panicked' = TRUE /\ UNCHANGED <<state, parent, lock, pc>>
     ELSE /\ state' = ExitState(s)
          /\ parent' = [k \in Slots |-> IF parent[k] = s THEN initproc ELSE parent[k]]
          /\ lock' = c
          /\ pc' = [pc EXCEPT ![s] = "zombie"]
          /\ UNCHANGED panicked
  /\ UNCHANGED <<pid, killed, chan, kstack, np, left, nextpid, desktop, cpu, tickslock>>

call_wait(s, c) ==
  /\ Enters(s, c) /\ MayWait(s)
  /\ pc' = [pc EXCEPT ![s] = "wait"]
  /\ UNCHANGED <<tab, np, left, nextpid, desktop, cpu, lock, tickslock, panicked>>

Kids(s) == {k \in Slots : parent[k] = s}
DeadKids(s) == {k \in Kids(s) : state[k] = "ZOMBIE"}

\* wait() holds the lock: it has just taken it, or sleep() returned with it.
InWait(s, c) ==
  \/ Runs(s, c) /\ pc[s] = "wait" /\ lock = None
  \/ Resumes(s, c) /\ pc[s] = "waitloop"

\* wait(): the first zombie child is reaped and its slot given back.
wait_reap(s, c) ==
  /\ InWait(s, c) /\ DeadKids(s) # {}
  /\ LET k == First(DeadKids(s)) IN
       /\ kstack' = [kstack EXCEPT ![k] = FALSE]
       /\ pid' = [pid EXCEPT ![k] = 0]
       /\ parent' = [parent EXCEPT ![k] = 0]
       /\ killed' = [killed EXCEPT ![k] = FALSE]
       /\ state' = [state EXCEPT ![k] = "UNUSED"]
       /\ desktop' = IF s = initproc /\ pid[k] = desktop THEN 0 ELSE desktop
       /\ pc' = [pc EXCEPT ![s] = "ret", ![k] = "none"]
  /\ chan' = [chan EXCEPT ![s] = None]
  /\ lock' = None
  /\ UNCHANGED <<np, left, nextpid, cpu, tickslock, panicked>>

\* wait(): no children, or killed.
wait_none(s, c) ==
  /\ InWait(s, c) /\ DeadKids(s) = {}
  /\ Kids(s) = {} \/ killed[s]
  /\ desktop' = IF s = initproc THEN 0 ELSE desktop
  /\ pc' = [pc EXCEPT ![s] = "ret"]
  /\ chan' = [chan EXCEPT ![s] = None]
  /\ lock' = None
  /\ UNCHANGED <<state, pid, parent, killed, kstack, np, left, nextpid, cpu, tickslock, panicked>>

\* wait(): sleep(curproc, &ptable.lock).
wait_sleep(s, c) ==
  /\ InWait(s, c) /\ DeadKids(s) = {}
  /\ Kids(s) # {} /\ ~killed[s]
  /\ chan' = [chan EXCEPT ![s] = s]
  /\ state' = [state EXCEPT ![s] = "SLEEPING"]
  /\ pc' = [pc EXCEPT ![s] = "waitloop"]
  /\ lock' = c
  /\ UNCHANGED <<pid, parent, killed, kstack, np, left, nextpid, desktop, cpu, tickslock, panicked>>

\* Mutant of kill.
killNoWakeup(s, c, target) ==
  /\ Enters(s, c) /\ s # initproc /\ lock = None
  /\ LET P == {k \in Slots : pid[k] = target} IN
       IF P = {} THEN UNCHANGED <<state, killed>>
       ELSE /\ killed' = [killed EXCEPT ![First(P)] = TRUE]
            /\ UNCHANGED state
  /\ pc' = [pc EXCEPT ![s] = "ret"]
  /\ UNCHANGED <<pid, parent, chan, kstack, np, left, nextpid, desktop, cpu, lock, tickslock, panicked>>

\* kill(): the first slot with this pid, whatever its state.
kill(s, c, target) ==
  /\ Enters(s, c) /\ s # initproc /\ lock = None
  /\ LET P == {k \in Slots : pid[k] = target}
         k == First(P)
     IN  IF P = {} THEN UNCHANGED <<state, killed>>
         ELSE /\ killed' = [killed EXCEPT ![k] = TRUE]
              /\ state' = [state EXCEPT ![k] = IF @ = "SLEEPING" THEN "RUNNABLE" ELSE @]
  /\ pc' = [pc EXCEPT ![s] = "ret"]
  /\ UNCHANGED <<pid, parent, chan, kstack, np, left, nextpid, desktop, cpu, lock, tickslock, panicked>>

-----------------------------------------------------------------------------
(* sys_sleep(1) and the clock *)

call_sleep(s, c) ==
  /\ Enters(s, c) /\ s # initproc
  /\ pc' = [pc EXCEPT ![s] = "tick_lock"]
  /\ UNCHANGED <<tab, np, left, nextpid, desktop, cpu, lock, tickslock, panicked>>

\* acquire(&tickslock) and ticks0 = ticks.
tick_lock(s, c) ==
  /\ Runs(s, c) /\ pc[s] = "tick_lock" /\ tickslock = None
  /\ tickslock' = s
  /\ left' = [left EXCEPT ![s] = 1]
  /\ pc' = [pc EXCEPT ![s] = "tick_sleep"]
  /\ UNCHANGED <<tab, np, nextpid, desktop, cpu, lock, panicked>>

\* Back from sleep(): acquire(&tickslock) and the test of the while loop.
tick_test(s, c) ==
  /\ Runs(s, c) /\ pc[s] = "tick_test" /\ tickslock = None
  /\ IF left[s] = 0
     THEN pc' = [pc EXCEPT ![s] = "ret"] /\ UNCHANGED tickslock
     ELSE pc' = [pc EXCEPT ![s] = "tick_sleep"] /\ tickslock' = s
  /\ UNCHANGED <<tab, np, left, nextpid, desktop, cpu, lock, panicked>>

\* The loop body, when the process has been killed.
tick_killed(s, c) ==
  /\ Runs(s, c) /\ pc[s] = "tick_sleep" /\ tickslock = s /\ killed[s]
  /\ tickslock' = None
  /\ pc' = [pc EXCEPT ![s] = "ret"]
  /\ UNCHANGED <<tab, np, left, nextpid, desktop, cpu, lock, panicked>>

\* Mutant of tick_sleep.
tick_sleepUnlockFirst(s, c) ==
  /\ Runs(s, c) /\ pc[s] = "tick_sleep" /\ (tickslock = s => ~killed[s])
  /\ IF tickslock = s
     THEN tickslock' = None /\ UNCHANGED <<chan, state, pc, lock>>
     ELSE /\ lock = None
          /\ chan' = [chan EXCEPT ![s] = Ticks]
          /\ state' = [state EXCEPT ![s] = "SLEEPING"]
          /\ pc' = [pc EXCEPT ![s] = "slept"]
          /\ lock' = c
          /\ UNCHANGED tickslock
  /\ UNCHANGED <<pid, parent, killed, kstack, np, left, nextpid, desktop, cpu, panicked>>

\* sleep(&ticks, &tickslock): ptable.lock is taken before tickslock is let go.
tick_sleep(s, c) ==
  /\ Runs(s, c) /\ pc[s] = "tick_sleep" /\ tickslock = s
  /\ lock = None
  /\ tickslock' = None
  /\ chan' = [chan EXCEPT ![s] = Ticks]
  /\ state' = [state EXCEPT ![s] = "SLEEPING"]
  /\ pc' = [pc EXCEPT ![s] = "slept"]
  /\ lock' = c
  /\ UNCHANGED <<pid, parent, killed, kstack, np, left, nextpid, desktop, cpu, panicked>>

\* Interrupts are on: no spinlock is held by what runs on this CPU.
IntrOn(c) == /\ intr[c] = "no" /\ lock # c /\ ~panicked
             /\ cproc[c] # None => tickslock # cproc[c]

\* The timer interrupt; only CPU 0 counts the tick.
timer(c) ==
  /\ IntrOn(c)
  /\ c = 0 \/ cproc[c] # None
  /\ intr' = [intr EXCEPT ![c] = IF c = 0 THEN "tick" ELSE "yield"]
  /\ UNCHANGED <<tab, thr, cproc, scan, lock, tickslock, panicked>>

\* acquire(&tickslock); ticks++.
timer_tick(c) ==
  /\ intr[c] = "tick" /\ tickslock = None /\ ~panicked
  /\ tickslock' = Handler
  /\ left' = [s \in Slots |-> 0]
  /\ intr' = [intr EXCEPT ![c] = "wakeup"]
  /\ UNCHANGED <<tab, pc, np, nextpid, desktop, cproc, scan, lock, panicked>>

\* wakeup(&ticks); release(&tickslock).
timer_wakeup(c) ==
  /\ intr[c] = "wakeup" /\ lock = None /\ ~panicked
  /\ state' = Woken(state, Ticks)
  /\ tickslock' = None
  /\ intr' = [intr EXCEPT ![c] = IF cproc[c] = None THEN "no" ELSE "yield"]
  /\ UNCHANGED <<pid, parent, killed, chan, kstack, thr, cproc, scan, lock, panicked>>

\* The end of trap(): a killed process in user space exits, any other yields.
timer_yield(c) ==
  /\ intr[c] = "yield" /\ ~panicked
  /\ intr' = [intr EXCEPT ![c] = "no"]
  /\ LET s == cproc[c] IN
     IF killed[s] /\ pc[s] = "user"
     THEN pc' = [pc EXCEPT ![s] = "exit"] /\ UNCHANGED <<state, lock>>
     ELSE /\ lock = None
          /\ state' = [state EXCEPT ![s] = "RUNNABLE"]
          /\ lock' = c
          /\ UNCHANGED pc
  /\ UNCHANGED <<pid, parent, killed, chan, kstack, np, left, nextpid, desktop, cproc, scan, tickslock, panicked>>

-----------------------------------------------------------------------------
\* A panic stops every CPU.
Halted == panicked /\ UNCHANGED vars

\* What the kernel does for a process once it is inside it.
KernelStep(s, c) ==
  \/ enter_killed(s, c) \/ sysret(s, c)
  \/ fork_fail(s, c) \/ fork_copy(s, c) \/ fork_ready(s, c)
  \/ exit(s, c)
  \/ wait_reap(s, c) \/ wait_none(s, c) \/ wait_sleep(s, c)
  \/ tick_lock(s, c) \/ tick_test(s, c) \/ tick_killed(s, c) \/ tick_sleep(s, c)

\* What a program chooses to do.
UserStep(s, c) ==
  \/ fork_alloc(s, c) \/ call_exit(s, c) \/ call_wait(s, c) \/ call_sleep(s, c)
  \/ fault(s, c)
  \/ \E t \in KillPids : kill(s, c, t)

SchedStep(c) == ~panicked /\ (sched_acquire(c) \/ sched_pick(c) \/ sched_release(c) \/ swtch(c))

TimerStep(c) == timer_tick(c) \/ timer_wakeup(c) \/ timer_yield(c)

Next ==
  \/ \E c \in Cpus : SchedStep(c) \/ timer(c) \/ TimerStep(c)
  \/ \E s \in Slots, c \in Cpus : resume(s, c) \/ KernelStep(s, c) \/ UserStep(s, c)
  \/ Halted

Spec == Init /\ [][Next]_vars

\* The clock ticks, a CPU that is free schedules, and a process that is
\* given the CPU again and again gets on between two interrupts: a timer
\* period is far longer than the path from one preemption point to the
\* next.  init.c loops in fork() and wait().  Nothing is assumed of other
\* programs: one may compute for ever.
Fairness ==
  /\ \A c \in Cpus : SF_vars(SchedStep(c)) /\ SF_vars(timer(c)) /\ WF_vars(TimerStep(c))
  /\ \A s \in Slots : /\ WF_vars(\E c \in Cpus : resume(s, c))
                      /\ SF_vars(\E c \in Cpus : KernelStep(s, c))
  /\ SF_vars(\E c \in Cpus : fork_alloc(initproc, c) \/ call_wait(initproc, c))

FairSpec == Spec /\ Fairness

-----------------------------------------------------------------------------
(* Safety *)

\* wait() never frees the kernel stack, or gives away the slot, of a process
\* that still runs on some CPU, although the exiting process cannot free
\* its own stack.
StackInUse ==
  \A c \in Cpus : cproc[c] # None =>
    kstack[cproc[c]] /\ state[cproc[c]] \notin {"UNUSED", "EMBRYO"}

\* Every process but init has a parent that can still wait for it: exit()
\* hands its children over before anybody can see it as a zombie.
ParentsLive ==
  \A s \in Slots \ {initproc} : state[s] \notin {"UNUSED", "EMBRYO"} =>
    /\ parent[s] # 0
    /\ state[parent[s]] \notin {"UNUSED", "EMBRYO", "ZOMBIE"}

\* No wakeup is lost: nobody sleeps in wait() with a dead child, and nobody
\* sleeps in sys_sleep() past its time unless the wakeup is on its way.
NoLostWakeup ==
  \A s \in Slots : state[s] = "SLEEPING" =>
    /\ chan[s] = s => DeadKids(s) = {}
    /\ chan[s] = Ticks /\ left[s] = 0 => intr[0] = "wakeup"

ProcShape ==
  /\ state \in [Slots -> {"UNUSED", "EMBRYO", "RUNNABLE", "RUNNING", "SLEEPING", "ZOMBIE"}]
  /\ pid \in [Slots -> Nat] /\ nextpid \in Nat /\ desktop \in Nat
  /\ parent \in [Slots -> {0} \cup Slots]
  /\ killed \in [Slots -> BOOLEAN] /\ kstack \in [Slots -> BOOLEAN] /\ panicked \in BOOLEAN
  /\ chan \in [Slots -> {None, Ticks} \cup Slots]
  /\ pc \in [Slots -> {"none", "forkret", "user", "ret", "exit", "zombie", "fork_alloc", "fork_ready",
                      "wait", "waitloop", "tick_lock", "tick_sleep", "slept", "tick_test"}]
  /\ np \in [Slots -> {None} \cup Slots]
  /\ left \in [Slots -> {0, 1}]
  /\ lock \in {None} \cup Cpus
  /\ tickslock \in {None, Handler} \cup Slots
  /\ cproc \in [Cpus -> {None} \cup Slots]
  /\ scan \in [Cpus -> 1 .. NPROC + 1]
  /\ intr \in [Cpus -> {"no", "tick", "wakeup", "yield"}]

\* A process is on one CPU at most, and a CPU whose process has given it up
\* keeps ptable.lock until scheduler() has left that process's stack.
LockCoversSwitch ==
  \A c \in Cpus :
    /\ cproc[c] # None => state[cproc[c]] = "RUNNING" \/ lock = c
    /\ \A d \in Cpus \ {c} : cproc[c] # None => cproc[c] # cproc[d]

\* Spinlocks keep interrupts off: none is being handled on the CPU that holds
\* ptable.lock, and tickslock is the handler's from the tick to the wakeup.
LocksKeepOff ==
  \A c \in Cpus :
    /\ lock = c => intr[c] = "no"
    /\ intr[c] \in {"tick", "wakeup"} => c = 0
    /\ intr[c] = "wakeup" => tickslock = Handler
    /\ intr[c] = "yield" => cproc[c] # None

\* fork() alone knows the slot it fills, until the child is RUNNABLE.
ForkOwnsSlot ==
  \A s \in Slots : pc[s] \in {"fork_alloc", "fork_ready"} =>
    /\ np[s] \in Slots /\ state[np[s]] = "EMBRYO"
    /\ pc[s] = "fork_ready" => kstack[np[s]] /\ parent[np[s]] = s
    /\ \A t \in Slots \ {s} : pc[t] \in {"fork_alloc", "fork_ready"} => np[t] # np[s]

\* What can run, and what is left of it, has a kernel stack; init never dies,
\* and the only panic is its exit.
StacksAndInit ==
  /\ \A s \in Slots : state[s] \notin {"UNUSED", "EMBRYO"} => kstack[s]
  /\ state[initproc] \in {"RUNNABLE", "RUNNING", "SLEEPING"}
  /\ panicked => pc[initproc] = "exit"

\* sys_sleep() decides to sleep with tickslock held: no tick comes between.
SleepUnderTickslock ==
  \A s \in Slots : pc[s] = "tick_sleep" => tickslock = s /\ left[s] # 0

\* Nobody but init, which never exits, would wait for itself.
NotOwnParent == \A s \in Slots \ {initproc} : parent[s] # s

\* The inductive invariant.
ProcInv ==
  /\ ProcShape
  /\ StackInUse
  /\ LockCoversSwitch
  /\ LocksKeepOff
  /\ ForkOwnsSlot
  /\ StacksAndInit
  /\ SleepUnderTickslock
  /\ NotOwnParent
  /\ ParentsLive
  /\ NoLostWakeup

-----------------------------------------------------------------------------
(* Liveness *)

\* Every runnable process gets a CPU: scheduler() goes on from the slot after
\* the one it ran last.
RunnableRuns == \A s \in Slots : state[s] = "RUNNABLE" ~> (state[s] = "RUNNING" \/ panicked)

\* A killed process exits, whether it sleeps, runs, waits or is being forked.
KilledDies ==
  \A s \in Slots : (killed[s] /\ state[s] \in {"RUNNABLE", "RUNNING", "SLEEPING"})
                     ~> (state[s] \in {"ZOMBIE", "UNUSED"} \/ panicked)

\* A zombie that init has to wait for is reaped.
ZombieReaped ==
  \A s \in Slots : (state[s] = "ZOMBIE" /\ parent[s] = initproc) ~> (state[s] = "UNUSED" \/ panicked)
=============================================================================
