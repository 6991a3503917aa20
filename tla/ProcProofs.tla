----------------------------- MODULE ProcProofs -----------------------------
(***************************************************************************)
(* Proofs about processes and scheduling, for any number of slots and CPUs *)
(* and whether or not memory runs out.                                     *)
(***************************************************************************)
EXTENDS Proc, TLAPS, WellFoundedInduction

-----------------------------------------------------------------------------
(* Slots, CPUs and the loops over the table *)

LEMMA Constants ==
  /\ initproc \in Slots /\ 0 \notin Slots /\ None \notin Slots /\ None \notin Cpus
  /\ \A s \in Slots : s \in Nat
  /\ \A c \in Cpus : c \in Nat
  BY ProcAssumption DEF initproc, Slots, Cpus, None

\* A loop that stops at the first slot of its kind stops at one of them.
LEMMA FirstIsIn ==
  ASSUME NEW S, S \subseteq Slots, S # {}
  PROVE  First(S) \in S
<1>1. S \subseteq Nat
  BY Constants
<1>2. PICK i \in S : \A j \in S : ~(<<j, i>> \in OpToRel(<, Nat))
  BY <1>1, NatLessThanWellFounded, WFMin
<1>3. \A j \in S : i <= j
  <2> SUFFICES ASSUME NEW j \in S, j < i PROVE FALSE
    BY <1>1
  <2>1. <<j, i>> \in Nat \X Nat /\ <<j, i>>[1] < <<j, i>>[2]
    BY <1>1
  <2>2. <<j, i>> \in OpToRel(<, Nat)
    BY <2>1 DEF OpToRel
  <2> QED BY <1>2, <2>2
<1> QED BY <1>2, <1>3 DEF First

\* A conjunct of the invariant depends on the variables it names only.
LEMMA Frame ==
  /\ StackInUse /\ UNCHANGED <<state, kstack, cproc>> => StackInUse'
  /\ LockCoversSwitch /\ UNCHANGED <<state, lock, cproc>> => LockCoversSwitch'
  /\ LocksKeepOff /\ UNCHANGED <<lock, intr, tickslock, cproc>> => LocksKeepOff'
  /\ ForkOwnsSlot /\ UNCHANGED <<pc, np, state, kstack, parent>> => ForkOwnsSlot'
  /\ StacksAndInit /\ UNCHANGED <<state, kstack, panicked, pc>> => StacksAndInit'
  /\ SleepUnderTickslock /\ UNCHANGED <<pc, tickslock, left>> => SleepUnderTickslock'
  /\ NotOwnParent /\ UNCHANGED parent => NotOwnParent'
  /\ ParentsLive /\ UNCHANGED <<state, parent>> => ParentsLive'
  /\ NoLostWakeup /\ UNCHANGED <<state, parent, chan, left, intr>> => NoLostWakeup'
  BY DEF StackInUse, LockCoversSwitch, LocksKeepOff, ForkOwnsSlot, StacksAndInit, SleepUnderTickslock,
         NotOwnParent, ParentsLive, NoLostWakeup, DeadKids, Kids

-----------------------------------------------------------------------------
(* scheduler() and sched() *)

LEMMA InitInv == Init => ProcInv
<1> SUFFICES ASSUME Init PROVE ProcInv
  OBVIOUS
<1>1. ProcShape
  <2>1. /\ state \in [Slots -> {"UNUSED", "EMBRYO", "RUNNABLE", "RUNNING", "SLEEPING", "ZOMBIE"}]
        /\ pid \in [Slots -> Nat] /\ nextpid \in Nat /\ desktop \in Nat
        /\ parent \in [Slots -> {0} \cup Slots]
        /\ killed \in [Slots -> BOOLEAN] /\ kstack \in [Slots -> BOOLEAN] /\ panicked \in BOOLEAN
        /\ chan \in [Slots -> {None, Ticks} \cup Slots]
    BY DEF Init
  <2>2. pc \in [Slots -> {"none", "forkret", "user", "ret", "exit", "zombie", "fork_alloc", "fork_ready",
                         "wait", "waitloop", "tick_lock", "tick_sleep", "slept", "tick_test"}]
    BY DEF Init
  <2>3. /\ np \in [Slots -> {None} \cup Slots]
        /\ left \in [Slots -> {0, 1}]
        /\ lock \in {None} \cup Cpus
        /\ tickslock \in {None, Handler} \cup Slots
    BY DEF Init
  <2>4. /\ cproc \in [Cpus -> {None} \cup Slots]
        /\ scan \in [Cpus -> 1 .. NPROC + 1]
        /\ intr \in [Cpus -> {"no", "tick", "wakeup", "yield"}]
    BY ProcAssumption DEF Init
  <2> QED BY <2>1, <2>2, <2>3, <2>4 DEF ProcShape
<1> QED BY <1>1, Constants
     DEF Init, ProcInv, StackInUse, NotOwnParent, LockCoversSwitch, LocksKeepOff, ForkOwnsSlot, StacksAndInit,
         SleepUnderTickslock, ParentsLive, NoLostWakeup, None

LEMMA AcquireInv ==
  ASSUME ProcInv, NEW c \in Cpus, sched_acquire(c)
  PROVE  ProcInv'
<1> USE DEF ProcInv
<1>1. /\ UNCHANGED <<tab, thr, cproc, intr, tickslock, panicked>>
      /\ lock = None /\ lock' = c /\ intr[c] = "no"
  BY DEF sched_acquire
<1>2. ProcShape'
  BY ProcAssumption DEF ProcShape, sched_acquire, tab, thr
<1>3. LockCoversSwitch'
  BY <1>1, Constants DEF LockCoversSwitch, tab
<1>4. LocksKeepOff'
  BY <1>1 DEF LocksKeepOff
<1> QED BY <1>1, <1>2, <1>3, <1>4, Frame DEF tab, thr

\* The process that is picked is on no other CPU, and has a stack.
LEMMA PickInv ==
  ASSUME ProcInv, NEW c \in Cpus, sched_pick(c), ~panicked
  PROVE  ProcInv'
<1> USE DEF ProcInv
<1> DEFINE s == First(Runnable(c))
<1>1. s \in Slots /\ state[s] = "RUNNABLE"
  BY FirstIsIn DEF sched_pick, Runnable
<1>2. /\ cproc' = [cproc EXCEPT ![c] = s]
      /\ scan' = [scan EXCEPT ![c] = s + 1]
      /\ state' = [state EXCEPT ![s] = "RUNNING"]
      /\ panicked' = ~kstack[s]
      /\ lock = c /\ cproc[c] = None
      /\ UNCHANGED <<pid, parent, killed, chan, kstack, thr, intr, lock, tickslock>>
  BY DEF sched_pick
<1> HIDE DEF s
<1>3. ~panicked'
  BY <1>1, <1>2 DEF StacksAndInit
<1>4. ProcShape'
  BY <1>1, <1>2, <1>3, ProcAssumption DEF ProcShape, thr, Slots
<1>12. StackInUse'
  BY <1>1, <1>2, Constants DEF StackInUse, StacksAndInit, ProcShape
<1>5. LockCoversSwitch'
  <2>1. \A d \in Cpus : cproc[d] # s
    BY <1>1, <1>2, Constants DEF LockCoversSwitch
  <2> QED BY <1>1, <1>2, <2>1 DEF LockCoversSwitch, ProcShape
<1>6. LocksKeepOff'
  BY <1>1, <1>2, Constants DEF LocksKeepOff, ProcShape
<1>7. ForkOwnsSlot'
  BY <1>1, <1>2 DEF ForkOwnsSlot, ProcShape, thr
<1>8. StacksAndInit'
  BY <1>1, <1>2, <1>3 DEF StacksAndInit, ProcShape, thr
<1>9. SleepUnderTickslock'
  BY <1>2, Frame DEF thr
<1>10. ParentsLive'
  BY <1>1, <1>2 DEF ParentsLive, ProcShape
<1>11. NoLostWakeup'
  BY <1>1, <1>2 DEF NoLostWakeup, DeadKids, Kids, ProcShape, thr
<1> QED BY <1>2, <1>4, <1>5, <1>6, <1>7, <1>8, <1>9, <1>10, <1>11, <1>12, Frame

LEMMA ReleaseInv ==
  ASSUME ProcInv, NEW c \in Cpus, sched_release(c)
  PROVE  ProcInv'
<1> USE DEF ProcInv
<1>1. /\ UNCHANGED <<tab, thr, cpu, tickslock, panicked>>
      /\ lock = c /\ lock' = None /\ cproc[c] = None
  BY DEF sched_release
<1>2. ProcShape'
  BY <1>1 DEF ProcShape, tab, thr, cpu
<1>3. LockCoversSwitch' /\ LocksKeepOff'
  BY <1>1, Constants DEF LockCoversSwitch, LocksKeepOff, tab, cpu
<1> QED BY <1>1, <1>2, <1>3, Frame DEF tab, thr, cpu

LEMMA SwtchInv ==
  ASSUME ProcInv, NEW c \in Cpus, swtch(c)
  PROVE  ProcInv'
<1> USE DEF ProcInv
<1>1. /\ UNCHANGED <<tab, thr, scan, intr, lock, tickslock, panicked>>
      /\ lock = c /\ cproc' = [cproc EXCEPT ![c] = None]
  BY DEF swtch
<1>2. ProcShape'
  BY <1>1 DEF ProcShape, tab, thr
<1>3. StackInUse' /\ LockCoversSwitch' /\ LocksKeepOff'
  BY <1>1, Constants DEF ProcShape, StackInUse, LockCoversSwitch, LocksKeepOff, tab
<1> QED BY <1>1, <1>2, <1>3, Frame DEF tab, thr

\* A process that has been switched to releases the lock.
LEMMA ResumeInv ==
  ASSUME ProcInv, NEW s \in Slots, NEW c \in Cpus, resume(s, c)
  PROVE  ProcInv'
<1> USE DEF ProcInv
<1>1. /\ cproc[c] = s /\ state[s] = "RUNNING" /\ lock = c /\ ~panicked /\ pc[s] # "waitloop"
      /\ lock' = None
      /\ chan' = [chan EXCEPT ![s] = None]
      /\ pc' = [pc EXCEPT ![s] = CASE @ = "forkret" -> "user"
                                   [] @ = "slept" -> "tick_test"
                                   [] @ = "user" /\ killed[s] -> "exit"
                                   [] OTHER -> @]
      /\ UNCHANGED <<state, pid, parent, killed, kstack, np, left, nextpid, desktop, cproc, scan, intr,
                     panicked, tickslock>>
  BY DEF resume, Resumes, cpu
<1>2. /\ pc'[s] \in {pc[s], "user", "tick_test", "exit"}
      /\ \A t \in Slots \ {s} : pc'[t] = pc[t]
      /\ pc' = [pc EXCEPT ![s] = pc'[s]]
  BY <1>1 DEF ProcShape
<1>3. ProcShape'
  BY <1>1, <1>2 DEF ProcShape
<1>4. LockCoversSwitch' /\ LocksKeepOff'
  BY <1>1, Constants DEF LockCoversSwitch, LocksKeepOff
<1>5. ForkOwnsSlot'
  BY <1>1, <1>2 DEF ForkOwnsSlot
<1>6. StacksAndInit' /\ SleepUnderTickslock'
  BY <1>1, <1>2 DEF StacksAndInit, SleepUnderTickslock
<1>7. ParentsLive'
  BY <1>1, Frame
<1>8. NoLostWakeup'
  BY <1>1 DEF ProcShape, NoLostWakeup, DeadKids, Kids
<1> QED BY <1>1, <1>3, <1>4, <1>5, <1>6, <1>7, <1>8, Frame

-----------------------------------------------------------------------------
(* System calls *)

\* A step of s that moves its pc only, or marks it killed as well.
LEMMA MovesInv ==
  ASSUME ProcInv, NEW s \in Slots, NEW c \in Cpus, Runs(s, c),
         pc[s] \in {"user", "ret"},
         NEW x \in {"user", "exit", "wait", "tick_lock"},
         pc' = [pc EXCEPT ![s] = x],
         killed' = killed \/ killed' = [killed EXCEPT ![s] = TRUE],
         UNCHANGED <<state, pid, parent, chan, kstack, np, left, nextpid, desktop, cpu, lock, tickslock, panicked>>
  PROVE  ProcInv'
<1> USE DEF ProcInv
<1>1. ProcShape'
  BY DEF ProcShape, cpu
<1>2. ForkOwnsSlot' /\ SleepUnderTickslock'
  BY DEF ProcShape, ForkOwnsSlot, SleepUnderTickslock
<1>3. StacksAndInit'
  BY DEF ProcShape, StacksAndInit, Runs
<1> QED BY <1>1, <1>2, <1>3, Frame DEF cpu

LEMMA CallsInv ==
  ASSUME ProcInv, NEW s \in Slots, NEW c \in Cpus,
         \/ enter_killed(s, c) \/ sysret(s, c) \/ fault(s, c)
         \/ call_exit(s, c) \/ call_wait(s, c) \/ call_sleep(s, c)
  PROVE  ProcInv'
<1>1. CASE sysret(s, c)
  <2>1. IF killed[s] THEN pc' = [pc EXCEPT ![s] = "exit"] ELSE pc' = [pc EXCEPT ![s] = "user"]
    BY <1>1 DEF sysret
  <2> QED BY <1>1, <2>1, MovesInv DEF sysret, tab
<1>2. CASE fault(s, c)
  BY <1>2, MovesInv DEF fault
<1>3. CASE enter_killed(s, c)
  BY <1>3, MovesInv DEF enter_killed, tab
<1>4. CASE call_exit(s, c)
  BY <1>4, MovesInv DEF call_exit, Enters, tab
<1>5. CASE call_wait(s, c)
  BY <1>5, MovesInv DEF call_wait, Enters, tab
<1>6. CASE call_sleep(s, c)
  BY <1>6, MovesInv DEF call_sleep, Enters, tab
<1> QED BY <1>1, <1>2, <1>3, <1>4, <1>5, <1>6

\* fork() takes a slot nobody uses and nobody else is filling.
LEMMA ForkAllocInv ==
  ASSUME ProcInv, NEW s \in Slots, NEW c \in Cpus, fork_alloc(s, c)
  PROVE  ProcInv'
<1> USE DEF ProcInv
<1> DEFINE U == {t \in Slots : state[t] = "UNUSED"}
           k == First(U)
<1>1. /\ Runs(s, c) /\ pc[s] = "user"
      /\ UNCHANGED <<parent, killed, chan, kstack, left, desktop, cproc, scan, intr, lock, tickslock, panicked>>
  BY DEF fork_alloc, Enters, cpu
<1>2. CASE U = {}
  <2>1. /\ UNCHANGED <<state, pid, np, nextpid>>
        /\ pc' = [pc EXCEPT ![s] = IF s = initproc THEN "exit" ELSE "ret"]
    BY <1>2 DEF fork_alloc
  <2>2. PICK x \in {"exit", "ret"} : pc' = [pc EXCEPT ![s] = x]
    BY <2>1
  <2>3. ProcShape'
    BY <1>1, <2>1, <2>2 DEF ProcShape
  <2>4. ForkOwnsSlot' /\ SleepUnderTickslock' /\ StacksAndInit'
    BY <1>1, <2>1, <2>2 DEF ProcShape, ForkOwnsSlot, SleepUnderTickslock, StacksAndInit, Runs
  <2> QED BY <1>1, <2>1, <2>3, <2>4, Frame
<1>3. CASE U # {}
  <2>1. k \in Slots /\ state[k] = "UNUSED"
    BY <1>3, FirstIsIn
  <2>2. /\ state' = [state EXCEPT ![k] = "EMBRYO"]
        /\ pid' = [pid EXCEPT ![k] = nextpid]
        /\ nextpid' = nextpid + 1
        /\ np' = [np EXCEPT ![s] = k]
        /\ pc' = [pc EXCEPT ![s] = "fork_alloc"]
    BY <1>3 DEF fork_alloc
  <2> HIDE DEF k
  <2>3. ProcShape'
    BY <1>1, <2>1, <2>2 DEF ProcShape
  <2>4. StackInUse' /\ LockCoversSwitch'
    BY <1>1, <2>1, <2>2 DEF ProcShape, StackInUse, LockCoversSwitch, Runs
  <2>5. ForkOwnsSlot'
    BY <1>1, <2>1, <2>2 DEF ProcShape, ForkOwnsSlot
  <2>6. StacksAndInit' /\ SleepUnderTickslock'
    BY <1>1, <2>1, <2>2 DEF ProcShape, StacksAndInit, SleepUnderTickslock, Runs
  <2>7. ParentsLive'
    BY <1>1, <2>1, <2>2 DEF ProcShape, ParentsLive
  <2>8. NoLostWakeup'
    BY <1>1, <2>1, <2>2 DEF ProcShape, NoLostWakeup, DeadKids, Kids
  <2> QED BY <1>1, <2>3, <2>4, <2>5, <2>6, <2>7, <2>8, Frame
<1> QED BY <1>2, <1>3

LEMMA ForkFailInv ==
  ASSUME ProcInv, NEW s \in Slots, NEW c \in Cpus, fork_fail(s, c)
  PROVE  ProcInv'
<1> USE DEF ProcInv
<1> DEFINE k == np[s]
<1>1. /\ Runs(s, c) /\ pc[s] = "fork_alloc"
      /\ state' = [state EXCEPT ![k] = "UNUSED"]
      /\ np' = [np EXCEPT ![s] = None]
      /\ pc' = [pc EXCEPT ![s] = IF s = initproc THEN "exit" ELSE "ret"]
      /\ UNCHANGED <<pid, parent, killed, chan, kstack, left, nextpid, desktop, cproc, scan, intr, lock,
                     tickslock, panicked>>
  BY DEF fork_fail, cpu
<1>2. k \in Slots /\ state[k] = "EMBRYO" /\ \A t \in Slots \ {s} : pc[t] \in {"fork_alloc", "fork_ready"} => np[t] # k
  BY <1>1 DEF ForkOwnsSlot
<1>3. PICK x \in {"exit", "ret"} : pc' = [pc EXCEPT ![s] = x]
  BY <1>1
<1> HIDE DEF k
<1>4. ProcShape'
  BY <1>1, <1>2, <1>3 DEF ProcShape
<1>5. StackInUse' /\ LockCoversSwitch'
  BY <1>1, <1>2 DEF ProcShape, StackInUse, LockCoversSwitch
<1>6. ForkOwnsSlot'
  BY <1>1, <1>2, <1>3 DEF ProcShape, ForkOwnsSlot
<1>7. StacksAndInit' /\ SleepUnderTickslock'
  BY <1>1, <1>2, <1>3 DEF ProcShape, StacksAndInit, SleepUnderTickslock, Runs
<1>8. ParentsLive'
  BY <1>1, <1>2 DEF ProcShape, ParentsLive
<1>9. NoLostWakeup'
  BY <1>1, <1>2 DEF ProcShape, NoLostWakeup, DeadKids, Kids
<1> QED BY <1>1, <1>4, <1>5, <1>6, <1>7, <1>8, <1>9, Frame

LEMMA ForkCopyInv ==
  ASSUME ProcInv, NEW s \in Slots, NEW c \in Cpus, fork_copy(s, c)
  PROVE  ProcInv'
<1> USE DEF ProcInv
<1> DEFINE k == np[s]
<1>1. /\ Runs(s, c) /\ pc[s] = "fork_alloc"
      /\ kstack' = [kstack EXCEPT ![k] = TRUE]
      /\ parent' = [parent EXCEPT ![k] = s]
      /\ pc' = [pc EXCEPT ![s] = "fork_ready", ![k] = "forkret"]
      /\ UNCHANGED <<state, pid, killed, chan, np, left, nextpid, desktop, cproc, scan, intr, lock, tickslock, panicked>>
  BY DEF fork_copy, cpu
<1>2. /\ k \in Slots /\ state[k] = "EMBRYO" /\ k # s
      /\ \A t \in Slots \ {s} : pc[t] \in {"fork_alloc", "fork_ready"} => np[t] # k
  BY <1>1 DEF ForkOwnsSlot, Runs
<1>3. ProcShape'
  BY <1>1, <1>2 DEF ProcShape
<1>4. ForkOwnsSlot'
  <2>1. /\ pc'[s] = "fork_ready" /\ pc'[k] = "forkret" /\ \A t \in Slots \ {s, k} : pc'[t] = pc[t]
        /\ kstack'[k] /\ parent'[k] = s
        /\ \A t \in Slots \ {k} : kstack'[t] = kstack[t] /\ parent'[t] = parent[t]
    BY <1>1, <1>2 DEF ProcShape
  <2> HIDE DEF k
  <2>2. np[s] = k
    BY DEF k
  <2>3. np' = np /\ state' = state
    BY <1>1
  <2> SUFFICES ASSUME NEW t \in Slots, pc'[t] \in {"fork_alloc", "fork_ready"}
               PROVE  /\ np[t] \in Slots /\ state[np[t]] = "EMBRYO"
                      /\ pc'[t] = "fork_ready" => kstack'[np[t]] /\ parent'[np[t]] = t
                      /\ \A u \in Slots \ {t} : pc'[u] \in {"fork_alloc", "fork_ready"} => np[u] # np[t]
    BY <2>3 DEF ForkOwnsSlot
  <2>4. \A u \in Slots \ {s} : pc'[u] \in {"fork_alloc", "fork_ready"} => pc'[u] = pc[u] /\ np[u] # k
    BY <1>2, <2>1
  <2>5. CASE t = s
    BY <1>2, <2>1, <2>2, <2>4, <2>5
  <2>6. CASE t # s
    <3>1. pc[t] = pc'[t] /\ np[t] # k
      BY <2>4, <2>6
    <3>2. /\ np[t] \in Slots /\ state[np[t]] = "EMBRYO"
          /\ pc[t] = "fork_ready" => kstack[np[t]] /\ parent[np[t]] = t
          /\ \A u \in Slots \ {t} : pc[u] \in {"fork_alloc", "fork_ready"} => np[u] # np[t]
      BY <3>1 DEF ForkOwnsSlot
    <3>3. \A u \in Slots \ {t} : pc'[u] \in {"fork_alloc", "fork_ready"} => np[u] # np[t]
      BY <2>2, <2>4, <3>1, <3>2
    <3> QED BY <2>1, <3>1, <3>2, <3>3
  <2> QED BY <2>5, <2>6
<1> HIDE DEF k
<1>5. StacksAndInit' /\ SleepUnderTickslock'
  BY <1>1, <1>2 DEF ProcShape, StacksAndInit, SleepUnderTickslock, Runs
<1>6. StackInUse' /\ NotOwnParent' /\ ParentsLive'
  BY <1>1, <1>2 DEF ProcShape, StackInUse, NotOwnParent, ParentsLive
<1>7. NoLostWakeup'
  BY <1>1, <1>2 DEF ProcShape, NoLostWakeup, DeadKids, Kids
<1> QED BY <1>1, <1>3, <1>4, <1>5, <1>6, <1>7, Frame

LEMMA ForkReadyInv ==
  ASSUME ProcInv, NEW s \in Slots, NEW c \in Cpus, fork_ready(s, c)
  PROVE  ProcInv'
<1> USE DEF ProcInv
<1> DEFINE k == np[s]
<1>1. /\ Runs(s, c) /\ pc[s] = "fork_ready"
      /\ state' = [state EXCEPT ![k] = "RUNNABLE"]
      /\ desktop' = IF s = initproc THEN pid[k] ELSE desktop
      /\ np' = [np EXCEPT ![s] = None]
      /\ pc' = [pc EXCEPT ![s] = "ret"]
      /\ UNCHANGED <<pid, parent, killed, chan, kstack, left, nextpid, cproc, scan, intr, lock, tickslock, panicked>>
  BY DEF fork_ready, cpu
<1>2. /\ k \in Slots /\ state[k] = "EMBRYO" /\ k # s /\ kstack[k] /\ parent[k] = s
      /\ \A t \in Slots \ {s} : pc[t] \in {"fork_alloc", "fork_ready"} => np[t] # k
  BY <1>1 DEF ForkOwnsSlot, Runs
<1> HIDE DEF k
<1>3. ProcShape'
  BY <1>1, <1>2 DEF ProcShape
<1>4. StackInUse' /\ LockCoversSwitch'
  BY <1>1, <1>2 DEF ProcShape, StackInUse, LockCoversSwitch
<1>5. ForkOwnsSlot'
  BY <1>1, <1>2 DEF ProcShape, ForkOwnsSlot
<1>6. StacksAndInit' /\ SleepUnderTickslock'
  BY <1>1, <1>2 DEF ProcShape, StacksAndInit, SleepUnderTickslock, Runs
<1>7. ParentsLive'
  BY <1>1, <1>2, Constants DEF ProcShape, ParentsLive, Runs
<1>8. NoLostWakeup'
  BY <1>1, <1>2 DEF ProcShape, NoLostWakeup, DeadKids, Kids
<1> QED BY <1>1, <1>3, <1>4, <1>5, <1>6, <1>7, <1>8, Frame

\* kill() makes a sleeper runnable; who is killed and when does not matter to
\* the table.
LEMMA KillInv ==
  ASSUME ProcInv, NEW s \in Slots, NEW c \in Cpus, NEW target, kill(s, c, target)
  PROVE  ProcInv'
<1> USE DEF ProcInv
<1> DEFINE P == {k \in Slots : pid[k] = target}
           k == First(P)
<1>1. /\ Runs(s, c) /\ pc[s] = "user" /\ lock = None
      /\ pc' = [pc EXCEPT ![s] = "ret"]
      /\ UNCHANGED <<pid, parent, chan, kstack, np, left, nextpid, desktop, cproc, scan, intr, lock, tickslock, panicked>>
  BY DEF kill, Enters, cpu
<1>2. /\ \/ state' = state
         \/ \E j \in Slots : state[j] = "SLEEPING" /\ state' = [state EXCEPT ![j] = "RUNNABLE"]
      /\ killed' \in [Slots -> BOOLEAN]
  <2>1. CASE P = {}
    BY <2>1 DEF kill, ProcShape
  <2>2. CASE P # {}
    <3>1. k \in Slots
      BY <2>2, FirstIsIn
    <3>2. /\ killed' = [killed EXCEPT ![k] = TRUE]
          /\ state' = [state EXCEPT ![k] = IF @ = "SLEEPING" THEN "RUNNABLE" ELSE @]
      BY <2>2 DEF kill
    <3> HIDE DEF k
    <3> QED BY <3>1, <3>2 DEF ProcShape
  <2> QED BY <2>1, <2>2
<1>3. /\ state' \in [Slots -> {"UNUSED", "EMBRYO", "RUNNABLE", "RUNNING", "SLEEPING", "ZOMBIE"}]
      /\ \A t \in Slots : \/ state'[t] = state[t]
                          \/ (state[t] = "SLEEPING" /\ state'[t] = "RUNNABLE")
  BY <1>2 DEF ProcShape
<1>4. ProcShape'
  BY <1>1, <1>2, <1>3 DEF ProcShape
<1>5. StackInUse' /\ LockCoversSwitch'
  BY <1>1, <1>3, Constants DEF ProcShape, StackInUse, LockCoversSwitch
<1>6. ForkOwnsSlot'
  BY <1>1, <1>3 DEF ProcShape, ForkOwnsSlot
<1>7. StacksAndInit' /\ SleepUnderTickslock'
  BY <1>1, <1>3, Constants DEF ProcShape, StacksAndInit, SleepUnderTickslock, Runs
<1>8. ParentsLive'
  BY <1>1, <1>3 DEF ProcShape, ParentsLive
<1>9. NoLostWakeup'
  BY <1>1, <1>3 DEF NoLostWakeup, DeadKids, Kids
<1> QED BY <1>1, <1>4, <1>5, <1>6, <1>7, <1>8, <1>9, Frame

-----------------------------------------------------------------------------
(* exit() and wait() *)

\* wakeup1() makes sleepers runnable and changes nothing else.
LEMMA WokenTable ==
  ASSUME ProcShape, NEW ch
  PROVE  /\ Woken(state, ch) \in [Slots -> {"UNUSED", "EMBRYO", "RUNNABLE", "RUNNING", "SLEEPING", "ZOMBIE"}]
         /\ \A t \in Slots :
              /\ \/ Woken(state, ch)[t] = state[t]
                 \/ (state[t] = "SLEEPING" /\ Woken(state, ch)[t] = "RUNNABLE")
              /\ chan[t] = ch => Woken(state, ch)[t] # "SLEEPING"
  BY DEF ProcShape, Woken

\* exit() makes s a zombie, wakes its parent, and init if it leaves zombies.
LEMMA ExitTable ==
  ASSUME ProcShape, NEW s \in Slots
  PROVE  /\ ExitState(s) \in [Slots -> {"UNUSED", "EMBRYO", "RUNNABLE", "RUNNING", "SLEEPING", "ZOMBIE"}]
         /\ ExitState(s)[s] = "ZOMBIE"
         /\ \A t \in Slots \ {s} :
              /\ \/ ExitState(s)[t] = state[t]
                 \/ (state[t] = "SLEEPING" /\ ExitState(s)[t] = "RUNNABLE")
              /\ chan[t] = parent[s] => ExitState(s)[t] # "SLEEPING"
              /\ chan[t] = initproc /\ (\E k \in Slots : parent[k] = s /\ state[k] = "ZOMBIE")
                   => ExitState(s)[t] # "SLEEPING"
  BY DEF ProcShape, ExitState, Woken

LEMMA ExitInv ==
  ASSUME ProcInv, NEW s \in Slots, NEW c \in Cpus, exit(s, c)
  PROVE  ProcInv'
<1> USE DEF ProcInv
<1>1. /\ Runs(s, c) /\ pc[s] = "exit" /\ lock = None
      /\ UNCHANGED <<pid, killed, chan, kstack, np, left, nextpid, desktop, cproc, scan, intr, tickslock>>
  BY DEF exit, cpu
<1>2. CASE s = initproc
  <2>1. panicked' = TRUE /\ UNCHANGED <<state, parent, lock, pc>>
    BY <1>2 DEF exit
  <2>2. ProcShape'
    BY <1>1, <2>1 DEF ProcShape
  <2>3. StacksAndInit'
    BY <1>1, <1>2, <2>1 DEF StacksAndInit
  <2> QED BY <1>1, <2>1, <2>2, <2>3, Frame
<1>3. CASE s # initproc
  <2>1. /\ state' = ExitState(s)
        /\ parent' = [k \in Slots |-> IF parent[k] = s THEN initproc ELSE parent[k]]
        /\ lock' = c
        /\ pc' = [pc EXCEPT ![s] = "zombie"]
        /\ panicked' = panicked
    BY <1>3 DEF exit
  <2>2. /\ state' \in [Slots -> {"UNUSED", "EMBRYO", "RUNNABLE", "RUNNING", "SLEEPING", "ZOMBIE"}]
        /\ state'[s] = "ZOMBIE"
        /\ \A t \in Slots \ {s} : \/ state'[t] = state[t]
                                  \/ (state[t] = "SLEEPING" /\ state'[t] = "RUNNABLE")
    BY <2>1, ExitTable
  <2>3. ProcShape'
    BY <1>1, <2>1, <2>2, Constants DEF ProcShape
  <2>4. LockCoversSwitch'
    <3>1. \A d \in Cpus : cproc[d] # None => state[cproc[d]] = "RUNNING"
      BY <1>1, Constants DEF LockCoversSwitch
    <3>2. cproc[c] = s /\ \A d \in Cpus \ {c} : cproc[d] # s
      BY <1>1, Constants DEF LockCoversSwitch, Runs
    <3>3. \A d \in Cpus \ {c} : cproc[d] # None => state'[cproc[d]] = "RUNNING"
      BY <2>2, <3>1, <3>2 DEF ProcShape
    <3>4. lock' = c /\ cproc' = cproc
      BY <1>1, <2>1
    <3> QED BY <3>3, <3>4 DEF LockCoversSwitch
  <2>5. LocksKeepOff' /\ NotOwnParent'
    BY <1>1, <2>1, Constants DEF LocksKeepOff, NotOwnParent, Runs
  <2>10. StackInUse'
    BY <1>1, <2>2, Constants DEF ProcShape, StackInUse
  <2>6. ForkOwnsSlot'
    BY <1>1, <2>1, <2>2 DEF ProcShape, ForkOwnsSlot, Runs
  <2>7. StacksAndInit' /\ SleepUnderTickslock'
    BY <1>1, <1>3, <2>1, <2>2, Constants DEF ProcShape, StacksAndInit, SleepUnderTickslock, Runs
  <2>8. ParentsLive'
    <3> SUFFICES ASSUME NEW t \in Slots \ {initproc}, state'[t] \notin {"UNUSED", "EMBRYO"}
                 PROVE  parent'[t] # 0 /\ state'[parent'[t]] \notin {"UNUSED", "EMBRYO", "ZOMBIE"}
      BY DEF ParentsLive
    <3>1. parent[t] # 0 /\ state[parent[t]] \notin {"UNUSED", "EMBRYO", "ZOMBIE"} /\ parent[t] \in Slots
      <4>1. state[t] \notin {"UNUSED", "EMBRYO"}
        BY <1>1, <2>2 DEF Runs
      <4> QED BY <4>1 DEF ParentsLive, ProcShape
    <3>2. CASE parent[t] = s
      <4>1. parent'[t] = initproc /\ initproc \in Slots
        BY <2>1, <3>2, Constants
      <4>2. state'[initproc] \in {"RUNNABLE", "RUNNING", "SLEEPING"}
        BY <1>3, <2>2, <4>1 DEF StacksAndInit
      <4> QED BY <4>1, <4>2, Constants
    <3>3. CASE parent[t] # s
      <4>1. parent'[t] = parent[t]
        BY <2>1, <3>3
      <4> QED BY <2>2, <3>1, <3>3, <4>1
    <3> QED BY <3>2, <3>3
  <2>9. NoLostWakeup'
    <3> SUFFICES ASSUME NEW t \in Slots, state'[t] = "SLEEPING"
                 PROVE  /\ chan'[t] = t => DeadKids(t)' = {}
                        /\ chan'[t] = Ticks /\ left'[t] = 0 => intr'[0] = "wakeup"
      BY DEF NoLostWakeup
    <3>1. t # s /\ state[t] = "SLEEPING"
      BY <2>2
    <3>2. chan[t] # parent[s] /\ ~(chan[t] = initproc /\ \E k \in Slots : parent[k] = s /\ state[k] = "ZOMBIE")
      BY <2>1, <3>1, ExitTable
    <3>3. ASSUME chan[t] = t, NEW k \in Slots, parent'[k] = t, state'[k] = "ZOMBIE"
          PROVE  FALSE
      <4>1. k # s
        BY <1>3, <2>1, <3>1, <3>2, <3>3 DEF NotOwnParent
      <4>2. state[k] = "ZOMBIE"
        BY <2>2, <3>3, <4>1
      <4>3. CASE parent[k] = s
        BY <2>1, <3>2, <3>3, <4>2, <4>3
      <4>4. CASE parent[k] # s
        <5>1. parent[k] = t
          BY <2>1, <3>3, <4>4
        <5> QED BY <3>1, <3>3, <4>2, <5>1 DEF NoLostWakeup, DeadKids, Kids
      <4> QED BY <4>3, <4>4
    <3>4. chan[t] = t => DeadKids(t)' = {}
      BY <3>3 DEF DeadKids, Kids
    <3> QED BY <1>1, <3>1, <3>4 DEF NoLostWakeup
  <2> QED BY <2>3, <2>4, <2>5, <2>6, <2>7, <2>8, <2>9, <2>10
<1> QED BY <1>2, <1>3

\* wait() looks at the table with the lock held: every process that is on a
\* CPU runs, and no zombie is on one.
LEMMA InWaitLocked ==
  ASSUME ProcInv, NEW s \in Slots, NEW c \in Cpus, InWait(s, c)
  PROVE  /\ cproc[c] = s /\ state[s] = "RUNNING" /\ ~panicked /\ intr[c] = "no"
         /\ pc[s] \in {"wait", "waitloop"} /\ lock \in {None, c}
         /\ \A d \in Cpus : cproc[d] # None => state[cproc[d]] = "RUNNING"
  BY Constants DEF ProcInv, InWait, Runs, Resumes, LockCoversSwitch, LocksKeepOff

LEMMA WaitReapInv ==
  ASSUME ProcInv, NEW s \in Slots, NEW c \in Cpus, wait_reap(s, c)
  PROVE  ProcInv'
<1> USE DEF ProcInv
<1> DEFINE k == First(DeadKids(s))
<1>1. k \in Slots /\ parent[k] = s /\ state[k] = "ZOMBIE"
  BY FirstIsIn DEF wait_reap, DeadKids, Kids
<1>2. /\ InWait(s, c)
      /\ kstack' = [kstack EXCEPT ![k] = FALSE]
      /\ pid' = [pid EXCEPT ![k] = 0]
      /\ parent' = [parent EXCEPT ![k] = 0]
      /\ killed' = [killed EXCEPT ![k] = FALSE]
      /\ state' = [state EXCEPT ![k] = "UNUSED"]
      /\ desktop' = IF s = initproc /\ pid[k] = desktop THEN 0 ELSE desktop
      /\ pc' = [pc EXCEPT ![s] = "ret", ![k] = "none"]
      /\ chan' = [chan EXCEPT ![s] = None]
      /\ lock' = None
      /\ UNCHANGED <<np, left, nextpid, cproc, scan, intr, tickslock, panicked>>
  BY DEF wait_reap, cpu
<1> HIDE DEF k
<1>3. /\ cproc[c] = s /\ state[s] = "RUNNING" /\ ~panicked /\ intr[c] = "no"
      /\ pc[s] \in {"wait", "waitloop"} /\ lock \in {None, c}
      /\ \A d \in Cpus : cproc[d] # None => state[cproc[d]] = "RUNNING"
  BY <1>2, InWaitLocked
<1>4. k # s /\ k # initproc
  BY <1>1, <1>3 DEF StacksAndInit
<1>5. ProcShape'
  BY <1>1, <1>2 DEF ProcShape
<1>6. StackInUse' /\ LockCoversSwitch'
  BY <1>1, <1>2, <1>3 DEF ProcShape, StackInUse, LockCoversSwitch
<1>7. LocksKeepOff' /\ SleepUnderTickslock'
  BY <1>1, <1>2, <1>3, <1>4, Constants DEF ProcShape, LocksKeepOff, SleepUnderTickslock
<1>8. ForkOwnsSlot'
  <2>5. np' = np
    BY <1>2
  <2> SUFFICES ASSUME NEW t \in Slots, pc'[t] \in {"fork_alloc", "fork_ready"}
               PROVE  /\ np[t] \in Slots /\ state'[np[t]] = "EMBRYO"
                      /\ pc'[t] = "fork_ready" => kstack'[np[t]] /\ parent'[np[t]] = t
                      /\ \A u \in Slots \ {t} : pc'[u] \in {"fork_alloc", "fork_ready"} => np[u] # np[t]
    BY <2>5 DEF ForkOwnsSlot
  <2>1. \A u \in Slots : pc'[u] \in {"fork_alloc", "fork_ready"} => pc'[u] = pc[u]
    BY <1>1, <1>2, <1>4 DEF ProcShape
  <2>2. /\ np[t] \in Slots /\ state[np[t]] = "EMBRYO"
        /\ pc[t] = "fork_ready" => kstack[np[t]] /\ parent[np[t]] = t
        /\ \A u \in Slots \ {t} : pc[u] \in {"fork_alloc", "fork_ready"} => np[u] # np[t]
    BY <2>1 DEF ForkOwnsSlot
  <2>3. np[t] # k
    BY <1>1, <2>2
  <2>4. state'[np[t]] = state[np[t]] /\ kstack'[np[t]] = kstack[np[t]] /\ parent'[np[t]] = parent[np[t]]
    BY <1>1, <1>2, <2>2, <2>3 DEF ProcShape
  <2> QED BY <2>1, <2>2, <2>4
<1>9. StacksAndInit'
  BY <1>1, <1>2, <1>3, <1>4, Constants DEF ProcShape, StacksAndInit
<1>10. NotOwnParent' /\ ParentsLive'
  BY <1>1, <1>2, Constants DEF ProcShape, NotOwnParent, ParentsLive
<1>11. NoLostWakeup'
  BY <1>1, <1>2, <1>3, Constants DEF ProcShape, NoLostWakeup, DeadKids, Kids
<1> QED BY <1>5, <1>6, <1>7, <1>8, <1>9, <1>10, <1>11

LEMMA WaitNoneInv ==
  ASSUME ProcInv, NEW s \in Slots, NEW c \in Cpus, wait_none(s, c)
  PROVE  ProcInv'
<1> USE DEF ProcInv
<1>1. /\ InWait(s, c)
      /\ desktop' = IF s = initproc THEN 0 ELSE desktop
      /\ pc' = [pc EXCEPT ![s] = "ret"]
      /\ chan' = [chan EXCEPT ![s] = None]
      /\ lock' = None
      /\ UNCHANGED <<state, pid, parent, killed, kstack, np, left, nextpid, cproc, scan, intr, tickslock, panicked>>
  BY DEF wait_none, cpu
<1>2. /\ cproc[c] = s /\ state[s] = "RUNNING" /\ ~panicked /\ intr[c] = "no"
      /\ \A d \in Cpus : cproc[d] # None => state[cproc[d]] = "RUNNING"
  BY <1>1, InWaitLocked
<1>3. ProcShape'
  BY <1>1 DEF ProcShape
<1>4. LockCoversSwitch' /\ LocksKeepOff'
  BY <1>1, <1>2, Constants DEF LockCoversSwitch, LocksKeepOff
<1>5. ForkOwnsSlot' /\ StacksAndInit' /\ SleepUnderTickslock'
  BY <1>1, <1>2 DEF ProcShape, ForkOwnsSlot, StacksAndInit, SleepUnderTickslock
<1>6. NoLostWakeup'
  BY <1>1, <1>2 DEF ProcShape, NoLostWakeup, DeadKids, Kids
<1> QED BY <1>1, <1>3, <1>4, <1>5, <1>6, Frame

LEMMA WaitSleepInv ==
  ASSUME ProcInv, NEW s \in Slots, NEW c \in Cpus, wait_sleep(s, c)
  PROVE  ProcInv'
<1> USE DEF ProcInv
<1>1. /\ InWait(s, c) /\ DeadKids(s) = {}
      /\ chan' = [chan EXCEPT ![s] = s]
      /\ state' = [state EXCEPT ![s] = "SLEEPING"]
      /\ pc' = [pc EXCEPT ![s] = "waitloop"]
      /\ lock' = c
      /\ UNCHANGED <<pid, parent, killed, kstack, np, left, nextpid, desktop, cproc, scan, intr, tickslock, panicked>>
  BY DEF wait_sleep, cpu
<1>2. /\ cproc[c] = s /\ state[s] = "RUNNING" /\ ~panicked /\ intr[c] = "no"
      /\ \A d \in Cpus : cproc[d] # None => state[cproc[d]] = "RUNNING"
  BY <1>1, InWaitLocked
<1>3. ProcShape'
  BY <1>1 DEF ProcShape
<1>4. StackInUse' /\ LockCoversSwitch'
  BY <1>1, <1>2, Constants DEF ProcShape, StackInUse, LockCoversSwitch
<1>5. LocksKeepOff' /\ SleepUnderTickslock'
  BY <1>1, <1>2 DEF ProcShape, LocksKeepOff, SleepUnderTickslock
<1>6. ForkOwnsSlot' /\ StacksAndInit'
  BY <1>1, <1>2 DEF ProcShape, ForkOwnsSlot, StacksAndInit
<1>7. ParentsLive'
  BY <1>1, <1>2 DEF ProcShape, ParentsLive
<1>8. NoLostWakeup'
  BY <1>1, <1>2, Constants DEF ProcShape, NoLostWakeup, DeadKids, Kids, Ticks
<1> QED BY <1>1, <1>3, <1>4, <1>5, <1>6, <1>7, <1>8, Frame

-----------------------------------------------------------------------------
(* sys_sleep(1) and the clock *)

\* Whoever takes tickslock finds nobody about to sleep under it.
LEMMA TickLockInv ==
  ASSUME ProcInv, NEW s \in Slots, NEW c \in Cpus, tick_lock(s, c) \/ tick_test(s, c)
  PROVE  ProcInv'
<1> USE DEF ProcInv
<1>1. /\ Runs(s, c) /\ tickslock = None /\ pc[s] \in {"tick_lock", "tick_test"}
      /\ UNCHANGED <<state, pid, parent, killed, chan, kstack, np, nextpid, desktop, cproc, scan, intr, lock, panicked>>
  BY DEF tick_lock, tick_test, tab, cpu
<1>2. /\ tickslock' \in {None, s}
      /\ \E x \in {"ret", "tick_sleep"} : pc' = [pc EXCEPT ![s] = x]
      /\ left' = left \/ left' = [left EXCEPT ![s] = 1]
      /\ pc'[s] = "tick_sleep" => tickslock' = s /\ left'[s] # 0
  BY <1>1 DEF tick_lock, tick_test, ProcShape
<1>3. ProcShape'
  BY <1>1, <1>2 DEF ProcShape
<1>4. LocksKeepOff'
  BY <1>1, <1>2, Constants DEF LocksKeepOff, Handler, None
<1>5. \A t \in Slots : pc[t] # "tick_sleep"
  BY <1>1, Constants DEF SleepUnderTickslock
<1>6. ForkOwnsSlot' /\ StacksAndInit'
  BY <1>1, <1>2 DEF ProcShape, ForkOwnsSlot, StacksAndInit, Runs
<1>7. SleepUnderTickslock'
  BY <1>2, <1>5 DEF ProcShape, SleepUnderTickslock
<1>8. NoLostWakeup'
  BY <1>1, <1>2 DEF ProcShape, NoLostWakeup, DeadKids, Kids
<1> QED BY <1>1, <1>3, <1>4, <1>6, <1>7, <1>8, Frame

LEMMA TickKilledInv ==
  ASSUME ProcInv, NEW s \in Slots, NEW c \in Cpus, tick_killed(s, c)
  PROVE  ProcInv'
<1> USE DEF ProcInv
<1>1. /\ Runs(s, c) /\ tickslock = s /\ pc[s] = "tick_sleep" /\ tickslock' = None
      /\ pc' = [pc EXCEPT ![s] = "ret"]
      /\ UNCHANGED <<state, pid, parent, killed, chan, kstack, np, left, nextpid, desktop, cproc, scan, intr, lock, panicked>>
  BY DEF tick_killed, tab, cpu
<1>2. ProcShape'
  BY <1>1 DEF ProcShape
<1>3. LocksKeepOff'
  BY <1>1, Constants DEF LocksKeepOff, Handler
<1>4. ForkOwnsSlot' /\ StacksAndInit' /\ SleepUnderTickslock'
  BY <1>1 DEF ProcShape, ForkOwnsSlot, StacksAndInit, SleepUnderTickslock, Runs
<1> QED BY <1>1, <1>2, <1>3, <1>4, Frame

\* The sleeper has time left, and it had tickslock when it saw that.
LEMMA TickSleepInv ==
  ASSUME ProcInv, NEW s \in Slots, NEW c \in Cpus, tick_sleep(s, c)
  PROVE  ProcInv'
<1> USE DEF ProcInv
<1>1. /\ Runs(s, c) /\ tickslock = s /\ pc[s] = "tick_sleep" /\ lock = None
      /\ tickslock' = None
      /\ chan' = [chan EXCEPT ![s] = Ticks]
      /\ state' = [state EXCEPT ![s] = "SLEEPING"]
      /\ pc' = [pc EXCEPT ![s] = "slept"]
      /\ lock' = c
      /\ UNCHANGED <<pid, parent, killed, kstack, np, left, nextpid, desktop, cproc, scan, intr, panicked>>
  BY DEF tick_sleep, cpu
<1>2. ProcShape'
  BY <1>1 DEF ProcShape
<1>3. StackInUse' /\ LockCoversSwitch'
  BY <1>1, Constants DEF ProcShape, StackInUse, LockCoversSwitch, Runs
<1>4. LocksKeepOff'
  BY <1>1, Constants DEF LocksKeepOff, Runs, Handler
<1>5. ForkOwnsSlot' /\ StacksAndInit'
  BY <1>1 DEF ProcShape, ForkOwnsSlot, StacksAndInit, Runs
<1>6. SleepUnderTickslock'
  BY <1>1 DEF ProcShape, SleepUnderTickslock
<1>7. ParentsLive'
  BY <1>1 DEF ProcShape, ParentsLive, Runs
<1>8. NoLostWakeup'
  BY <1>1, Constants DEF ProcShape, SleepUnderTickslock, NoLostWakeup, DeadKids, Kids, Ticks, Runs
<1> QED BY <1>1, <1>2, <1>3, <1>4, <1>5, <1>6, <1>7, <1>8, Frame

LEMMA TimerInv ==
  ASSUME ProcInv, NEW c \in Cpus, timer(c)
  PROVE  ProcInv'
<1> USE DEF ProcInv
<1>1. /\ intr[c] = "no" /\ lock # c /\ (c = 0 \/ cproc[c] # None)
      /\ intr' = [intr EXCEPT ![c] = IF c = 0 THEN "tick" ELSE "yield"]
      /\ UNCHANGED <<tab, thr, cproc, scan, lock, tickslock, panicked>>
  BY DEF timer, IntrOn
<1>2. ProcShape'
  BY <1>1 DEF ProcShape, tab, thr
<1>3. LocksKeepOff'
  BY <1>1 DEF ProcShape, LocksKeepOff
<1>4. NoLostWakeup'
  BY <1>1 DEF ProcShape, NoLostWakeup, DeadKids, Kids, tab, thr
<1> QED BY <1>1, <1>2, <1>3, <1>4, Frame DEF tab, thr

\* Time passes for everybody at once, and the wakeup is on its way.
LEMMA TimerTickInv ==
  ASSUME ProcInv, NEW c \in Cpus, timer_tick(c)
  PROVE  ProcInv'
<1> USE DEF ProcInv
<1>1. /\ c = 0 /\ lock # c /\ tickslock = None /\ tickslock' = Handler
      /\ left' = [s \in Slots |-> 0]
      /\ intr' = [intr EXCEPT ![c] = "wakeup"]
      /\ UNCHANGED <<tab, pc, np, nextpid, desktop, cproc, scan, lock, panicked>>
  BY DEF timer_tick, LocksKeepOff
<1>2. ProcShape'
  BY <1>1 DEF ProcShape, tab
<1>3. LocksKeepOff'
  BY <1>1 DEF ProcShape, LocksKeepOff
<1>4. SleepUnderTickslock'
  BY <1>1, Constants DEF SleepUnderTickslock
<1>5. NoLostWakeup'
  BY <1>1 DEF ProcShape, NoLostWakeup, DeadKids, Kids, tab
<1> QED BY <1>1, <1>2, <1>3, <1>4, <1>5, Frame DEF tab

LEMMA TimerWakeupInv ==
  ASSUME ProcInv, NEW c \in Cpus, timer_wakeup(c)
  PROVE  ProcInv'
<1> USE DEF ProcInv
<1>1. /\ c = 0 /\ intr[c] = "wakeup" /\ lock = None /\ tickslock = Handler /\ ~panicked
      /\ state' = Woken(state, Ticks)
      /\ tickslock' = None
      /\ intr' = [intr EXCEPT ![c] = IF cproc[c] = None THEN "no" ELSE "yield"]
      /\ UNCHANGED <<pid, parent, killed, chan, kstack, thr, cproc, scan, lock, panicked>>
  BY DEF timer_wakeup, LocksKeepOff
<1>2. /\ state' \in [Slots -> {"UNUSED", "EMBRYO", "RUNNABLE", "RUNNING", "SLEEPING", "ZOMBIE"}]
      /\ \A t \in Slots :
           /\ state'[t] = state[t] \/ (state[t] = "SLEEPING" /\ state'[t] = "RUNNABLE")
           /\ chan[t] = Ticks => state'[t] # "SLEEPING"
  BY <1>1, WokenTable
<1>3. ProcShape'
  BY <1>1, <1>2 DEF ProcShape, thr
<1>4. StackInUse' /\ LockCoversSwitch'
  BY <1>1, <1>2, Constants DEF ProcShape, StackInUse, LockCoversSwitch
<1>5. LocksKeepOff'
  BY <1>1, Constants DEF ProcShape, LocksKeepOff
<1>6. ForkOwnsSlot'
  BY <1>1, <1>2 DEF ProcShape, ForkOwnsSlot, thr
<1>7. StacksAndInit'
  BY <1>1, <1>2, Constants DEF ProcShape, StacksAndInit, thr
<1>8. SleepUnderTickslock'
  BY <1>1, Constants DEF SleepUnderTickslock, Handler, thr
<1>9. ParentsLive'
  BY <1>1, <1>2 DEF ProcShape, ParentsLive
<1>10. NoLostWakeup'
  BY <1>1, <1>2 DEF NoLostWakeup, DeadKids, Kids
<1> QED BY <1>1, <1>3, <1>4, <1>5, <1>6, <1>7, <1>8, <1>9, <1>10, Frame

LEMMA TimerYieldInv ==
  ASSUME ProcInv, NEW c \in Cpus, timer_yield(c)
  PROVE  ProcInv'
<1> USE DEF ProcInv
<1> DEFINE s == cproc[c]
<1>1. /\ intr[c] = "yield" /\ ~panicked
      /\ intr' = [intr EXCEPT ![c] = "no"]
      /\ UNCHANGED <<pid, parent, killed, chan, kstack, np, left, nextpid, desktop, cproc, scan, tickslock, panicked>>
  BY DEF timer_yield
<1>2. s \in Slots /\ s # None /\ state[s] = "RUNNING"
  BY <1>1 DEF ProcShape, LockCoversSwitch, LocksKeepOff
<1>3. CASE killed[s] /\ pc[s] = "user"
  <2>1. pc' = [pc EXCEPT ![s] = "exit"] /\ UNCHANGED <<state, lock>>
    BY <1>3 DEF timer_yield
  <2> HIDE DEF s
  <2>2. ProcShape'
    BY <1>1, <1>2, <2>1 DEF ProcShape
  <2>3. LocksKeepOff' /\ ForkOwnsSlot' /\ StacksAndInit' /\ SleepUnderTickslock'
    BY <1>1, <1>2, <1>3, <2>1 DEF ProcShape, LocksKeepOff, ForkOwnsSlot, StacksAndInit, SleepUnderTickslock
  <2>4. NoLostWakeup'
    BY <1>1, <2>1 DEF ProcShape, NoLostWakeup, DeadKids, Kids
  <2> QED BY <1>1, <2>1, <2>2, <2>3, <2>4, Frame
<1>4. CASE ~(killed[s] /\ pc[s] = "user")
  <2>1. lock = None /\ state' = [state EXCEPT ![s] = "RUNNABLE"] /\ lock' = c /\ pc' = pc
    BY <1>4 DEF timer_yield
  <2>2. StackInUse' /\ LockCoversSwitch'
    BY <1>1, <1>2, <2>1, Constants DEF ProcShape, StackInUse, LockCoversSwitch
  <2> HIDE DEF s
  <2>3. ProcShape'
    BY <1>1, <1>2, <2>1 DEF ProcShape
  <2>4. LocksKeepOff'
    BY <1>1, <2>1, Constants DEF ProcShape, LocksKeepOff
  <2>5. ForkOwnsSlot' /\ StacksAndInit'
    BY <1>1, <1>2, <2>1 DEF ProcShape, ForkOwnsSlot, StacksAndInit
  <2>6. ParentsLive'
    BY <1>1, <1>2, <2>1 DEF ProcShape, ParentsLive
  <2>7. NoLostWakeup'
    BY <1>1, <1>2, <2>1 DEF ProcShape, NoLostWakeup, DeadKids, Kids
  <2> QED BY <1>1, <2>1, <2>2, <2>3, <2>4, <2>5, <2>6, <2>7, Frame
<1> QED BY <1>3, <1>4

-----------------------------------------------------------------------------
(* The theorems *)

LEMMA StepInv == ProcInv /\ [Next]_vars => ProcInv'
<1> SUFFICES ASSUME ProcInv, [Next]_vars PROVE ProcInv'
  OBVIOUS
<1>1. ASSUME NEW c \in Cpus, SchedStep(c) PROVE ProcInv'
  BY <1>1, AcquireInv, PickInv, ReleaseInv, SwtchInv DEF SchedStep
<1>2. ASSUME NEW c \in Cpus, timer(c) \/ TimerStep(c) PROVE ProcInv'
  BY <1>2, TimerInv, TimerTickInv, TimerWakeupInv, TimerYieldInv DEF TimerStep
<1>3. ASSUME NEW s \in Slots, NEW c \in Cpus, KernelStep(s, c) PROVE ProcInv'
  BY <1>3, CallsInv, ForkFailInv, ForkCopyInv, ForkReadyInv, ExitInv, WaitReapInv, WaitNoneInv, WaitSleepInv,
     TickLockInv, TickKilledInv, TickSleepInv DEF KernelStep
<1>4. ASSUME NEW s \in Slots, NEW c \in Cpus, UserStep(s, c) PROVE ProcInv'
  BY <1>4, CallsInv, ForkAllocInv, KillInv DEF UserStep
<1>5. CASE UNCHANGED vars
  <2>1. UNCHANGED <<state, pid, parent, killed, chan, kstack, pc, np, left, nextpid, desktop, lock, tickslock,
                    cproc, scan, intr, panicked>>
    BY <1>5 DEF vars, tab, thr, cpu
  <2>2. ProcShape'
    BY <2>1 DEF ProcShape, ProcInv
  <2> QED BY <2>1, <2>2, Frame DEF ProcInv
<1> QED BY <1>1, <1>2, <1>3, <1>4, <1>5, ResumeInv DEF Next, Halted

\* What the whole of proc.c relies on: the lock covers every switch, fork()
\* owns the slot it fills, whoever can run has a stack, init never dies.
THEOREM ProcInvariant == Spec => []ProcInv
  BY InitInv, StepInv, PTL DEF Spec

\* wait() never frees the stack, or gives away the slot, of a process that is
\* still on a CPU: exit() keeps ptable.lock until the scheduler has left it.
THEOREM StacksStayInUse == Spec => []StackInUse
<1>1. ProcInv => StackInUse
  BY DEF ProcInv
<1> QED BY <1>1, ProcInvariant, PTL

\* exit() hands its children to init in the step that makes it a zombie: every
\* process has a parent that can still wait for it.
THEOREM ParentsStayLive == Spec => []ParentsLive
<1>1. ProcInv => ParentsLive
  BY DEF ProcInv
<1> QED BY <1>1, ProcInvariant, PTL

\* exit() wakes whoever may wait for it, and sleep() lets go of its lock only
\* with ptable.lock held: no wakeup of wait() or sys_sleep() is lost.
THEOREM WakeupsArrive == Spec => []NoLostWakeup
<1>1. ProcInv => NoLostWakeup
  BY DEF ProcInv
<1> QED BY <1>1, ProcInvariant, PTL
=============================================================================
