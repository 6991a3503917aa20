------------------------------- MODULE Memory -------------------------------
(***************************************************************************)
(* Physical pages and page tables: the allocator (src/kernel/kalloc.c),    *)
(* the address spaces of src/kernel/vm.c, and the calls that build, grow   *)
(* and free them: fork, exec, sbrk, exit and wait.                         *)
(*                                                                         *)
(* A step takes or gives back pages under kmem.lock; between two calls of  *)
(* kalloc() other processes may take the last page, so that every          *)
(* allocation may be the one that fails.  Pages are interchangeable: the   *)
(* free list is a set, and kalloc() takes its least element.               *)
(***************************************************************************)
EXTENDS Integers, Sequences, FiniteSets, FiniteSetsExt

CONSTANTS
  MemProcs,   \* process slots
  FirstProc,  \* the one that runs at the start
  NPages,     \* pages above the kernel
  KTabs,      \* page-table pages of the kernel's part of a page table
  UserPages,  \* KERNBASE, in pages
  PerTab,     \* entries of a page table
  ExecSizes,  \* pages of the programs' segments
  GrowSizes,  \* pages that sbrk() is asked for, or given back, at once
  MaxJobs     \* bound: calls made

ASSUME MemoryAssumption ==
  /\ FirstProc \in MemProcs
  /\ NPages \in Nat /\ KTabs \in Nat /\ UserPages \in Nat \ {0}
  /\ PerTab \in Nat \ {0} /\ ExecSizes \subseteq Nat
  /\ GrowSizes \subseteq Nat \ {0}
  /\ NPages >= 4 + KTabs

VARIABLES
  freelist, \* kmem.freelist, as a set
  as,       \* [MemProcs -> [state, kstack, pt, sz]]
  job,      \* [MemProcs -> the call a process is in]
  jobs      \* calls made

memVars == <<freelist, as, job, jobs>>

Pages == 1 .. NPages
NTabs == (UserPages + PerTab - 1) \div PerTab

NoTable == [dir |-> 0, ktabs |-> <<>>, tabs |-> [k \in 0 .. NTabs - 1 |-> 0],
            pte |-> [v \in 0 .. UserPages - 1 |-> 0]]
NoJob == [op |-> "none", pc |-> "none", new |-> NoTable, i |-> 0, to |-> 0,
          mem |-> 0, child |-> FirstProc]
NoSpace == [state |-> "unused", kstack |-> 0, pt |-> NoTable, sz |-> 0]

\* The page kalloc() returns.
kalloc == Min(freelist)

\* Every page a page table holds, the user's pages included: freevm() gives
\* back all of them.
PagesOf(t) ==
  ({t.dir} \cup {t.ktabs[k] : k \in DOMAIN t.ktabs}
   \cup {t.tabs[k] : k \in DOMAIN t.tabs} \cup {t.pte[v] : v \in DOMAIN t.pte}) \ {0}

\* deallocuvm() from page from up: the user's pages, not the tables.
deallocuvm(t, from) == [t EXCEPT !.pte = [v \in DOMAIN @ |-> IF v >= from THEN 0 ELSE @[v]]]
DroppedPages(t, from) == {t.pte[v] : v \in from .. UserPages - 1} \ {0}

\* walkpgdir() finds the table of page v.
HasTable(t, v) == t.tabs[v \div PerTab] # 0

NoCall(p) == as[p].state = "runnable" /\ job[p] = NoJob

\* A process can make a call while its code is mapped.
Calls(p) ==
  /\ NoCall(p) /\ as[p].pt.pte[0] # 0
  /\ jobs < MaxJobs
  /\ jobs' = jobs + 1

SetJob(p, j) == job' = [job EXCEPT ![p] = j]

-----------------------------------------------------------------------------

\* fork(): allocproc() takes the kernel stack, then copyuvm().
fork_begin(p, q) ==
  /\ Calls(p)
  /\ as[q].state = "unused"
  /\ IF freelist = {} THEN UNCHANGED <<freelist, as, job>>
     ELSE /\ freelist' = freelist \ {kalloc}
          /\ as' = [as EXCEPT ![q] = [NoSpace EXCEPT !.state = "embryo", !.kstack = kalloc]]
          /\ SetJob(p, [NoJob EXCEPT !.op = "fork", !.pc = "kvm", !.to = as[p].sz,
                                     !.child = q])

\* exec() of a program with n pages of segments, and two for the stack.
exec_begin(p, n) ==
  /\ Calls(p)
  /\ SetJob(p, [NoJob EXCEPT !.op = "exec", !.pc = "kvm", !.to = n + 2])
  /\ UNCHANGED <<freelist, as>>

\* growproc() by n pages: allocuvm() refuses KERNBASE.
grow_begin(p, n) ==
  /\ Calls(p)
  /\ IF as[p].sz + n >= UserPages THEN UNCHANGED job
     ELSE SetJob(p, [NoJob EXCEPT !.op = "grow", !.pc = "mem", !.i = as[p].sz,
                                  !.to = as[p].sz + n])
  /\ UNCHANGED <<freelist, as>>

\* growproc() by minus n pages: size 0 counts as a failure of deallocuvm(),
\* and a size below 0 wraps, on which deallocuvm() leaves all as it is.
shrink(p, n) ==
  LET to == as[p].sz - n IN
  /\ Calls(p)
  /\ IF to < 0 THEN UNCHANGED <<freelist, as>>
     ELSE /\ freelist' = freelist \cup DroppedPages(as[p].pt, to)
          /\ as' = [as EXCEPT ![p].pt = deallocuvm(@, to), ![p].sz = IF to = 0 THEN @ ELSE to]
  /\ UNCHANGED job

-----------------------------------------------------------------------------

\* Mutant: growproc() gives back the last of its pages only.
FailKeepsPages(p) ==
  LET j == job[p] IN
  /\ SetJob(p, NoJob)
  /\ \/ /\ j.op = "fork"
        /\ freelist' = freelist \cup PagesOf(j.new) \cup ({j.mem} \ {0})
                       \cup {as[j.child].kstack}
        /\ as' = [as EXCEPT ![j.child] = NoSpace]
     \/ /\ j.op = "exec"
        /\ freelist' = freelist \cup PagesOf(j.new) \cup ({j.mem} \ {0})
        /\ UNCHANGED as
     \/ /\ j.op = "grow"
        /\ freelist' = freelist \cup DroppedPages(as[p].pt, j.i - 1) \cup ({j.mem} \ {0})
        /\ as' = [as EXCEPT ![p].pt = deallocuvm(@, j.i - 1)]

\* The error paths: fork() gives back the new table and the kernel stack,
\* exec() the new table, growproc() the pages it has added so far; each of
\* them the page that could not be mapped.
Fail(p) ==
  LET j == job[p] IN
  /\ SetJob(p, NoJob)
  /\ \/ /\ j.op = "fork"
        /\ freelist' = freelist \cup PagesOf(j.new) \cup ({j.mem} \ {0})
                       \cup {as[j.child].kstack}
        /\ as' = [as EXCEPT ![j.child] = NoSpace]
     \/ /\ j.op = "exec"
        /\ freelist' = freelist \cup PagesOf(j.new) \cup ({j.mem} \ {0})
        /\ UNCHANGED as
     \/ /\ j.op = "grow"
        /\ freelist' = freelist \cup DroppedPages(as[p].pt, as[p].sz) \cup ({j.mem} \ {0})
        /\ as' = [as EXCEPT ![p].pt = deallocuvm(@, as[p].sz)]

\* setupkvm(): the directory, then the tables of the kernel's part.
setupkvm(p) ==
  LET j == job[p] IN
  /\ j.pc = "kvm"
  /\ IF freelist = {} THEN Fail(p)
     ELSE /\ freelist' = freelist \ {kalloc}
          /\ SetJob(p,
               IF j.new.dir = 0 THEN [j EXCEPT !.new.dir = kalloc]
               ELSE [j EXCEPT !.new.ktabs = Append(@, kalloc),
                              !.pc = IF Len(j.new.ktabs) + 1 = KTabs THEN "mem" ELSE "kvm"])
          /\ UNCHANGED as
  /\ UNCHANGED jobs

Table(p) == IF job[p].op = "grow" THEN as[p].pt ELSE job[p].new

\* Put a page, and the table it needed, in the address space being built.
Mapped(p, t) ==
  IF job[p].op = "grow"
  THEN /\ as' = [as EXCEPT ![p].pt = t]
       /\ SetJob(p, [job[p] EXCEPT !.pc = "mem", !.i = @ + 1, !.mem = 0])
  ELSE /\ SetJob(p, [job[p] EXCEPT !.new = t, !.pc = "mem", !.i = @ + 1, !.mem = 0])
       /\ UNCHANGED as

\* allocuvm() and copyuvm(): the next page of the user's part.
user_page(p) ==
  LET j == job[p] IN
  /\ j.pc = "mem" /\ j.i < j.to
  /\ IF freelist = {} \/ (j.op = "exec" /\ j.to >= UserPages) THEN Fail(p)
     ELSE /\ freelist' = freelist \ {kalloc}
          /\ IF HasTable(Table(p), j.i)
             THEN Mapped(p, [Table(p) EXCEPT !.pte[j.i] = kalloc])
             ELSE /\ SetJob(p, [j EXCEPT !.pc = "tab", !.mem = kalloc])
                  /\ UNCHANGED as
  /\ UNCHANGED jobs

\* mappages(): walkpgdir() allocates the table.
mappages(p) ==
  LET j == job[p] IN
  /\ j.pc = "tab"
  /\ IF freelist = {} THEN Fail(p)
     ELSE /\ freelist' = freelist \ {kalloc}
          /\ Mapped(p, [Table(p) EXCEPT !.tabs[j.i \div PerTab] = kalloc, !.pte[j.i] = j.mem])
  /\ UNCHANGED jobs

\* exec() finds that the file is no program, before it has a page table.
exec_bad(p) ==
  /\ job[p].op = "exec" /\ job[p].pc = "kvm" /\ job[p].new.dir = 0
  /\ Fail(p)
  /\ UNCHANGED jobs

\* A segment cannot be read, or has a header that exec() refuses: the pages
\* of the segments so far are there.
loaduvm_fails(p) ==
  /\ job[p].op = "exec" /\ job[p].pc = "mem" /\ job[p].i <= job[p].to - 2
  /\ Fail(p)
  /\ UNCHANGED jobs

\* Too many arguments, or no room for them on the new stack.
copyout_fails(p) ==
  /\ job[p].op = "exec" /\ job[p].pc = "mem" /\ job[p].i = job[p].to
  /\ Fail(p)
  /\ UNCHANGED jobs

\* The call succeeds; exec() commits to the new image and frees the old one.
commit(p) ==
  LET j == job[p] IN
  /\ j.pc = "mem" /\ j.i = j.to
  /\ \/ /\ j.op = "fork"
        /\ as' = [as EXCEPT ![j.child] = [@ EXCEPT !.state = "runnable", !.pt = j.new,
                                                   !.sz = as[p].sz]]
        /\ UNCHANGED freelist
     \/ /\ j.op = "exec"
        /\ as' = [as EXCEPT ![p].pt = j.new, ![p].sz = j.to]
        /\ freelist' = freelist \cup PagesOf(as[p].pt)
     \/ /\ j.op = "grow"
        /\ as' = [as EXCEPT ![p].sz = j.to]
        /\ UNCHANGED freelist
  /\ SetJob(p, NoJob)
  /\ UNCHANGED jobs

exit_proc(p) ==
  /\ NoCall(p) /\ p # FirstProc
  /\ as' = [as EXCEPT ![p].state = "zombie"]
  /\ UNCHANGED <<freelist, job, jobs>>

\* wait(): the parent frees the stack and the address space.
wait_proc(p, q) ==
  /\ NoCall(p) /\ as[q].state = "zombie"
  /\ freelist' = freelist \cup PagesOf(as[q].pt) \cup {as[q].kstack}
  /\ as' = [as EXCEPT ![q] = NoSpace]
  /\ UNCHANGED <<job, jobs>>

-----------------------------------------------------------------------------

\* userinit() and inituvm(): one process with one page.
FirstTable ==
  [NoTable EXCEPT !.dir = 2, !.ktabs = [k \in 1 .. KTabs |-> 4 + k],
                  !.tabs[0] = 3, !.pte[0] = 4]

MemInit ==
  /\ freelist = Pages \ (1 .. 4 + KTabs)
  /\ as = [p \in MemProcs |->
             IF p = FirstProc
             THEN [state |-> "runnable", kstack |-> 1, pt |-> FirstTable, sz |-> 1]
             ELSE NoSpace]
  /\ job = [p \in MemProcs |-> NoJob]
  /\ jobs = 0

MemNext ==
  \E p \in MemProcs :
    \/ \E q \in MemProcs : fork_begin(p, q) \/ wait_proc(p, q)
    \/ \E n \in ExecSizes : exec_begin(p, n)
    \/ \E n \in GrowSizes : grow_begin(p, n) \/ shrink(p, n)
    \/ setupkvm(p) \/ user_page(p) \/ mappages(p)
    \/ exec_bad(p) \/ loaduvm_fails(p) \/ copyout_fails(p)
    \/ commit(p)
    \/ exit_proc(p)

MemSpec == MemInit /\ [][MemNext]_memVars

-----------------------------------------------------------------------------
(* Properties *)

\* The entries of a page table, those of the kernel's part included.
Places(t) == {<<"dir", 0>>} \cup ({"ktabs"} \X DOMAIN t.ktabs) \cup ({"tabs"} \X DOMAIN t.tabs)
             \cup ({"pte"} \X DOMAIN t.pte)

At(t, l) ==
  CASE l[1] = "dir"   -> t.dir
    [] l[1] = "ktabs" -> t.ktabs[l[2]]
    [] l[1] = "tabs"  -> t.tabs[l[2]]
    [] l[1] = "pte"   -> t.pte[l[2]]

\* No page stands at two places of a table.
EachOnce(t) ==
  LET used == {l \in Places(t) : At(t, l) # 0}
  IN  \A l, m \in used : At(t, l) = At(t, m) => l = m

\* Who can hold pages: a process's page table and kernel stack, the table
\* that its call is building, and the page that its call has in hand.
Holders == MemProcs \X {"pt", "kstack", "new", "mem"}

Holding ==
  [h \in Holders |->
     CASE h[2] = "pt"     -> PagesOf(as[h[1]].pt)
       [] h[2] = "kstack" -> {as[h[1]].kstack} \ {0}
       [] h[2] = "new"    -> PagesOf(job[h[1]].new)
       [] h[2] = "mem"    -> {job[h[1]].mem} \ {0}]

\* Every page is free or held, by one holder only.
Shared(held, free) ==
  LET some == {h \in Holders : held[h] # {}}
  IN  /\ free \cup UNION {held[h] : h \in some} = Pages
      /\ \A h \in some : held[h] \cap free = {}
      /\ \A g, h \in some : g # h => held[g] \cap held[h] = {}

\* Every page is free, or it is one process's kernel stack, page table or
\* memory, or in the hands of one call, and in one place only: none of the
\* paths on which fork(), exec() or sbrk() runs out of memory half-way
\* loses a page or frees one that is in use.
PagesOwnedOnce ==
  /\ Shared(Holding, freelist)
  /\ \A t \in {as[p].pt : p \in MemProcs} \cup {job[p].new : p \in MemProcs} : EachOnce(t)

(* The inductive invariant behind it *)

Tables == [dir : {0} \cup Pages, ktabs : Seq(Pages), tabs : [0 .. NTabs - 1 -> {0} \cup Pages],
           pte : [0 .. UserPages - 1 -> {0} \cup Pages]]

Spaces == [state : {"unused", "embryo", "runnable", "zombie"}, kstack : {0} \cup Pages,
           pt : Tables, sz : 0 .. UserPages]

Jobs == [op : {"none", "fork", "exec", "grow"}, pc : {"none", "kvm", "mem", "tab"},
         new : Tables, i : Nat, to : Nat, mem : {0} \cup Pages, child : MemProcs]

MemShape ==
  /\ freelist \subseteq Pages /\ jobs \in Nat
  /\ as \in [MemProcs -> Spaces] /\ job \in [MemProcs -> Jobs]

\* Nothing is mapped from page n on.
EmptyFrom(t, n) == \A v \in 0 .. UserPages - 1 : v >= n => t.pte[v] = 0

\* A slot that is unused has nothing, one that fork() fills only its stack,
\* and a process whose size is sz has nothing mapped behind it, but for the
\* pages that sbrk() has added so far.
SlotFits(a, j) ==
  /\ a.state = "unused" => a = NoSpace
  /\ a.state = "embryo" => a.pt = NoTable
  /\ a.state # "unused" => a.kstack # 0
  /\ EmptyFrom(a.pt, IF j.op = "grow" THEN j.i ELSE a.sz)

\* A call has a page in hand only while it needs a table for it, and the
\* next page that it maps goes to an empty entry.
JobFits(a, j) ==
  /\ j.op = "none" <=> j.pc = "none"
  /\ j.op = "none" => j = NoJob
  /\ j.op # "none" => a.state = "runnable"
  /\ j.mem # 0 <=> j.pc = "tab"
  /\ j.pc = "kvm" => j.op # "grow" /\ j.i = 0
  /\ j.pc = "mem" => j.i <= j.to
  /\ j.pc = "tab" => /\ j.i < j.to /\ j.i < UserPages
                     /\ ~HasTable(IF j.op = "grow" THEN a.pt ELSE j.new, j.i)
  /\ j.op # "grow" => EmptyFrom(j.new, j.i)

\* What a call knows of the size of its process.
SizeFits(a, j) ==
  /\ j.op = "fork" => j.to = a.sz
  /\ j.op = "exec" => j.to >= 2 /\ (j.to < UserPages \/ (j.i = 0 /\ j.pc # "tab"))
  /\ j.op = "grow" => /\ j.new = NoTable /\ a.sz < j.to /\ j.to < UserPages
                      /\ j.i \in a.sz .. j.to

Consistent(a, j) == SlotFits(a, j) /\ JobFits(a, j) /\ SizeFits(a, j)

\* The children of fork() are slots that it fills, and of one parent each.
ChildrenFit ==
  \A p \in MemProcs : job[p].op = "fork" =>
    /\ as[job[p].child].state = "embryo"
    /\ \A q \in MemProcs \ {p} : job[q].op = "fork" => job[q].child # job[p].child

MemInv ==
  /\ MemShape /\ PagesOwnedOnce
  /\ \A p \in MemProcs : Consistent(as[p], job[p])
  /\ ChildrenFit
=============================================================================
