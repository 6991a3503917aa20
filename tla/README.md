# northos in TLA+

northos is a small x86 operating system descended from xv6: a kernel
(`src/kernel`) with processes, a logging file system, pipes and a window
manager, and user programs (`src/user`, `src/app`) that draw windows and
exchange messages with it. This directory holds TLA+ modules that model its
parts, TLC configurations that check them on small instances, and TLAPS proofs.
`PROJECT.json` maps every definition to the lines it models and lists the runs,
mutants, findings, hazards and theorems.

- [Inventory](#inventory) - [Plan](#plan) - [Modules](#modules)
- [Runs](#runs) - [Proofs](#proofs) - [Findings](#findings) - [Not modelled](#not-modelled)

## Inventory

| Part | State | Operations | Interacts with | Hard because | Correct when |
|---|---|---|---|---|---|
| Write-ahead log (`log.c`) | `log.lh`, `outstanding`, `committing`; header and data blocks on disk | `begin_op`, `log_write`, `end_op`, commit, recovery | called by every file-system call; reads and pins buffers | overlapping calls, space reservation, crashes in and between disk writes, also during recovery | groups of calls reach the disk all or nothing; calls never run out of log space; sleepers wake |
| Buffer cache (`bio.c`, `sleeplock.c`) | `NBUF` buffers in an LRU list, flags, sleep locks | `bget`, `bread`, `bwrite`, `brelse` | log above, disk driver below | recycling against pinning; bounded pool | one buffer per block; a pinned buffer is never recycled |
| Disk driver (`ide.c`) | request queue, buffer flags | `iderw`, `idestart`, `ideintr`, `idewait` | cache above; the disk's interrupts | requests that overtake the running one, stale interrupts, time-outs | each request ends with the right contents |
| Processes (`proc.c`, `trap.c`, `sysproc.c`, `spinlock.c`, `init.c`) | process table, `ptable.lock`, ticks, per-CPU current process | fork, exit, wait, kill, sleep, wakeup, yield, scheduler, timer | everything sleeps and wakes through it | several CPUs, a lock passed between stacks, lost wakeups, kill against sleep, orphans | no stack freed in use, no lost wakeup, the runnable run, zombies are reaped |
| Memory (`kalloc.c`, `vm.c`, `exec.c`, `growproc`) | free list, page tables, sizes | kalloc, kfree, fork, exec, sbrk, exit | process creation | every allocation may fail, half-way through a table | no page has two owners, none is lost |
| File system (`fs.c`, `file.c`, `sysfile.c`) | inode cache with sleep locks, inodes, bitmap, directories, file table, descriptors | ialloc, ilock, iput, bmap, balloc, dirlink, namex; open, link, unlink, mkdir, ... | log, cache, processes | reference counts and link counts kept in several places under several locks, errors half-way, crashes | the cache agrees with the disk, no block or inode used twice, counts agree, no name for a free inode |
| Disk image (`mkfs.c`) | inodes, blocks, `freeinode`, `freeblock` | ialloc, iappend, balloc | the kernel reads what it wrote | two programs compute the same block numbers | the kernel reads back what was put in |
| Pipes (`pipe.c`, `file.c`) | ring of 512 bytes, counters, open flags | alloc, read, write, close | processes sleep in it; files refer to it | lost wakeups, counters that wrap, close against read and write, kill | bytes in order, a close releases sleepers, nobody sleeps without a reason |
| Console (`console.c`) | input ring with three indices, cursor | interrupt, read | processes, serial port | indices that wrap, partial lines, editing of what is not committed yet | a line is delivered once and whole |
| Keyboard and mouse (`kbd.c`, `mouse.c`) | packet counter, button times, shift flags | two interrupts | one data port for both; window manager | packets out of step, bytes taken by the other handler | events match the buttons, no modifier stays down |
| Window manager (`window_manager.c`, `msg.c`) | list of windows in an array, focus, message queues, one popup, click flags | create, close, minimize, maximize, raise, dispatch, draw, mouse and key handlers | programs through system calls, drivers through interrupts, process table through `windowlist[].proc` | event sequences, stale owners, full queues, slots reused | both directions of the list agree, drawing order is hit order, a close is heeded, only live owners are drawn |
| Window clients (`user_window.c`, `startWindow.c`, `user_handler.c`) | widget list of a window, message in hand, text of an input field | event loop, widget handlers | window manager | widgets removed by their own handlers; text positions computed in three ways | the list is whole, the computations of a place in a text agree |
| Desktop (`desktop.c`) | icons, selection, drag | mouse messages | window manager, processes | messages that are lost, groups at the edge of the screen | a group moves as one |
| Terminal (`terminal.c`) | command line, tree, children, pipes | parser, runcmd, output loop | processes, pipes | which copies of a pipe's end are open, forks that fail | lines mean what they say, the prompt comes back |
| Explorer (`explorer_*.c`) | list, selection, dialog, widgets, path | navigation, create, rename, delete | file system, widgets | many variables for one fact, renames in several calls | screen and selection agree, a rename loses nothing |
| Editor (`editor.c`) | text, cursor, file | keys, mouse, open, save | file system | short writes; row and column from an offset | the cursor moves as shown, what counts as saved is saved |
| User heap (`umalloc.c`) | circular free list | malloc, free | sbrk | joins on either side, at the wrap | blocks are disjoint |
| System-call dispatch (`syscall.c`) | none | fetch arguments | all | bounds | arguments lie in the process |
| Drawing, boot, hardware set-up, calculator, game, command-line tools | pixels, registers, a few numbers | | | | not modelled, see below |

The hazards, each at its line with the properties that would catch it, are in
`PROJECT.json`.

## Plan

Done, in this order: `Journal` (abstract) and `Log` with `LogProofs`; `Proc`; `WindowManager`; `Ide`; `Pipe`; `FileSystem`; `Console`;
`Ps2`; `Memory`; `Umalloc`; `Terminal`; `Widgets` and `Explorer`; `Editor`;
`InputField`; `Desktop`; `Mkfs`.

Then the inductive invariants of the modules and their proofs: `StreamProofs` (of
`Pipe`, `Console` and `Ps2`), `ProcProofs`, `WindowProofs`, `KernelProofs` (of `Ide`
and `Memory`), `FileProofs` and `DiskProofs` (of `FileSystem`), and `UserProofs` (of
`Desktop`, `InputField`, `Umalloc`, `Editor` and `Explorer`).

Next, in this order:

1. `NamedInodesLive` and `AssertionsHold`, which say nothing once a directory was freed that
   a ".." still names, from an invariant on links that does the same.
2. Lemmas on `Mkfs`, whose passes are recursive functions over the image.
3. `BufferCache`: `NBUF` buffers, LRU, sleep locks, as an implementation of the
   cache that `Log` has.
4. `FileSystem` on top of `Journal` instead of its own atomic `Crash`.

## Modules

An action is a handler, or the part of one between two points where others can
see what it does; the names are those of the C functions. An operator whose name
is that of an action with a suffix (`begin_opNoIncrement`) is a mutant: the same
code with a plausible mistake, which the run named in `PROJECT.json` detects.
Bounds are constants with a comment "bound". Behind the properties of a module
that has proofs stands its inductive invariant (`PipeInv`, `ProcInv`, ...), a
conjunction of named parts; the proofs are in modules of their own.

### Journal, Log

`Log` follows `log.c` statement by statement where a crash or another process can
come between: one action per block copied by `write_log`, per header write, per
block installed. `log_write_check` is `bread` by the caller, its change of the
buffer, and the test of `log.lh.n` that `log_write()` makes *before* it takes the
lock; `log_write` is the rest. `bget_recycle` throws any unpinned, unheld block
out of the cache at any time, which covers every replacement policy of `bio.c`; the
limit `NBUF` does not appear. `Crash` may cut the disk write that was next short
(`Torn` contents of that block; a header write is one sector and is atomic, as the
comment "This is the true point at which the current transaction commits" takes
it to be). The three steps of `recover_from_log` are interrupted by crashes too.

A block's contents are one of `Vals`. `OpWrites` is what a call really writes,
`MAXOPBLOCKS` what `begin_op()` reserves, `LOGSIZE` what it reserves against, and
`NLOG` the size of the log area.

`Journal` is what the file system relies on: `view` is read and written by calls,
`stable` is what a crash would leave, and `JCommit` makes them equal in one step
while no call is active. `Log` maps `view` to the contents a `bread()` would
return and `stable` to the disk that recovery would build (`Recovered`).

### Proc

`ptable.lock` is taken by a process, passed through `swtch()` to the scheduler of
its CPU, and released there or by the next process; `lock` is the CPU that holds
it. `pc` is where the thread of a slot is. `fork()` is split at its unlocked
stretches (`fork_alloc`, `fork_copy`, `fork_ready`, `fork_fail`), `sys_sleep` at
`tickslock` and `ptable.lock`, the timer interrupt into the tick, the wakeup and the
yield. `init.c` is the only program with a fixed behaviour; the others call what
they like, compute for ever or fault. Pids stop at `MaxPid`. `left` counts a
sleep of one tick down; longer sleeps repeat the same loop.

### WindowManager

The list is kept as the code keeps it: `next`, `prev`, `head`, `tail`, with a
free slot linking to itself. Walking it is a function with a bounded number of
steps, so that a walk that does not end is seen. Every operation of
`window_manager.c` runs under `wmlock` and is one action. Geometry is reduced to
what decides control: `down(top, bar, content)` takes which window the press hits
and which parts of it, from everything a layout could give (windows may overlap
as they like), and the dock is which of its items lies under the mouse. `halt`
records a stop of the kernel: the two panics, a walk that never ends ("hung"), and
an access to `windowlist[-1]` ("wild"), after which nothing is said. Clients are the
loops of `user_window.c`: take a message, act on it, return. `getMessage()` tests
`cnt` and removes the message in one step, which is exact for a queue with one
reader.

### Ide

The disk is external: one command at a time, an interrupt when it is finished.
`iderw` and `ideintr` hold `idelock`, so each is one step, including the polling of
`idewait()`, during which the disk may finish; `latched` is whether its interrupt
had reached the CPU before the status register was read. `Faulty` lets `idewait()`
time out or report an error. Block contents are two values that alternate with
each write, enough to tell the last one from the one before.

### Pipe

One pipe, with the processes that hold descriptors of its ends. A pass through the
loop of `pipewrite()` or `piperead()` is one step under `p->lock`; the moment
between its last test and `SLEEPING` is a state of its own (`rsleep`, `wsleep`),
because `kill()` can come there. `Wrap` stands for 2^32. `flight` is the queue a pipe
should be; the ring is compared with it.

### FileSystem

One module for `fs.c`, `file.c` and `sysfile.c`, since what can go wrong lies between
them. A step is what a process does from one acquisition of an inode's sleep lock
to the next; `th[p]` records where a call is, the slots and names it holds and its
path. `namex` takes one path element a step. `iput` is two steps, `PutBody` under
the inode's lock and `PutDrop`, which takes `icache.lock` again to decrement, because
another process may look the inode up between them. `dirlink`, `writei`, `itrunc` are
operators on `fs`, the record of disk and inode cache: directories are sequences of
entries in blocks, blocks are allocated from a bitmap scanned in groups of `BPB`, and
addresses are direct and singly indirect. `Crash` empties cache, files and
descriptors and puts the disk back to the last moment when no call was active, which
is what `Log` implements (`AtomicDisk`). `sys_pipe` takes its files and descriptors
one step at a time, since another process may take the last file between them, and its
error paths give them back; `fork` shares and `exit` closes the descriptors of a process. A panic of the code ends the behaviour
in `fs.panic`, and `AssertionsHold` says that none but "out of space" is reached, until
a directory is freed that a ".." still names. That moment is kept in a history variable of its own
(`parentFreed`, set in `HistoryNext` when `DanglingDotDot` becomes true), which the runs
use through `HistorySpec`; no call reads it. A call through such a "..", in the run `files_leave`, reaches the
panic "ilock: inode has no type" (`InodesHaveType`).

The word behind `addrs[NDIRECT]`, which `itrunc()` frees as a doubly indirect block, is
`Overrun`: the `dev` of the next slot, or `AfterCache` behind the last one. Once that slot
was used it is 1, the number of the superblock, whose first word is the number of
blocks of the disk: the request for that block is the panic that `BlocksInRange`
forbids, and the behaviour ends there. In the run `files` inodes are therefore freed
only from slots whose successor was never used, which are the last ones in use.

### Mkfs

The three passes of `main()`: the root, one action per file made and per unit
appended, and the bitmap. `Route` is the arithmetic of `iappend()` on block numbers,
`readi` that of the kernel; `ImageSound` compares them, for files within the singly indirect
block: past it the kernel reads a word that is not an address. The root's size is rounded up past its
blocks when its entries fill them (`RootFull`), which the runs contain and the property excepts.

### Memory, Umalloc

`Memory` has a page table as a function from pages to pages, with the page-table
pages it costs. fork, exec and sbrk (of any number of pages, `GrowSizes`) take one page a step, because
the memory can run out at each: `Fail` gives back what the call has taken, as the error paths of
`allocuvm`, `copyuvm`, `exec` and `allocproc` do. `PagesOwnedOnce` is said of
holders: the kernel's pages, those of each process and those of each call under way
share no page with each other or with the free list, and none holds a page at two
places. `Umalloc` keeps the circular list
in the headers, as the code does, and walks it with a bounded function.

### Console, Ps2

`Console` has the ring with its indices modulo `UintSize`, so that they wrap. `Ps2` has the
port that keyboard and mouse share and both interrupts, with `mouseintr` looping
until the port is empty. The packet machine, the click and double-click timers and
`kbdgetc` follow the code. What the mouse handler hands on is the sequence `events`.

### Terminal

A line is a sequence of tokens; `parseline` to `parseblock` are recursive operators, one
per function. `runcmd` of each process is a step per system call, with the
descriptors of all processes as a function, so that a pipe's read end sees the
end when the last copy of the write end is gone. `pipe()` and `fork()` may fail, in the terminal
(which then shows what its buffer still holds) as in `runcmd`. The loop that reads the output
stops early when the buffer is almost full (`ReadLimit`), and the terminal then waits for the program. Some
programs end only when their user leaves them (`WaitsForUser`), which `user` may do or not.

### Widgets, Explorer, Editor, InputField, Desktop

`Widgets` is the list of `user_window.c` as operators on a window. `Explorer` has one
action per handler and one step per system call of a rename, which may be the last
before a crash. A key that comes after a dialog was closed goes to the slot of its input field
(`user_window.c:185-188`): `wild` records that it was written into the freed field, after which
the properties say nothing. A `read()` that fails during the copy ends it like the end of the file
does, and `before` gives that file up. `Editor`, `InputField` and `Desktop` have one action per message;
positions are offsets into a short text and points of a small screen. The desktop
may lose messages (`MaxLost`), as a full queue does.

## Runs

All state spaces are explored completely.

| Run | Instance | Shows |
|---|---|---|
| `log_atomic` | 2 processes, 3 blocks, 2 contents, 2 blocks a call | `LogInv`, the refinement of `Journal`, whole blocks after any crash, pinning |
| `log_live` | 3 processes, 2 blocks, a log that admits 2 calls | reservations fit, no panic, commits run alone, sleepers wake |
| `kernel` | `Proc` (3 slots, 2 CPUs, 3 pids), `Console`, `Ps2` | stacks, parents, no lost wakeup; the other parts see below |
| `proc_live` | 3 slots, 1 CPU, allocations fail | runnable run, killed die, zombies are reaped |
| `windows_list` | desktop and 2 programs, 3 slots | the list in both directions, stacking order |
| `windows_live` | desktop that may quit, 1 program that may die, 1 slot, 2 start menus | a close is heeded |
| `files` | 2 processes, 5 calls of one of eight programs, 3 inodes, 8 blocks, 1 crash | cache, links, references, bitmap agree; no assertion fails |
| `parts` | `Memory`, `Umalloc`, `Explorer`, `Editor`, `InputField`, `Desktop`, `Mkfs`, `Ide`, `Pipe`, `Terminal` | see below |
| `windows_killed` | desktop and 1 program that may die, 2 slots | *violated*: an assertion of the kernel fails |
| `files_range` | the program of links, no crash | *violated*: blocks outside the disk are asked for |
| `files_leave` | 1 process, 7 calls: makes two directories, removes both from within and leaves | *violated*: the inode of ".." is free |
| `files_cycle` | the program of links, no crash | *violated*: two processes hold what the other waits for |

`kernel` and `parts` are sums: their models share no state, a behaviour picks one
(`part`) and leaves the others as they start, so that the graph is the disjoint union of
the parts' graphs and each property is about the part that names it. Fairness is per
part and per process, and says nothing of a part that was not picked. Both modules contain a list of
the inputs, each with what it is for; the other bounds are in `MCKernel.cfg` and `MCParts.cfg`.

| Part | Properties |
|---|---|
| `Console` | `ConsoleLines`: characters are read once, in order, and only from committed lines |
| `Ps2` | `MouseMessages`: while no byte went astray, packets are taken in step and a double click is two presses within its time; `NoStuckModifier`: no shift flag without its key down, unless a byte went astray |
| `Memory` | `PagesOwnedOnce`: each page is free or has one owner, after every failure too |
| `Umalloc` | `HeapSound`: free blocks and blocks in use are disjoint and cover the heap |
| `Explorer` | `ExplorerConsistent`, `RenameKeepsFiles` |
| `Editor` | `EditorKeepsFaith`: vertical moves keep the column; a text that counts as saved is on the disk |
| `InputField` | `CursorInText`: the three walks of a wrapped text agree with each other (not with the drawing, which wraps one column earlier) |
| `Desktop` | `DragKeepsGroup`: selected icons move as one |
| `Mkfs` | `ImageSound`: the kernel finds every entry, and reads back every file within the singly indirect block |
| `Ide` | `ReadsSeeWrites`, `RequestsEnd`, with 3 blocks, 3 calls and a disk that may fail |
| `Pipe` | `Fifo`, `NoLostWakeup`, `CloseReleases`, with 2 processes that have both ends, a ring of 2, counters modulo 4 and 5 bytes |
| `Terminal` | `ParsesAsMeant`, `PromptReturns`, with 22 commands, 6 bad lines and 4 processes |

Why the bounds are enough for the cases at stake. Log: two overlapping calls that
share and do not share blocks, absorption, a call that joins a group, one that must
wait for space and one that must wait for a commit, and crashes at each of the
writes of a commit of two or three blocks. Proc: init, the desktop and one child
give parent, child and orphan; two CPUs give every pair of simultaneous kernel
paths. Windows: three windows are bottom, middle and top, with raises from each
place; a queue of length one is full at once. Files: two processes at every pair of
locks, a table of files and one of descriptors that fill, also between the steps of pipe(),
a child that shares files with its parent, a bitmap of two blocks, a
file that reaches its indirect block, a directory that grows past one block, a
lookup that meets an inode being dropped. Ide: a request running, one sorted
before it, one behind. Pipe: calls longer than the ring, counters that wrap, either
process waiting for the other. Terminal: pipes of three programs, more processes
than there are, a program that does not exist in each place of a pipe. Memory: fewer
pages than three processes need, tables of two entries, an sbrk of three pages that runs out
after none, one or two of them. Console: a ring of two,
filled, wrapped and edited. Mkfs: files that end in the direct, indirect and
doubly indirect range, an image that fills, a file too large.

`CHECK_DEADLOCK FALSE` is used for `files`, `parts` and the runs of violations on files: their bounds on calls, bytes and events run out, a pipe's
processes may sleep beside an end nobody uses, and two processes may wait for each other
for ever, which `files_cycle` shows. In `kernel` the parts beside `Proc` may stop (`AtBound`),
so that a deadlock would be one of `Proc`.

Fairness. `Log`: processes inside the log are scheduled and the machine, once
booting, gets through recovery unless it crashes again. `Proc`: each CPU that is
free schedules, its clock ticks, an interrupt that was taken is handled, and a
process that is given a CPU again and again gets from one preemption point to
the next (a timer period is far longer than that); nothing is assumed of
programs other than init. `WindowManager`: a program in its event loop is
scheduled. `Ide`: the disk finishes a command it accepted, interrupts are taken,
processes awake run. `Pipe`: processes inside the kernel are scheduled; no program
has to read, write or close. `Terminal`: the terminal and the commands run; nobody
has to enter a line or leave a program (`user` has no fairness).

Some properties hold only under a condition that is part of their statement:
`ListWellFormed` and `StackingSteps` say nothing once the window at the
head of the list was closed, after which the list has no head (see the findings);
`NoLostWakeup` of `Pipe` allows for bytes that a killed writer left without a wakeup
(hazard at `pipe.c:81`); the properties of `Ide` end with the first failure of the
disk, after which requests do hang (hazard at `ide.c:66`); the
liveness of `Proc` excepts a kernel that panicked because init could not fork, and
`CloseHeeded` one that stopped; `SavedIsOnDisk` excepts a save that warned of being
short. `NamedInodesLive` and `AssertionsHold` end when a directory is freed that a ".." still
names, which is how `files_leave` panics. `PromptReturns` excepts a program that waits for its user
while the terminal waits for it, and one that reads the console (`InTheWay`); the terminal has no way
to go on then (`terminal.c:331`). `ExplorerConsistent` and `RenameKeepsFiles` end with a key written
into a freed input field, and `RenameKeepsFiles` gives up a file of which a `read()` failed during
the copy, for the code unlinks it (`explorer_fileops.c:93`), and one that the new name overwrites.
`DragKeepsGroup` is about drags whose icon is still selected: two lost presses, one more than the run
has, make others. `ImageSound` excepts an image mkfs gave up on, files past the singly indirect
block and the size of a root that its entries fill.

## Proofs

Every theorem is about the module's specification without fairness and holds for
every value of the constants that its assumptions allow. In each module the
properties the runs check are conjuncts of an inductive invariant or follow from
it; TLC has checked that invariant before it was proved, and the
theorem `...Invariant` says that it holds.

| Proofs in | Theorems about | Assumptions on the constants |
|---|---|---|
| `LogProofs` | `Log`: `LogInv`, `NoPanic`, `LogSpace`, `CommitAlone`, `PinnedUntilHome`, `NothingTorn`, and that it implements `Journal` (`AtomicDisk`) | `LogAssumption`: types, `Torn` and `NoBuf` are not contents. `EnoughSlack`: see below |
| `StreamProofs` | `Pipe`: `PipeInv`, `Fifo`, `NoLostWakeup`. `Console`: `ConsoleInv`, `ConsoleLines`. `Ps2`: `Ps2Inv`, `NoStuckModifier`, `MouseMessages` | `PipeAssumption`: the counters' range is a multiple of the ring's size and at least twice it, as 2^32 is of 512; somebody called `pipe()`. `ConsoleAssumption`: the indices' range is a multiple of the ring's size and greater, as 2^32 is of 128; the screen has two rows. `Ps2Assumption`: the keyboard sends the scan codes of keys the tables know, and the mouse packets whose first byte has bit 3; a double click takes at most 1000 ticks |
| `ProcProofs` | `Proc`: `ProcInv`, `StackInUse`, `ParentsLive`, `NoLostWakeup` | `ProcAssumption`: a slot and a CPU at least |
| `WindowProofs` | `WindowManager`: `WindowInv`, `ListWellFormed`, `StackingSteps` | `WindowAssumption`: the kinds of processes are disjoint, there is a slot and room for a message |
| `KernelProofs` | `Ide`: `IdeInv`, `ReadsSeeWrites`. `Memory`: `MemInv`, `PagesOwnedOnce` | `IdeAssumption`: blocks are numbers. `MemoryAssumption`: memory for the first process, and sbrk is asked for a page at least |
| `FileProofs` | `FileSystem`: `RefsInv`, `RefsCount` | `SizesAssumption`: processes are finitely many, tables and blocks are not empty, a block holds two directory entries, inode 1 is the root |
| `DiskProofs` | `FileSystem`: `DiskInv`, `CacheCoherent`, `BlocksOwnedOnce` | `SizesAssumption` |
| `UserProofs` | `Desktop`: `DesktopInv`, `DragKeepsGroup`. `InputField`: `FieldInv`, `CursorInText`. `Umalloc`: `HeapInv`, `HeapSound`. `Editor`: `EditorInv`, `EditorKeepsFaith`. `Explorer`: `ExplorerInv`, `RenameKeepsFiles` | `DesktopAssumption`: the icons start on the screen, above the dock. `FieldAssumption`: the width is a number. `UmallocAssumption`: sizes are numbers, and nobody asks for nothing. `EditorAssumption`: the buffer has room for its end, and files are texts. `ExplorerAssumption`: names are finitely many, the table of widgets has more slots than a listing leaves free, and the first disks hold directories and files |

The first part of `StreamProofs` has what `Pipe` and `Console` share: indices that grow modulo one
number and address a ring modulo another, and what an index, a window between two
indices and a window that grows or shrinks at either end hold.

### Log

    EnoughSlack == OpWrites + LOGSIZE < MAXOPBLOCKS + LogCapacity

`LogCapacity` is what
`log_write()` accepts, the smaller of `LOGSIZE` and `NLOG - 1`. `begin_op()` reserves
against `LOGSIZE`, one more than fits when `NLOG = LOGSIZE` as mkfs makes it; with
the sizes of `param.h` (10, 30, 30) the assumption says that a call writes at most 8 of
the 10 blocks it reserves. It cannot simply be dropped: with `OpWrites = MAXOPBLOCKS` and
`NLOG = LOGSIZE` TLC finds the panic of `log_write()`.

`LogInv` adds to the properties

- `HeadersOK`: the headers in memory and on disk name no block twice and fit;
- `CleanBuffersOK`: a cached block nobody pins or holds equals the disk;
- `BootOK`: while booting no process is in a call, the header in memory is the one
  on disk and every block it names is whole in the log, so that recovery can be
  repeated;
- `RunningOK`: `outstanding` is the number of calls, a call's blocks are in the
  header, and `PhaseOK` says for each phase of a commit what has reached the disk.
  Before the header is written the disk holds an empty header and every changed
  block is pinned (`BeforeCommitPoint`); after it the log holds what the cache holds,
  and the blocks installed so far are home (`AfterCommitPoint`).

The count behind `LogSpace` is the cardinality of the set `Reserved` of pairs of a
caller and an unused reservation; `Counting` and `CardAdd` relate it to
`outstanding * MAXOPBLOCKS`. There is one lemma per action (`BeginOpStep` ...
`CrashStep`), combined in `NextInv`. For the refinement there is one lemma per
action again (`...Map`): writing the header is `JCommit`, a crash is `JCrash`, and
installing, clearing and recovering are stutters because `Recovered` does not
change: an installed block is the one the log would put there again.

### Pipe

`NoLostWakeup` is not inductive: that a process goes to sleep rightly depends on what
it found before, under the lock. `PipeInv` has `TestedUnderLock` for the
moment between test and sleep, which is where a wakeup is lost if `release()` came
first; `CallersHoldEnds`, by which an end that somebody reads or writes is open, so that
the pipe is not freed under him; `Used <= PIPESIZE`; and `PipeShape`, in which the
flags say whether an end has descriptors. `Fifo` needs that the ring's size divides the
counters' range: otherwise the ring jumps when a counter wraps.

### Console, Ps2

`ConsoleInv` has `IndicesOrdered` (`r`, `w`, `e` follow one another, and a full ring was
committed), `CallsWantBytes`, `CursorOnScreen` (`cgaputc()` reaches none of its panics)
and `ConsoleLines`. That a full ring is a committed one is what keeps a reader from
waiting for an end of line that has no room.

`Ps2Inv` looks ahead, since a handler acts on bytes sent before. `ShiftOfHeld` says of the flags *once
the bytes on their way are read* that they are those of keys held. `InStep` relates the
place of the next byte in its packet (`NextPlace`) to `mouse.count`, or
to how far mouse.c is in the packet that brings both together again, which takes bit 3 of
first bytes (`FirstBytes`); `LastClick` ties the time kept for a double click to the events
that were handed on.

### Proc

Each of the three properties rests on who may change a slot when. `LockCoversSwitch`:
a CPU whose process has given up the CPU keeps `ptable.lock` until the
scheduler has left its stack, and no process is on two CPUs; hence `wait()`, which needs the lock,
cannot free a stack in use. `LocksKeepOff`: no interrupt is handled on the CPU that holds the
lock, and `tickslock` is the handler's from the tick to the wakeup, so that
`SleepUnderTickslock` carries the test of `sys_sleep` to the sleep. `ForkOwnsSlot`:
two forks do not fill one slot, and nobody else sees it before it is `RUNNABLE`.
`StacksAndInit` (init never dies, and what is not free has a stack) and `NotOwnParent` are what
`ParentsLive` needs when a parent hands its children over.

### WindowManager

The list is a pair of link fields; the proof gives it a witness. `Ordered` says that
some sequence of distinct windows is linked in order from `head` to `tail` and has every window
in use; each operation of the code is a lemma on such sequences (append, remove, remove and append),
and `ListWellFormed`, which walks the links, follows because the walk visits the
sequence. `HandlersHold` says that a program closes, minimizes or raises only a window of its own.
As with the properties, `WindowInv` says this until the window at the head is closed.
`StackingSteps` is an action property: each of those operations appends one window to the
sequence or takes one out of it, so that of any two others the lower one stays the lower
(`Moves`), and an action that does both does it with the same window.

### Ide

`IdeInv` says until the first failure: the queue holds the sleepers, once each
(`QueueOfSleepers`); the command of the disk is that of the head (`DiskWorksOnHead`), although
a request may be sorted in before it; what a buffer and the disk hold in terms of the
last write (`BuffersHold`, `DiskCatchesUp`). The last says of every block what the disk will hold
when its command is done, so that a stale interrupt, or one taken together with the polling,
changes nothing.

### FileSystem

`RefsInv` says of every process, at every point of every call, which references it has
(`CallKeeps`): a reference taken by `iget()` must be in one of the fields of the call, in a
descriptor, a file or a current directory until `iput()` gives it back, error paths
included. The number of those who refer to a slot is a sum over all places that may (`Refs`);
a step changes what one process and one file contribute, and one lemma per kind of step
says by how much (`Tally`).

`DiskInv` says of the disk that every inode has a block for each unit of its size and
every directory block has entries (`InodeSound`), that no two inodes own the same block and that
the bitmap has the blocks owned and the others not (`DiskSound`); of the cache that a valid slot
has what the disk has, that its inode is not free and that no two slots have one inode
(`CacheSound`); and of a call what it relies on of its inodes between two steps (`CallHolds`): that the
directory it is about to write in is loaded and a directory, that the inode it has just allocated is of
the type asked for, that the place found by `dirlookup()` still is within the directory; of a
file open for writing, that its inode is loaded and no directory (`FileHolds`).
`DiskSound` is first proved of the operators, in any state of the disk (`balloc`, `bmap`,
`writei`, `dirlink`, `itrunc`, `iput`, ...), and each says what it leaves alone: a call of another process
keeps what it relied on when inodes only grow and loaded slots stay loaded (`Grows`,
`Steady`), and only the last reference frees an inode (`LastReference`, from `RefsInv`).
A crash returns to a disk of which the same was said.

### Memory

`PagesOwnedOnce` needs to know which page table entries are in use: `Consistent` says
for a process and its call which of stack, tables and entries exist at each point of the call
(`SlotFits`, `JobFits`, `SizeFits`), so that giving them back gives back everything and nothing twice;
`ChildrenFit` says the same of a child that fork is building.
Two groups of lemmas carry it: on holders (`TakePage`, `GiveBack`, `HandOver`: a page, or all a
holder has, moves between the free list and a holder or between two holders), and on tables
(`PutDir`, `PutKtab`, `PutTab`, `PutPte`, `Dealloc`: the one place that changes).

### Desktop, InputField

`DesktopInv` has the offsets that were taken at the press (`OffsetsHold`), the leader's being
zero, and that dragging and selecting by a box exclude each other (`OneGesture`). Every icon
is clamped to the screen by itself, at every message anew and from the offsets: the same place for
every path of the pointer.

`FieldInv` says that the cursor lies in the text. `CursorInText` then is a fact about
the three walks for any text: the places of the characters, in reading order, strictly increase
(`PlacesDiffer`), so that the first one found at a place is the one the place was computed from. The walk
is a recursive function; `PlacesAre` shows that the function its definition chooses exists, and
steps of the walk are taken by the least counterexample, since the library's induction
is out of reach here.

### Umalloc

`HeapInv` has a witness in the state, the set of free blocks: it is linked in the
order of its addresses and round (`Linked`, with `Follows` for the neighbour), the free blocks and
those handed out make up the heap without gap or overlap (`Tiled`), and no free
block ends where another begins. `free()` is taken apart into linking the block in and joining it
with the block above and the one below (`LinkBlock`, `Join`); the wrap at either end is a case of
`Follows`. That the walk of `malloc()` comes round to where it began, wherever `freep` is, follows
by counting: a list of at most `HeapEnd + 1` addresses cannot go on without a repetition, and
`Linked` leaves only the start to be repeated.

### Editor

A line is what lies between two newlines, or a newline and an end of the text.
`lineStart` and `lineEnd` are shown to be the only positions with nothing but plain characters
between (`StartUnique`, `EndUnique`); the number of a line is a count of newlines, so that a step
over one of them changes it by one (`LineStep`), and `up` and `down` reach the
neighbouring line with the column they had, or the end of a line too short for it. A page is a
function of repeated `up` or `down`; that it ends as many lines away, or at the first or last line, is
taken from a least counterexample, as for `InputField`. `EditorInv` adds that the cursor is in the text and that
the text leaves room for its end in the buffer (`MAX_LONG_STRLEN`).
That what counts as saved is on the disk is a matter of prefixes: a save writes the first part of the text over the
beginning of the file, and clears the mark without a warning only if that part is all.

### Explorer

`RenameKeepsFiles` speaks of files during a rename, one system call at a time, and
`ExplorerInv` says what the calls rely on. Before the first one (`ItemsKnown`): what the list takes for a
directory is no file, unless the list is about to be loaded again, so that the branch of
`confirmRename()` for directories never meets a file; it needs `SelectionMatches`, the part of
`ExplorerConsistent` about the selection, which is thereby proved too. From then on
(`OnlyNewTouched`): up to the last `unlink()` nothing but the new name was touched, so that a rename
that stops has lost nothing. During the copy (`CopiedSoFar`): source and target agree in the blocks
copied so far, also where a longer target is overwritten; and when the old name goes, its file is the
beginning of the new one, unless a `read()` failed. Neither needs the exception for keys in
freed memory: the invariant is of the model, which goes on as if the memory were free. The window and its widgets are opaque to this proof, and paths have at most two
names (`MaxDepth`).

### What TLC checked of the inductive invariants

| Invariant | Instance | Distinct states |
|---|---|---|
| `LogInv` | run `log_atomic` | complete |
| `PipeInv` | 3 processes, ring of 2, counters modulo 6 | 14 million, not complete |
| `ConsoleInv` | as in `kernel`, 7 characters typed | 201,068, complete |
| `Ps2Inv` | the scenes of `kernel`, `MaxTick` 1 | 43,502, complete |
| `ProcInv` | `Proc` as in `kernel` | 593,848, complete |
| `WindowInv` | as run `windows_list` | 286,722, complete |
| `IdeInv` | 3 blocks, 4 calls, a disk that may fail | 84,198, complete |
| `MemInv` | as in `parts` | 12,638, complete |
| `DesktopInv` | 6 events, 2 of them lost | 57,940, complete |
| `FieldInv` | as in `parts` | 15,236, complete |
| `RefsInv`, `DiskInv` | as run `files` | 644,610, complete |
| `HeapInv` | as in `parts` | 2,806, complete |
| `EditorInv` | as in `parts` | 38,948, complete |
| `ExplorerInv` | as in `parts` | 10,540, complete |

### Only model-checked

- Liveness: `SleeperWoken`, `RunnableRuns`, `KilledDies`, `ZombieReaped`, `CloseHeeded`,
  `RequestsEnd`, `CloseReleases`, `PromptReturns`. Fairness and ENABLED are not in the prover's reach.
- `FileSystem`: `NamedInodesLive` and `AssertionsHold`, for which the links of every directory
  would have to be followed through every call.
- `Mkfs`: the image is computed by recursive functions over lists of files, for which every fact needs
  an induction of its own over three passes.
- `ExplorerWidgets`, the part of `ExplorerConsistent` about the window: which slots are listed after a dialog
  or a directory was taken down is a fold over them, and needs an induction for each.
- `Terminal`, whose parser is made of RECURSIVE operators, with which the SMT backend is lost.

## Findings

Four runs refute what an assertion or a test of the code says; each is quoted
in `PROJECT.json`.

- `windows_killed`: a program that is killed leaves its window in the list; once its
  process was waited for, the next screen update switches to its page tables and panics.
- `files_range`: `struct inode` has one address less than `struct dinode`, and
  `itrunc()` frees through the word behind it.
- `files_leave`: a directory that was removed together with the one above it is left by "..":
  after `mkdir a`, `chdir a`, `mkdir b`, `chdir b`, `unlink /a/b`, `unlink /a`, the call `chdir ..`
  panics, because `sys_unlink()` takes back the link that `create()` counted for ".."
  (`sysfile.c:202`, `sysfile.c:248`) while the entry stays in the removed directory, which the process
  is still in.
- `files_cycle`: creating a name and unlinking it from two processes can end with
  each waiting for the other, because `iput()` takes the inode's lock.

The models reach further surprises that no run is spent on; most are listed as hazards
with what is known:

- calls that write all the `MAXOPBLOCKS` blocks they reserve make `log_write()` panic,
  since `LOGSIZE` blocks are reserved and `LOGSIZE - 1` accepted (`log.c:122`, `log.c:203`);
- `kill(0)` marks a free slot, and the mark hits the next process there (`proc.c:448`);
- a write may be reported done because of another request's interrupt (`ide.c:137`),
  and a time-out or read error leaves the caller asleep for ever (`Faulty`);
- closing the window at the head of the list leaves `windowlisthead` on a free slot that
  links to itself, and the next loop over the windows, the count in `drawDesktopDock()`, never ends
  (`window_manager.c:104`); the model stops there with `halt = "hung"`;
- `desktopId` outlives the desktop (`DesktopQuits`);
- `getParentPath()` of a path without a slash returns what the call before returned,
  so that Back from the first level goes to the directory that was left last
  (`explorer_utils.c:241`);
- after a dialog of the explorer was closed, a key is written into its freed input field
  (`user_window.c:187`);
- a `read()` that fails while the explorer copies a file for a rename is taken for its end, and the file is
  then unlinked (`explorer_fileops.c:93`);
- `drawString()` wraps a text one column before the functions that find a place in it
  (`user_gui.c:132`, `user_handler.c:29`), so that clicks miss in wrapped texts; seen while reading, not in the models;
- `genMouseMessage()` hands on a message whose type was never set after a late release of a
  button (`mouse.c:127`);
- `growproc(-sz)` frees all pages and reports failure (`proc.c:153`);
- a root directory that mkfs fills to the block gets a size one block too large
  (`mkfs.c:190`), and mkfs accepts files that the kernel cannot read (`file.h:31`).

## Not modelled

Drawing and fonts (`gui.c`, `character.c`, loops over pixels without control state),
boot code and controller set-up (`main.c`, `mp.c`, `lapic.c`, `ioapic.c`, `picirq.c`,
`uart.c`: sequential register programming), string functions and formatting, system
call dispatch (bounds checks), the calculator (one process, a few numbers, its own
floating-point conversion), the game (pixels), and the command-line tools, which are
clients of the system calls. `sh.c` repeats the parser of `terminal.c`; `shell.c`
and `explorer/explorer.c` are older copies that the Makefile does not build.

Inside the modelled parts: the panics on misuse by the kernel itself (`sched`
without the lock, `iderw` of an unlocked buffer), which the models' structure
excludes; the limit `NBUF`; the second disk; files beyond the singly indirect block in
`FileSystem` (`MAXFILE`), whose address the kernel keeps in another inode's
memory; pixel coordinates; the text of messages; the race of two menus on the count of the
popup's queue; what the terminal shows; the keys an input field
takes beyond `MaxInput`, where the code has no test at all.
