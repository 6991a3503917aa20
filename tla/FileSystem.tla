----------------------------- MODULE FileSystem -----------------------------
(***************************************************************************)
(* Inodes, blocks, directories, the inode cache, the file table and the    *)
(* file system calls (src/kernel/fs.c, file.c, sysfile.c).                 *)
(*                                                                         *)
(* A step is what a process does between two points where it can sleep:    *)
(* it ends at the next acquisition of an inode's sleep lock, and also      *)
(* between the two halves of iput(), which takes icache.lock again for     *)
(* the decrement.  Buffers are locked one at a time inside a step; the log *)
(* (module Log) makes the writes of all calls that overlap durable at      *)
(* once, so a crash leaves the disk as it was when no call was under way.  *)
(*                                                                         *)
(* File contents are counted in units: a directory entry, a block number,  *)
(* or the bytes of one chunk of filewrite().                               *)
(***************************************************************************)
EXTENDS Integers, Sequences, FiniteSets, FiniteSetsExt

CONSTANTS
  Procs,      \* processes, each running one call at a time
  NoProc,     \* the holder of a free sleep lock
  Inums,      \* 1 .. sb.ninodes - 1
  NINODE,     \* slots of the inode cache
  NFILE,      \* slots of the file table
  NOFILE,     \* descriptors of a process
  NBlocks,    \* sb.nblocks
  BPB,        \* bits of one bitmap block
  NDIRECT, NINDIRECT,
  UPB,        \* units of one block
  AfterCache, \* the word of memory after icache
  Programs,   \* sets of calls: what the processes of one behaviour may call
  MaxCalls,   \* bound: calls made
  MaxCrashes  \* bound: crashes

ASSUME SizesAssumption ==
  /\ IsFiniteSet(Procs) /\ NoProc \notin Procs
  /\ NINODE \in Nat \ {0} /\ NFILE \in Nat \ {0} /\ NOFILE \in Nat \ {0}
  /\ NBlocks \in Nat \ {0} /\ BPB \in Nat \ {0} /\ UPB \in Nat \ {0}
  /\ NDIRECT \in Nat \ {0} /\ NINDIRECT \in Nat \ {0}
  /\ Inums \subseteq Nat \ {0} /\ 1 \in Inums
  /\ NBlocks > 1 /\ UPB > 1

VARIABLES
  fs,      \* disk and inode cache: see Init
  ftable,  \* [1..NFILE -> file]
  ofile,   \* [Procs -> [1..NOFILE -> 0..NFILE]]
  cwd,     \* [Procs -> 0..NINODE]
  th,      \* [Procs -> the call a process is in]
  program, \* the calls the processes of this behaviour make
  made,    \* calls made so far
  crashes

vars == <<fs, ftable, ofile, cwd, th, program, made, crashes>>

ROOTINO == 1
Dots == {".", ".."}
O_RDONLY == 0
O_WRONLY == 1
O_RDWR == 2
\* Files stay within the direct and singly indirect blocks.
MAXFILE == NDIRECT + NINDIRECT
Slots == 1 .. NINODE

\* A block that is in use but belongs to no inode (boot block, superblock,
\* log, inodes, bitmap).
Meta == {0}

Zeroed == [i \in 1 .. UPB |-> [name |-> "", inum |-> 0]]
FreeInode == [type |-> "free", nlink |-> 0, size |-> 0,
              addrs |-> [i \in 1 .. NDIRECT + 1 |-> 0]]
EmptySlot == [dev |-> 0, inum |-> 0, ref |-> 0, valid |-> FALSE,
              lock |-> NoProc, core |-> FreeInode]
NoFile == [ref |-> 0, type |-> "none", ip |-> 0, off |-> 0,
           readable |-> FALSE, writable |-> FALSE]
Idle == [pc |-> "idle", op |-> "none", path |-> <<>>, new |-> <<>>,
         par |-> FALSE, name |-> "", ip |-> 0, dp |-> 0, old |-> 0,
         puts |-> <<>>, after |-> "idle", fail |-> "idle", fd |-> 0, n |-> 0,
         files |-> <<>>]

Panic(f, msg) == [f EXCEPT !.panic = IF @ = "none" THEN msg ELSE @]

-----------------------------------------------------------------------------
(* Blocks *)

\* balloc(): the scan starts at the bitmap block of the hint and goes on
\* from the first one; inside a bitmap block it starts at bit 0.
Candidates(f) ==
  LET free == (0 .. NBlocks - 1) \ f.bitmap
      from == (f.hint \div BPB) * BPB
      high == {b \in free : b >= from}
  IN  IF high # {} THEN high ELSE free

balloc(f) ==
  IF Candidates(f) = {}
  THEN Panic(f, "balloc: out of blocks")
  ELSE LET b == Min(Candidates(f))
       IN  [f EXCEPT !.bitmap = @ \cup {b}, !.hint = b, !.blk[b] = Zeroed]

Allocated(f) == Min(Candidates(f))

\* bfree() of the blocks in S, one after the other.
bfree(f, S) ==
  IF S \subseteq f.bitmap THEN [f EXCEPT !.bitmap = @ \ S]
  ELSE Panic(f, "bfree: freeing free block")

-----------------------------------------------------------------------------
(* Inodes *)

iupdate(f, s) == [f EXCEPT !.dinode[f.slot[s].inum] = f.slot[s].core]

Matching(f, inum) == {s \in Slots : f.slot[s].ref > 0 /\ f.slot[s].inum = inum}
Unused(f) == {s \in Slots : f.slot[s].ref = 0}

\* The slot iget() returns; 0 where it panics.
SlotOf(f, inum) ==
  CASE Matching(f, inum) # {} -> Min(Matching(f, inum))
    [] Matching(f, inum) = {} /\ Unused(f) # {} -> Min(Unused(f))
    [] OTHER -> 0

iget(f, inum) ==
  LET s == SlotOf(f, inum) IN
  CASE s = 0 -> Panic(f, "iget: no free inodes in cache")
    [] s # 0 /\ f.slot[s].ref > 0 -> [f EXCEPT !.slot[s].ref = @ + 1]
    [] OTHER -> [f EXCEPT !.slot[s] =
                   [@ EXCEPT !.dev = 1, !.inum = inum, !.ref = 1,
                             !.valid = FALSE]]

idup(f, s) == [f EXCEPT !.slot[s].ref = @ + 1]

FreeInums(f) == {i \in Inums : f.dinode[i].type = "free"}

\* ialloc() up to its iget().
ialloc(f, type) ==
  IF FreeInums(f) = {}
  THEN Panic(f, "ialloc: no inodes")
  ELSE LET i == Min(FreeInums(f))
           g == [f EXCEPT !.dinode[i] = [FreeInode EXCEPT !.type = type]]
       IN  iget(g, i)

\* ilock() once the sleep lock is had: load the inode if it is not cached.
Loaded(f, s) ==
  IF f.slot[s].ref < 1 THEN Panic(f, "ilock: invalid inode")
  ELSE IF f.slot[s].valid THEN f
  ELSE LET g == [f EXCEPT !.slot[s].core = f.dinode[f.slot[s].inum],
                          !.slot[s].valid = TRUE]
       IN  IF g.slot[s].core.type = "free"
           THEN Panic(g, "ilock: inode has no type") ELSE g

Lock(f, s, p) == [f EXCEPT !.slot[s].lock = p]
Unlock(f, s) == [f EXCEPT !.slot[s].lock = NoProc]
LockFree(s) == s # 0 /\ fs.slot[s].lock = NoProc

\* The number of block bn of an inode's contents, counted from 1; 0 if there
\* is none (bmap(), where it finds the block there).
BlockOf(f, core, bn) ==
  LET ind == core.addrs[NDIRECT + 1] IN
  IF bn <= NDIRECT THEN core.addrs[bn]
  ELSE IF ind = 0 THEN 0 ELSE f.blk[ind][bn - NDIRECT]

Content(f, core) ==
  [u \in 1 .. core.size |->
     f.blk[BlockOf(f, core, (u - 1) \div UPB + 1)][((u - 1) % UPB) + 1]]

\* bmap() of a block that is not there yet: a direct address, or an entry of
\* the indirect block, which is allocated on the way.
SetIndirect(f, s, b) ==
  [f EXCEPT !.slot[s].core.addrs[NDIRECT + 1] = b,
            !.blk[b] = [i \in 1 .. NINDIRECT |-> 0]]

SetAddress(f, s, bn, b) ==
  IF bn <= NDIRECT THEN [f EXCEPT !.slot[s].core.addrs[bn] = b]
  ELSE [f EXCEPT !.blk[f.slot[s].core.addrs[NDIRECT + 1]][bn - NDIRECT] = b]

NextBlock(f, s, bn) ==
  IF Candidates(f) = {} THEN balloc(f)
  ELSE SetAddress(balloc(f), s, bn, Allocated(f))

WithIndirect(f, s, bn) ==
  IF bn <= NDIRECT \/ f.slot[s].core.addrs[NDIRECT + 1] # 0 THEN f
  ELSE IF Candidates(f) = {} THEN balloc(f)
  ELSE SetIndirect(balloc(f), s, Allocated(f))

bmap(f, s, bn) ==
  IF BlockOf(f, f.slot[s].core, bn) # 0 THEN f
  ELSE NextBlock(WithIndirect(f, s, bn), s, bn)

\* writei() of one unit at offset off (counted from 0), off <= size.
Store(f, s, off, unit) ==
  [f EXCEPT !.blk[BlockOf(f, f.slot[s].core, off \div UPB + 1)][(off % UPB) + 1]
              = unit]

Stored(f, s, off, unit) ==
  IF f.panic # "none" THEN f
  ELSE IF off < f.slot[s].core.size THEN Store(f, s, off, unit)
  ELSE iupdate([Store(f, s, off, unit) EXCEPT !.slot[s].core.size = off + 1], s)

writei(f, s, off, unit) == Stored(bmap(f, s, off \div UPB + 1), s, off, unit)

\* The word itrunc() takes for the address of a doubly indirect block:
\* addrs[NDIRECT+1] of struct inode lies one past the array, where the
\* next slot of the cache keeps its dev.
Overrun(f, s) == IF s = NINODE THEN AfterCache ELSE f.slot[s + 1].dev

\* Mutant: the indirect block itself is not freed.
itruncKeepIndirect(f, s) ==
  LET core == f.slot[s].core
      ind == core.addrs[NDIRECT + 1]
      own == {core.addrs[i] : i \in 1 .. NDIRECT}
             \cup (IF ind = 0 THEN {} ELSE {f.blk[ind][i] : i \in 1 .. NINDIRECT})
      g == bfree(f, own \ {0})
  IN  IF Overrun(f, s) # 0
      THEN Panic(g, "idestart: block out of range")
      ELSE iupdate([g EXCEPT !.slot[s].core.addrs = FreeInode.addrs,
                             !.slot[s].core.size = 0], s)

\* With dev = 1 that is the superblock, whose first word, the size of the
\* disk, becomes a block to read.
itrunc(f, s) ==
  LET core == f.slot[s].core
      ind == core.addrs[NDIRECT + 1]
      own == {core.addrs[i] : i \in 1 .. NDIRECT + 1}
             \cup (IF ind = 0 THEN {} ELSE {f.blk[ind][i] : i \in 1 .. NINDIRECT})
      g == bfree(f, own \ {0})
  IN  IF Overrun(f, s) # 0
      THEN Panic(g, "idestart: block out of range")
      ELSE iupdate([g EXCEPT !.slot[s].core.addrs = FreeInode.addrs,
                             !.slot[s].core.size = 0], s)

\* Mutant: the freed inode stays valid in its slot.
PutBodyKeepValid(f, s) ==
  LET e == f.slot[s] IN
  IF e.valid /\ e.core.nlink = 0 /\ e.ref = 1
  THEN iupdate([itrunc(f, s) EXCEPT !.slot[s].core.type = "free"], s)
  ELSE f

\* The first half of iput(): under the inode's lock, free an inode without
\* links that nobody else refers to.
PutBody(f, s) ==
  LET e == f.slot[s] IN
  IF e.valid /\ e.core.nlink = 0 /\ e.ref = 1
  THEN LET g == itrunc(f, s)
       IN  [iupdate([g EXCEPT !.slot[s].core.type = "free"], s)
              EXCEPT !.slot[s].valid = FALSE]
  ELSE f

\* The second half: the decrement, under icache.lock.
PutDrop(f, s) == [f EXCEPT !.slot[s].ref = @ - 1]

-----------------------------------------------------------------------------
(* Directories *)

Entries(f, s) == Content(f, f.slot[s].core)

\* dirlookup(): the offset of the first entry with the name; -1 if none.
First(units) == IF units = {} THEN -1 ELSE Min(units) - 1

dirlookup(entries, name) ==
  First({u \in DOMAIN entries : entries[u].inum # 0 /\ entries[u].name = name})

Offset(f, s, name) == dirlookup(Entries(f, s), name)

InumAt(f, s, off) == Entries(f, s)[off + 1].inum

\* The second part of dirlink(): write the entry at the first empty place.
FreePlace(entries) ==
  LET empty == {u \in DOMAIN entries : entries[u].inum = 0}
  IN  IF empty = {} THEN Len(entries) ELSE First(empty)

PutEntry(f, s, off, entry) ==
  IF off >= MAXFILE * UPB THEN Panic(f, "dirlink: write error")
  ELSE writei(f, s, off, entry)

AddEntry(f, s, name, inum) ==
  IF f.panic # "none" THEN f
  ELSE PutEntry(f, s, FreePlace(Entries(f, s)), [name |-> name, inum |-> inum])

NoEntries(entries) == \A u \in DOMAIN entries : u <= 2 \/ entries[u].inum = 0
isdirempty(f, s) == NoEntries(Entries(f, s))

-----------------------------------------------------------------------------
(* Calls *)

Running(p, pc) == fs.panic = "none" /\ th[p].pc = pc

\* Go on with th[p] changed to t.
Goto(p, t) == th' = [th EXCEPT ![p] = t]

\* Give up the references in puts one after the other, then go on at after.
Puts(t, slots, after) ==
  IF slots = <<>> THEN [t EXCEPT !.pc = after, !.puts = <<>>]
  ELSE [t EXCEPT !.pc = "put", !.puts = slots, !.after = after]

Ended(t) == IF t.pc \in {"idle", "gone"} THEN [Idle EXCEPT !.pc = t.pc] ELSE t

\* namex(): the starting inode, and the rest of the path.
StartIp(f, p, path) == IF Head(path) = "/" THEN SlotOf(f, ROOTINO) ELSE cwd[p]
StartFs(f, p, path) == IF Head(path) = "/" THEN iget(f, ROOTINO) ELSE idup(f, cwd[p])
Rest(path) == IF Head(path) = "/" THEN Tail(path) ELSE path

\* After namei() or nameiparent(), by call.
AfterWalk(op) ==
  CASE op = "open"   -> "open"
    [] op \in {"create", "mkdir", "mknod"} -> "create"
    [] op = "unlink" -> "unlink"
    [] op = "link"   -> "link"
    [] op = "chdir"  -> "chdir"
    [] op = "exec"   -> "exec"

ByPath == {"open", "create", "mkdir", "mknod", "unlink", "link", "chdir", "exec"}

Begin(p, c) ==
  /\ Running(p, "idle")
  /\ made < MaxCalls
  /\ c.op \in ByPath
  /\ made' = made + 1
  /\ fs' = StartFs(fs, p, c.path)
  /\ Goto(p, [Idle EXCEPT !.pc = "walk", !.op = c.op, !.path = Rest(c.path),
                          !.new = c.new, !.n = c.n, !.ip = StartIp(fs, p, c.path),
                          !.par = c.op \in {"create", "mkdir", "mknod", "unlink"}])
  /\ UNCHANGED <<ftable, ofile, cwd, crashes>>

\* One round of the loop of namex().
namex(p) ==
  LET t == th[p]
      s == t.ip
  IN
  /\ Running(p, "walk")
  /\ UNCHANGED <<ftable, ofile, cwd, made, crashes>>
  /\ \/ /\ t.path = <<>> /\ ~t.par
        /\ Goto(p, [t EXCEPT !.pc = AfterWalk(t.op)])
        /\ UNCHANGED fs
     \/ /\ t.path = <<>> /\ t.par
        /\ Goto(p, Puts([t EXCEPT !.ip = 0], <<s>>, t.fail))
        /\ UNCHANGED fs
     \/ /\ t.path # <<>> /\ LockFree(s)
        /\ LET f == Loaded(fs, s)
               name == Head(t.path)
               off == Offset(f, s, name)
           IN
           \/ /\ f.panic # "none" \/ f.slot[s].core.type # "dir"
              /\ fs' = f
              /\ Goto(p, Puts([t EXCEPT !.ip = 0], <<s>>, t.fail))
           \/ /\ f.panic = "none" /\ f.slot[s].core.type = "dir"
              /\ t.par /\ Len(t.path) = 1
              /\ fs' = f
              /\ Goto(p, [t EXCEPT !.pc = IF t.old = 0 THEN AfterWalk(t.op)
                                          ELSE "link2",
                                   !.name = name, !.path = <<>>])
           \/ /\ f.panic = "none" /\ f.slot[s].core.type = "dir"
              /\ ~(t.par /\ Len(t.path) = 1)
              /\ IF off = -1
                 THEN /\ fs' = f
                      /\ Goto(p, Puts([t EXCEPT !.ip = 0], <<s>>, t.fail))
                 ELSE /\ fs' = iget(f, InumAt(f, s, off))
                      /\ Goto(p, Puts([t EXCEPT !.ip = SlotOf(f, InumAt(f, s, off)),
                                                !.path = Tail(@)],
                                      <<s>>, "walk"))

\* iput(): its two halves.
iput(p) ==
  LET t == th[p] IN
  /\ Running(p, "put")
  /\ LockFree(Head(t.puts))
  /\ fs' = PutBody(fs, Head(t.puts))
  /\ Goto(p, [t EXCEPT !.pc = "drop"])
  /\ UNCHANGED <<ftable, ofile, cwd, made, crashes>>

iput_drop(p) ==
  LET t == th[p] IN
  /\ Running(p, "drop")
  /\ fs' = PutDrop(fs, Head(t.puts))
  /\ Goto(p, Ended(Puts(t, Tail(t.puts), t.after)))
  /\ UNCHANGED <<ftable, ofile, cwd, made, crashes>>

-----------------------------------------------------------------------------
(* open *)

FreeFiles == {i \in 1 .. NFILE : ftable[i].ref = 0}
FreeFds(p) == {d \in 1 .. NOFILE : ofile[p][d] = 0}

\* The end of sys_open(), with the inode of slot s locked: filealloc() and
\* fdalloc(), or the error path.
OpenTail(p, f, t, s) ==
  IF FreeFiles = {} \/ FreeFds(p) = {}
  THEN /\ fs' = Unlock(f, s)
       /\ Goto(p, Puts([t EXCEPT !.ip = 0], <<s>>, "idle"))
       /\ UNCHANGED <<ftable, ofile>>
  ELSE LET i == Min(FreeFiles) IN
       /\ fs' = Unlock(f, s)
       /\ ftable' = [ftable EXCEPT ![i] =
                       [ref |-> 1, type |-> "inode", ip |-> s, off |-> 0,
                        readable |-> t.n # O_WRONLY, writable |-> t.n # O_RDONLY]]
       /\ ofile' = [ofile EXCEPT ![p][Min(FreeFds(p))] = i]
       /\ Goto(p, Idle)

\* sys_open() without O_CREATE.
sys_open(p) ==
  LET t == th[p]
      s == t.ip
  IN
  /\ Running(p, "open")
  /\ LockFree(s)
  /\ LET f == Loaded(fs, s) IN
     IF f.panic # "none" \/ (f.slot[s].core.type = "dir" /\ t.n # O_RDONLY)
     THEN /\ fs' = f
          /\ Goto(p, Puts([t EXCEPT !.ip = 0], <<s>>, "idle"))
          /\ UNCHANGED <<ftable, ofile>>
     ELSE OpenTail(p, f, t, s)
  /\ UNCHANGED <<cwd, made, crashes>>

TypeOf(op) ==
  CASE op = "mkdir" -> "dir"
    [] op = "mknod" -> "dev"
    [] OTHER -> "file"

\* create() with the directory locked: the name is there, or an inode is
\* allocated for it.
create(p) ==
  LET t == th[p]
      d == t.ip
  IN
  /\ Running(p, "create")
  /\ LockFree(d)
  /\ LET f == Loaded(fs, d)
         off == Offset(f, d, t.name)
     IN
     IF off # -1
     THEN /\ fs' = iget(f, InumAt(f, d, off))
          /\ Goto(p, Puts([t EXCEPT !.ip = SlotOf(f, InumAt(f, d, off))],
                          <<d>>, "create_found"))
     ELSE LET g == ialloc(f, TypeOf(t.op)) IN
          /\ fs' = Lock(g, d, p)
          /\ Goto(p, IF g.panic # "none" THEN t
                     ELSE [t EXCEPT !.pc = "create_new", !.dp = d,
                                    !.ip = SlotOf(f, Min(FreeInums(f)))])
  /\ UNCHANGED <<ftable, ofile, cwd, made, crashes>>

\* Mutant: an existing file that is not wanted is unlocked but not put.
create_foundLeak(p) ==
  LET t == th[p]
      s == t.ip
  IN
  /\ Running(p, "create_found")
  /\ LockFree(s)
  /\ LET f == Loaded(fs, s) IN
     IF t.op = "create" /\ f.slot[s].core.type = "file"
     THEN OpenTail(p, f, t, s)
     ELSE /\ fs' = f
          /\ Goto(p, Idle)
          /\ UNCHANGED <<ftable, ofile>>
  /\ UNCHANGED <<cwd, made, crashes>>

create_found(p) ==
  LET t == th[p]
      s == t.ip
  IN
  /\ Running(p, "create_found")
  /\ LockFree(s)
  /\ LET f == Loaded(fs, s) IN
     IF t.op = "create" /\ f.slot[s].core.type = "file"
     THEN OpenTail(p, f, t, s)
     ELSE /\ fs' = f
          /\ Goto(p, Puts([t EXCEPT !.ip = 0], <<s>>, "idle"))
          /\ UNCHANGED <<ftable, ofile>>
  /\ UNCHANGED <<cwd, made, crashes>>

\* The new inode is filled in and entered in the directory, which is
\* unlocked and put while the new inode stays locked.
WithDots(f, s, d) ==
  AddEntry(AddEntry(iupdate([f EXCEPT !.slot[d].core.nlink = @ + 1], d),
                    s, ".", f.slot[s].inum),
           s, "..", f.slot[d].inum)

NewInode(f, s, d, name, type) ==
  LET g == iupdate([f EXCEPT !.slot[s].core.nlink = 1], s)
  IN  AddEntry(IF type = "dir" THEN WithDots(g, s, d) ELSE g,
               d, name, f.slot[s].inum)

create_new(p) ==
  LET t == th[p]
      s == t.ip
      d == t.dp
  IN
  /\ Running(p, "create_new")
  /\ LockFree(s)
  /\ LET f == Loaded(fs, s) IN
     fs' = Unlock(Lock(NewInode(f, s, d, t.name, TypeOf(t.op)), s, p), d)
  /\ Goto(p, Puts([t EXCEPT !.dp = 0], <<d>>, "create_end"))
  /\ UNCHANGED <<ftable, ofile, cwd, made, crashes>>

\* The callers of create(): sys_open() goes on; sys_mkdir() and sys_mknod()
\* unlock the inode and put it.
create_end(p) ==
  LET t == th[p]
      s == t.ip
  IN
  /\ Running(p, "create_end")
  /\ IF t.op = "create"
     THEN OpenTail(p, fs, t, s)
     ELSE /\ fs' = Unlock(fs, s)
          /\ Goto(p, Puts([t EXCEPT !.ip = 0], <<s>>, "idle"))
          /\ UNCHANGED <<ftable, ofile>>
  /\ UNCHANGED <<cwd, made, crashes>>

-----------------------------------------------------------------------------
(* unlink, link, chdir, exec *)

sys_unlink(p) ==
  LET t == th[p]
      d == t.ip
  IN
  /\ Running(p, "unlink")
  /\ LockFree(d)
  /\ LET f == Loaded(fs, d)
         off == Offset(f, d, t.name)
     IN
     IF t.name \in Dots \/ off = -1
     THEN /\ fs' = f
          /\ Goto(p, Puts([t EXCEPT !.ip = 0], <<d>>, "idle"))
     ELSE /\ fs' = Lock(iget(f, InumAt(f, d, off)), d, p)
          /\ Goto(p, [t EXCEPT !.pc = "unlink_ip", !.dp = d, !.n = off,
                               !.ip = SlotOf(f, InumAt(f, d, off))])
  /\ UNCHANGED <<ftable, ofile, cwd, made, crashes>>

\* With directory and inode locked: erase the entry.
unlink_ip(p) ==
  LET t == th[p]
      s == t.ip
      d == t.dp
  IN
  /\ Running(p, "unlink_ip")
  /\ LockFree(s)
  /\ LET f == Loaded(fs, s)
         isdir == f.slot[s].core.type = "dir"
         g == writei(f, d, t.n, Zeroed[1])
         h == IF isdir THEN iupdate([g EXCEPT !.slot[d].core.nlink = @ - 1], d)
              ELSE g
     IN
     CASE f.panic # "none" -> fs' = f /\ UNCHANGED th
       [] f.panic = "none" /\ f.slot[s].core.nlink < 1 ->
            fs' = Panic(f, "unlink: nlink < 1") /\ UNCHANGED th
       [] f.panic = "none" /\ f.slot[s].core.nlink >= 1
          /\ isdir /\ ~isdirempty(f, s) ->
            /\ fs' = f
            /\ Goto(p, Puts([t EXCEPT !.ip = 0], <<s>>, "unlink_bad"))
       [] OTHER ->
            /\ fs' = Unlock(Lock(h, s, p), d)
            /\ Goto(p, Puts([t EXCEPT !.dp = 0], <<d>>, "unlink_drop"))
  /\ UNCHANGED <<ftable, ofile, cwd, made, crashes>>

unlink_bad(p) ==
  LET t == th[p] IN
  /\ Running(p, "unlink_bad")
  /\ fs' = Unlock(fs, t.dp)
  /\ Goto(p, Puts([t EXCEPT !.dp = 0], <<t.dp>>, "idle"))
  /\ UNCHANGED <<ftable, ofile, cwd, made, crashes>>

unlink_drop(p) ==
  LET t == th[p] IN
  /\ Running(p, "unlink_drop")
  /\ fs' = Unlock(iupdate([fs EXCEPT !.slot[t.ip].core.nlink = @ - 1], t.ip), t.ip)
  /\ Goto(p, Puts([t EXCEPT !.ip = 0], <<t.ip>>, "idle"))
  /\ UNCHANGED <<ftable, ofile, cwd, made, crashes>>

\* Mutant: the new count is not written to the disk.
sys_linkNoUpdate(p) ==
  LET t == th[p]
      s == t.ip
  IN
  /\ Running(p, "link")
  /\ LockFree(s)
  /\ LET f == Loaded(fs, s) IN
     IF f.slot[s].core.type = "dir"
     THEN /\ fs' = f
          /\ Goto(p, Puts([t EXCEPT !.ip = 0], <<s>>, "idle"))
     ELSE LET g == [f EXCEPT !.slot[s].core.nlink = @ + 1] IN
          /\ fs' = StartFs(g, p, t.new)
          /\ Goto(p, [t EXCEPT !.pc = "walk", !.path = Rest(t.new), !.par = TRUE,
                               !.old = s, !.ip = StartIp(g, p, t.new),
                               !.fail = "link_bad"])
  /\ UNCHANGED <<ftable, ofile, cwd, made, crashes>>

\* Mutant: the new link is not counted.
sys_linkNoCount(p) ==
  LET t == th[p]
      s == t.ip
  IN
  /\ Running(p, "link")
  /\ LockFree(s)
  /\ LET f == Loaded(fs, s) IN
     IF f.slot[s].core.type = "dir"
     THEN /\ fs' = f
          /\ Goto(p, Puts([t EXCEPT !.ip = 0], <<s>>, "idle"))
     ELSE LET g == f IN
          /\ fs' = StartFs(g, p, t.new)
          /\ Goto(p, [t EXCEPT !.pc = "walk", !.path = Rest(t.new), !.par = TRUE,
                               !.old = s, !.ip = StartIp(g, p, t.new),
                               !.fail = "link_bad"])
  /\ UNCHANGED <<ftable, ofile, cwd, made, crashes>>

\* sys_link(): count the new link, then look for the directory of the new
\* path; from here on an error goes to bad.
sys_link(p) ==
  LET t == th[p]
      s == t.ip
  IN
  /\ Running(p, "link")
  /\ LockFree(s)
  /\ LET f == Loaded(fs, s) IN
     IF f.slot[s].core.type = "dir"
     THEN /\ fs' = f
          /\ Goto(p, Puts([t EXCEPT !.ip = 0], <<s>>, "idle"))
     ELSE LET g == iupdate([f EXCEPT !.slot[s].core.nlink = @ + 1], s) IN
          /\ fs' = StartFs(g, p, t.new)
          /\ Goto(p, [t EXCEPT !.pc = "walk", !.path = Rest(t.new), !.par = TRUE,
                               !.old = s, !.ip = StartIp(g, p, t.new),
                               !.fail = "link_bad"])
  /\ UNCHANGED <<ftable, ofile, cwd, made, crashes>>

\* dirlink(): the name that is there already is put with the directory locked.
link2(p) ==
  LET t == th[p]
      d == t.ip
  IN
  /\ Running(p, "link2")
  /\ LockFree(d)
  /\ LET f == Loaded(fs, d)
         off == Offset(f, d, t.name)
     IN
     IF off # -1
     THEN /\ fs' = Lock(iget(f, InumAt(f, d, off)), d, p)
          /\ Goto(p, Puts([t EXCEPT !.ip = 0, !.dp = d],
                          <<SlotOf(f, InumAt(f, d, off))>>, "link_exists"))
     ELSE /\ fs' = AddEntry(f, d, t.name, f.slot[t.old].inum)
          /\ Goto(p, Puts([t EXCEPT !.ip = 0, !.old = 0], <<d, t.old>>, "idle"))
  /\ UNCHANGED <<ftable, ofile, cwd, made, crashes>>

link_exists(p) ==
  LET t == th[p] IN
  /\ Running(p, "link_exists")
  /\ fs' = Unlock(fs, t.dp)
  /\ Goto(p, Puts([t EXCEPT !.dp = 0], <<t.dp>>, "link_bad"))
  /\ UNCHANGED <<ftable, ofile, cwd, made, crashes>>

link_bad(p) ==
  LET t == th[p] IN
  /\ Running(p, "link_bad")
  /\ LockFree(t.old)
  /\ fs' = iupdate([fs EXCEPT !.slot[t.old].core.nlink = @ - 1], t.old)
  /\ Goto(p, Puts([t EXCEPT !.old = 0], <<t.old>>, "idle"))
  /\ UNCHANGED <<ftable, ofile, cwd, made, crashes>>

sys_chdir(p) ==
  LET t == th[p]
      s == t.ip
  IN
  /\ Running(p, "chdir")
  /\ LockFree(s)
  /\ LET f == Loaded(fs, s) IN
     /\ fs' = f
     /\ IF f.panic # "none" \/ f.slot[s].core.type # "dir"
        THEN /\ Goto(p, Puts([t EXCEPT !.ip = 0], <<s>>, "idle"))
             /\ UNCHANGED cwd
        ELSE /\ Goto(p, Puts([t EXCEPT !.ip = 0], <<cwd[p]>>, "idle"))
             /\ cwd' = [cwd EXCEPT ![p] = s]
  /\ UNCHANGED <<ftable, ofile, made, crashes>>

\* exec() reads the program with its inode locked.
exec(p) ==
  LET t == th[p] IN
  /\ Running(p, "exec")
  /\ LockFree(t.ip)
  /\ fs' = Loaded(fs, t.ip)
  /\ Goto(p, Puts([t EXCEPT !.ip = 0], <<t.ip>>, "idle"))
  /\ UNCHANGED <<ftable, ofile, cwd, made, crashes>>

-----------------------------------------------------------------------------
(* Calls on descriptors *)

ByFd(p, c, d) ==
  /\ Running(p, "idle")
  /\ made < MaxCalls
  /\ ofile[p][d] # 0
  /\ \E k \in program : k.op = c
  /\ made' = made + 1

filedup(files, i) == [files EXCEPT ![i].ref = @ + 1]

sys_dup(p, d) ==
  /\ ByFd(p, "dup", d)
  /\ FreeFds(p) # {}
  /\ ofile' = [ofile EXCEPT ![p][Min(FreeFds(p))] = ofile[p][d]]
  /\ ftable' = filedup(ftable, ofile[p][d])
  /\ UNCHANGED <<fs, cwd, th, crashes>>

\* fileclose(): drop a reference; a file without any is free again.
fileclose(files, i) ==
  IF files[i].ref > 1 THEN [files EXCEPT ![i].ref = @ - 1]
  ELSE [files EXCEPT ![i] = NoFile]

\* The last reference puts the inode; what becomes of a pipe is in module
\* Pipe.
sys_close(p, d) ==
  LET i == ofile[p][d] IN
  /\ ByFd(p, "close", d)
  /\ ofile' = [ofile EXCEPT ![p][d] = 0]
  /\ ftable' = fileclose(ftable, i)
  /\ IF ftable[i].ref > 1 \/ ftable[i].type = "pipe" THEN UNCHANGED th
     ELSE Goto(p, Puts([Idle EXCEPT !.op = "close"], <<ftable[i].ip>>, "idle"))
  /\ UNCHANGED <<fs, cwd, crashes>>

\* sys_pipe(): between any two of its steps another process may take the
\* last file.
sys_pipe(p) ==
  /\ Running(p, "idle")
  /\ made < MaxCalls
  /\ \E k \in program : k.op = "pipe"
  /\ made' = made + 1
  /\ Goto(p, [Idle EXCEPT !.pc = "pipe", !.op = "pipe"])
  /\ UNCHANGED <<fs, ftable, ofile, cwd, crashes>>

\* pipealloc(): the two files, one after the other.
pipe_file(p) ==
  LET t == th[p] IN
  /\ Running(p, "pipe") /\ Len(t.files) < 2
  /\ IF FreeFiles = {}
     THEN /\ Goto(p, [t EXCEPT !.pc = "pipe_bad"])
          /\ UNCHANGED ftable
     ELSE /\ Goto(p, [t EXCEPT !.files = Append(@, Min(FreeFiles))])
          /\ ftable' = [ftable EXCEPT ![Min(FreeFiles)].ref = 1]
  /\ UNCHANGED <<fs, ofile, cwd, made, crashes>>

\* pipealloc(): kalloc(), which may fail, and the two ends.
pipealloc(p) ==
  LET t == th[p] IN
  /\ Running(p, "pipe") /\ Len(t.files) = 2
  /\ \/ /\ Goto(p, [t EXCEPT !.pc = "pipe_bad"])
        /\ UNCHANGED ftable
     \/ /\ Goto(p, [t EXCEPT !.pc = "pipe_fds"])
        /\ ftable' = [ftable EXCEPT
                        ![t.files[1]] = [@ EXCEPT !.type = "pipe", !.readable = TRUE],
                        ![t.files[2]] = [@ EXCEPT !.type = "pipe", !.writable = TRUE]]
  /\ UNCHANGED <<fs, ofile, cwd, made, crashes>>

\* sys_pipe(): both descriptors or none.
pipe_fds(p) ==
  LET t == th[p]
      d == Min(FreeFds(p))
      e == Min(FreeFds(p) \ {d})
  IN
  /\ Running(p, "pipe_fds")
  /\ IF Cardinality(FreeFds(p)) < 2
     THEN /\ Goto(p, [t EXCEPT !.pc = "pipe_bad"])
          /\ UNCHANGED ofile
     ELSE /\ Goto(p, Idle)
          /\ ofile' = [ofile EXCEPT ![p][d] = t.files[1], ![p][e] = t.files[2]]
  /\ UNCHANGED <<fs, ftable, cwd, made, crashes>>

\* The error paths of pipealloc() and sys_pipe().
pipe_bad(p) ==
  LET t == th[p] IN
  /\ Running(p, "pipe_bad")
  /\ IF t.files = <<>> THEN Goto(p, Idle) /\ UNCHANGED ftable
     ELSE /\ ftable' = fileclose(ftable, Head(t.files))
          /\ Goto(p, [t EXCEPT !.files = Tail(@)])
  /\ UNCHANGED <<fs, ofile, cwd, made, crashes>>

\* fork(): the child q shares the files and the working directory.
fork(p, q) ==
  /\ Running(p, "idle") /\ th[q].pc = "gone"
  /\ made < MaxCalls
  /\ \E k \in program : k.op = "fork"
  /\ made' = made + 1
  /\ ofile' = [ofile EXCEPT ![q] = ofile[p]]
  /\ LET fds(i) == {d \in 1 .. NOFILE : ofile[p][d] = i} IN
     ftable' = [i \in 1 .. NFILE |->
                  [ftable[i] EXCEPT !.ref = @ + Cardinality(fds(i))]]
  /\ fs' = idup(fs, cwd[p])
  /\ cwd' = [cwd EXCEPT ![q] = cwd[p]]
  /\ Goto(q, Idle)
  /\ UNCHANGED crashes

exit(p) ==
  /\ Running(p, "idle")
  /\ made < MaxCalls
  /\ \E k \in program : k.op = "exit"
  /\ made' = made + 1
  /\ Goto(p, [Idle EXCEPT !.pc = "exit", !.op = "exit"])
  /\ UNCHANGED <<fs, ftable, ofile, cwd, crashes>>

\* exit(): the descriptors one after the other, then the working directory.
exit_close(p) ==
  LET used == {d \in 1 .. NOFILE : ofile[p][d] # 0}
      d == Min(used)
      i == ofile[p][d]
  IN
  /\ Running(p, "exit")
  /\ IF used = {}
     THEN /\ Goto(p, Puts(th[p], <<cwd[p]>>, "gone"))
          /\ cwd' = [cwd EXCEPT ![p] = 0]
          /\ UNCHANGED <<ftable, ofile>>
     ELSE /\ ofile' = [ofile EXCEPT ![p][d] = 0]
          /\ ftable' = fileclose(ftable, i)
          /\ IF ftable[i].ref > 1 \/ ftable[i].type = "pipe" THEN UNCHANGED th
             ELSE Goto(p, Puts(th[p], <<ftable[i].ip>>, "exit"))
          /\ UNCHANGED cwd
  /\ UNCHANGED <<fs, made, crashes>>

\* fileread() of one unit under the inode's lock; the console has one unit
\* or reports the end of its input.
sys_read(p, d) ==
  LET i == ofile[p][d]
      s == ftable[i].ip
  IN
  /\ ByFd(p, "read", d)
  /\ ftable[i].readable /\ ftable[i].type = "inode"
  /\ LockFree(s)
  /\ LET f == Loaded(fs, s) IN
     /\ fs' = f
     /\ \/ /\ f.slot[s].core.type = "dev" \/ ftable[i].off < f.slot[s].core.size
           /\ ftable' = [ftable EXCEPT ![i].off = @ + 1]
        \/ /\ f.slot[s].core.type = "dev" \/ ftable[i].off >= f.slot[s].core.size
           /\ UNCHANGED ftable
  /\ UNCHANGED <<ofile, cwd, th, crashes>>

\* filestat() copies what ilock() has loaded.
sys_fstat(p, d) ==
  /\ ByFd(p, "fstat", d)
  /\ ftable[ofile[p][d]].type = "inode"
  /\ LockFree(ftable[ofile[p][d]].ip)
  /\ fs' = Loaded(fs, ftable[ofile[p][d]].ip)
  /\ UNCHANGED <<ftable, ofile, cwd, th, crashes>>

\* filewrite(): one transaction for each chunk.
sys_write(p, d) ==
  /\ ByFd(p, "write", d)
  /\ ftable[ofile[p][d]].writable /\ ftable[ofile[p][d]].type = "inode"
  /\ \E k \in program : k.op = "write" /\ Goto(p,
       [Idle EXCEPT !.pc = "write", !.op = "write", !.fd = d, !.n = k.n])
  /\ UNCHANGED <<fs, ftable, ofile, cwd, crashes>>

filewrite(p) ==
  LET t == th[p]
      i == ofile[p][t.fd]
      s == ftable[i].ip
  IN
  /\ Running(p, "write")
  /\ LockFree(s)
  /\ LET f == Loaded(fs, s)
         off == ftable[i].off
         ok == off <= f.slot[s].core.size /\ off < MAXFILE * UPB
         dev == f.slot[s].core.type = "dev"
     IN  IF ok \/ dev
         THEN /\ fs' = IF dev THEN f ELSE writei(f, s, off, "data")
              /\ ftable' = [ftable EXCEPT ![i].off = @ + 1]
              /\ Goto(p, IF t.n = 1 THEN Idle ELSE [t EXCEPT !.n = @ - 1])
         ELSE /\ fs' = f
              /\ Goto(p, Idle)
              /\ UNCHANGED ftable
  /\ UNCHANGED <<ofile, cwd, made, crashes>>

-----------------------------------------------------------------------------

\* Writes outside a transaction there are none, so a crash finds the disk
\* as at a moment when no process was in a call, also a crash that follows a
\* panic; the rest of the state is lost.  The slots of the cache are zero again, and each process starts in
\* the root directory.
RootSlot ==
  [EmptySlot EXCEPT !.dev = 1, !.inum = ROOTINO, !.ref = Cardinality(Procs)]

Crash ==
  /\ crashes < MaxCrashes
  /\ fs.panic = "none"
  /\ \A p \in Procs : th[p].pc \in {"idle", "gone"}
  /\ crashes' = crashes + 1
  /\ fs' = [fs EXCEPT !.slot = [s \in Slots |-> IF s = 1 THEN RootSlot ELSE EmptySlot],
                      !.hint = 0]
  /\ ftable' = [i \in 1 .. NFILE |-> NoFile]
  /\ ofile' = [p \in Procs |-> [d \in 1 .. NOFILE |-> 0]]
  /\ cwd' = [p \in Procs |-> 1]
  /\ th' = [p \in Procs |-> Idle]
  /\ UNCHANGED made

\* The disk as mkfs leaves it: a root directory with its dots in block 1.
RootInode ==
  [FreeInode EXCEPT !.type = "dir", !.nlink = 1, !.size = 2, !.addrs[1] = 1]

Init ==
  /\ fs = [slot   |-> [s \in Slots |-> IF s = 1 THEN RootSlot ELSE EmptySlot],
           dinode |-> [i \in Inums |-> IF i = ROOTINO THEN RootInode ELSE FreeInode],
           blk    |-> [b \in 0 .. NBlocks - 1 |->
                         IF b = 1 THEN [Zeroed EXCEPT
                                          ![1] = [name |-> ".", inum |-> ROOTINO],
                                          ![2] = [name |-> "..", inum |-> ROOTINO]]
                         ELSE Zeroed],
           bitmap |-> Meta \cup {1},
           hint   |-> 0,
           panic  |-> "none"]
  /\ ftable = [i \in 1 .. NFILE |-> NoFile]
  /\ ofile = [p \in Procs |-> [d \in 1 .. NOFILE |-> 0]]
  /\ cwd = [p \in Procs |-> 1]
  /\ th = [p \in Procs |-> Idle]
  /\ program \in Programs
  /\ made = 0
  /\ crashes = 0

Step(p) ==
  \/ \E c \in program : Begin(p, c)
  \/ namex(p) \/ iput(p) \/ iput_drop(p)
  \/ sys_open(p) \/ create(p) \/ create_found(p) \/ create_new(p) \/ create_end(p)
  \/ sys_unlink(p) \/ unlink_ip(p) \/ unlink_bad(p) \/ unlink_drop(p)
  \/ sys_link(p) \/ link2(p) \/ link_exists(p) \/ link_bad(p)
  \/ sys_chdir(p) \/ exec(p)
  \/ \E d \in 1 .. NOFILE :
       sys_dup(p, d) \/ sys_close(p, d) \/ sys_read(p, d) \/ sys_fstat(p, d)
       \/ sys_write(p, d)
  \/ filewrite(p)
  \/ exit(p) \/ exit_close(p) \/ \E q \in Procs : fork(p, q)
  \/ sys_pipe(p) \/ pipe_file(p) \/ pipealloc(p) \/ pipe_fds(p) \/ pipe_bad(p)

Next == (Crash \/ \E p \in Procs : Step(p)) /\ UNCHANGED program

Spec == Init /\ [][Next]_vars

-----------------------------------------------------------------------------
(* History: whether a directory was freed that the ".." of another one named. *)

VARIABLE parentFreed

DanglingDotDot ==
  \E i \in Inums :
    LET core == fs.dinode[i] IN
    core.type = "dir" /\ \E u \in 1 .. core.size :
      LET entry == Content(fs, core)[u] IN
      entry.name = ".." /\ entry.inum # 0 /\ fs.dinode[entry.inum].type = "free"

historyVars == <<vars, parentFreed>>
HistoryInit == Init /\ parentFreed = FALSE
HistoryNext == Next /\ parentFreed' = (parentFreed \/ DanglingDotDot')

\* Spec with that history; the runs check this one, which implies Spec.
HistorySpec == HistoryInit /\ [][HistoryNext]_historyVars

-----------------------------------------------------------------------------
(* Properties *)

\* An inode is in one slot of the cache at most, and a slot that is marked
\* valid has what the disk has, also while one process frees the inode and
\* another allocates it again (iput(), ialloc(), ilock()).
CacheCoherent ==
  fs.panic = "none" =>
    /\ \A s, r \in Slots :
         /\ fs.slot[s].ref > 0 /\ fs.slot[r].ref > 0
         /\ fs.slot[s].inum = fs.slot[r].inum
         => s = r
    /\ \A s \in Slots :
         fs.slot[s].ref > 0 /\ fs.slot[s].valid =>
           fs.slot[s].core = fs.dinode[fs.slot[s].inum]

\* The slots that a process refers to: its working directory, the inodes of
\* its call, and those that it has still to put.
References(c, t) == <<c, t.ip, t.dp, t.old>> \o t.puts
Referred(p) == References(cwd[p], th[p])
UsesOf(s) == {pn \in Procs \X (1 .. 6) :
                pn[2] <= Len(Referred(pn[1])) /\ Referred(pn[1])[pn[2]] = s}

FilesOn(s) == {i \in 1 .. NFILE : ftable[i].type = "inode" /\ ftable[i].ip = s}
PipesOf(i) == {pk \in Procs \X (1 .. 2) :
                 pk[2] <= Len(th[pk[1]].files) /\ th[pk[1]].files[pk[2]] = i}
FdsOf(i) == {pd \in Procs \X (1 .. NOFILE) : ofile[pd[1]][pd[2]] = i}

\* The reference count of a slot is the number of open files, working
\* directories and calls under way that refer to it, on every path through
\* the calls of sysfile.c, the error paths included; a file's count is the
\* number of descriptors of it, and of calls that are making a pipe of it.
RefsCount ==
  fs.panic = "none" =>
    /\ \A s \in Slots :
         fs.slot[s].ref = Cardinality(FilesOn(s)) + Cardinality(UsesOf(s))
    /\ \A i \in 1 .. NFILE :
         ftable[i].ref = Cardinality(FdsOf(i)) + Cardinality(PipesOf(i))

(* The inductive invariant behind RefsCount *)

FsShape(f) ==
  /\ DOMAIN f = {"slot", "dinode", "blk", "bitmap", "hint", "panic"}
  /\ DOMAIN f.slot = Slots
  /\ \A s \in Slots : DOMAIN f.slot[s] = {"dev", "inum", "ref", "valid", "lock", "core"}

Files == [ref : Nat, type : {"none", "inode", "pipe"}, ip : {0} \cup Slots, off : Nat,
          readable : BOOLEAN, writable : BOOLEAN]

CallShape(t) ==
  /\ DOMAIN t = DOMAIN Idle
  /\ {t.ip, t.dp, t.old} \subseteq {0} \cup Slots
  /\ t.puts \in Seq({0} \cup Slots) /\ Len(t.puts) <= 2
  /\ t.files \in Seq(1 .. NFILE) /\ Len(t.files) <= 2

\* Where a call goes on once it has put what it has to.
GoesOn(t) == IF t.pc \in {"put", "drop"} THEN t.after ELSE t.pc

\* Which references a call has, by the point it is at: no path through
\* sysfile.c sets a variable that still has one, or ends with one.
CallKeeps(t) ==
  LET at == GoesOn(t) IN
  /\ t.puts # <<>> <=> t.pc \in {"put", "drop"}
  /\ at \in {"idle", "gone", "exit", "write", "pipe", "pipe_fds", "pipe_bad",
             "unlink_bad", "link_exists", "link_bad"} => t.ip = 0
  /\ at \notin {"create_new", "unlink_ip", "unlink_bad", "link_exists"} => t.dp = 0
  /\ at \notin {"walk", "link2", "link_exists", "link_bad"} => t.old = 0
  /\ at \in {"walk", "link"} => t.op \in ByPath
  /\ at = "walk" => /\ t.fail \in {"idle", "link_bad"}
                    /\ t.old # 0 => t.par /\ t.fail = "link_bad"
  /\ at \notin {"pipe", "pipe_fds", "pipe_bad"} => t.files = <<>>
  /\ at = "pipe_fds" => Len(t.files) = 2
  /\ at \notin {"put", "drop"}

TablesShape ==
  /\ ftable \in [1 .. NFILE -> Files]
  /\ ofile \in [Procs -> [1 .. NOFILE -> 0 .. NFILE]]
  /\ cwd \in [Procs -> {0} \cup Slots]
  /\ DOMAIN th = Procs

\* A free file has nothing of its last use, and only a file of an inode has one.
FilesClean ==
  \A i \in 1 .. NFILE : /\ ftable[i].ref = 0 => ftable[i].type = "none"
                        /\ ftable[i].type # "inode" => ftable[i].ip = 0

\* The files that a call is making a pipe of are no files of inodes.
PipesApart == \A p \in Procs : \A n \in DOMAIN th[p].files : ftable[th[p].files[n]].type # "inode"

\* A process that has ended has no descriptors and no directory.
GoneHasNothing ==
  \A p \in Procs : GoesOn(th[p]) = "gone" =>
    cwd[p] = 0 /\ \A d \in 1 .. NOFILE : ofile[p][d] = 0

RefsInv ==
  fs.panic = "none" =>
    /\ FsShape(fs)
    /\ TablesShape
    /\ \A p \in Procs : CallShape(th[p]) /\ CallKeeps(th[p])
    /\ FilesClean /\ PipesApart /\ GoneHasNothing
    /\ RefsCount

(* The inductive invariant behind CacheCoherent and BlocksOwnedOnce *)

AllBlocks == 0 .. NBlocks - 1
Cores == [type : {"free", "file", "dir", "dev"}, nlink : Int, size : 0 .. MAXFILE * UPB,
          addrs : [1 .. NDIRECT + 1 -> AllBlocks]]

Indirect(core) == core.addrs[NDIRECT + 1]
DataBlocks(f, core) ==
  {core.addrs[k] : k \in 1 .. NDIRECT} \cup
  (IF Indirect(core) = 0 THEN {} ELSE {f.blk[Indirect(core)][k] : k \in 1 .. NINDIRECT})
Owned(f, core) == {Indirect(core)} \cup DataBlocks(f, core)

\* A block of directory entries.
DirBlock(units) == DOMAIN units = 1 .. UPB /\ \A u \in 1 .. UPB : units[u].inum \in {0} \cup Inums

\* An inode has a block for each unit of its contents, its indirect block holds
\* block numbers and no contents, and what a directory holds are entries.
InodeSound(f, core) ==
  /\ Indirect(core) # 0 => /\ f.blk[Indirect(core)] \in [1 .. NINDIRECT -> AllBlocks]
                           /\ Indirect(core) \notin DataBlocks(f, core)
  /\ core.type = "free" => core.addrs = FreeInode.addrs
  /\ \A u \in 1 .. core.size : BlockOf(f, core, (u - 1) \div UPB + 1) # 0
  /\ core.type = "dir" => \A b \in DataBlocks(f, core) \ {0} : DirBlock(f.blk[b])

\* With inodes as the inode table, the blocks of f are theirs, each that of one.
DiskSound(inodes, f) ==
  /\ DOMAIN f.blk = AllBlocks
  /\ inodes \in [Inums -> Cores]
  /\ \A i \in Inums : InodeSound(f, inodes[i])
  /\ \A i, j \in Inums : i # j => Owned(f, inodes[i]) \cap Owned(f, inodes[j]) \subseteq {0}
  /\ \A b : b \in f.bitmap <=> b \in Meta \/ (b # 0 /\ \E i \in Inums : b \in Owned(f, inodes[i]))

CacheSound(f) ==
  /\ \A s \in Slots : f.slot[s].ref > 0 =>
       /\ f.slot[s].inum \in Inums
       /\ f.slot[s].valid => /\ f.slot[s].core = f.dinode[f.slot[s].inum]
                             /\ f.slot[s].core.type # "free"
  /\ \A s, r \in Slots :
       f.slot[s].ref > 0 /\ f.slot[r].ref > 0 /\ f.slot[s].inum = f.slot[r].inum => s = r

IsLoaded(f, s) == s \in Slots /\ f.slot[s].valid

\* What the call t of a process with the descriptors fds relies on of the
\* inodes it refers to, between two steps.
CallHolds(f, files, fds, t) ==
  LET at == GoesOn(t)
      i == fds[t.fd]
  IN
  /\ t.old # 0 => IsLoaded(f, t.old)
  /\ at = "walk" /\ t.op \in {"create", "mkdir", "mknod", "unlink"} => t.par
  /\ at \in {"create", "unlink", "link2"} =>
       IsLoaded(f, t.ip) /\ f.slot[t.ip].core.type = "dir"
  /\ at = "link2" => t.old # 0
  /\ at = "create_new" => /\ IsLoaded(f, t.dp) /\ f.slot[t.dp].core.type = "dir"
                          /\ t.ip \in Slots
                          /\ f.dinode[f.slot[t.ip].inum].type = TypeOf(t.op)
  /\ at = "create_end" => IsLoaded(f, t.ip) /\ f.slot[t.ip].core.type = TypeOf(t.op)
  /\ at = "unlink_ip" => /\ IsLoaded(f, t.dp)
                         /\ t.n \in Nat /\ t.n < f.slot[t.dp].core.size
  /\ at = "unlink_drop" => IsLoaded(f, t.ip)
  /\ at = "write" => /\ t.fd \in 1 .. NOFILE /\ i # 0
                     /\ files[i].type = "inode" /\ files[i].writable

\* A file that can be written is no directory.
FileHolds(f, file) ==
  file.type = "inode" =>
    /\ file.ip # 0
    /\ file.writable => IsLoaded(f, file.ip) /\ f.slot[file.ip].core.type # "dir"

DiskInv ==
  fs.panic = "none" =>
    /\ DiskSound(fs.dinode, fs) /\ CacheSound(fs)
    /\ \A p \in Procs : CallHolds(fs, ftable, ofile[p], th[p])
    /\ \A i \in 1 .. NFILE : FileHolds(fs, ftable[i])

\* The entries, dots aside, that name an inode, in all directories on disk.
LinksTo(i) ==
  {du \in Inums \X (1 .. MAXFILE * UPB) :
     LET core == fs.dinode[du[1]] IN
     /\ core.type = "dir" /\ du[2] <= core.size
     /\ Content(fs, core)[du[2]].inum = i
     /\ Content(fs, core)[du[2]].name \notin Dots}

\* No entry of a directory names an inode that is free, and no inode has
\* more names than links counted, whatever calls create, link and unlink it
\* at once and whenever the machine stops: the last name of a file is never
\* gone before its count says so.  Only until a directory is freed that the
\* ".." of another one still names (sys_unlink() gives the link of ".." back
\* while the entry may be in use): nothing is said from then on.
NamedInodesLive ==
  ~parentFreed =>
    \A i \in Inums :
      LinksTo(i) # {} =>
        /\ fs.dinode[i].type # "free"
        /\ Cardinality(LinksTo(i)) <= fs.dinode[i].nlink

OwnBlocks(i) ==
  LET core == fs.dinode[i] IN
  {core.addrs[k] : k \in 1 .. NDIRECT + 1} \cup
  (IF core.addrs[NDIRECT + 1] = 0 THEN {}
   ELSE {fs.blk[core.addrs[NDIRECT + 1]][k] : k \in 1 .. NINDIRECT})

\* The bitmap marks the blocks that allocated inodes refer to and no other,
\* and no block belongs to two inodes: balloc(), bfree(), bmap() and itrunc()
\* neither share nor lose a block.
BlocksOwnedOnce ==
  fs.panic = "none" =>
    /\ fs.bitmap = Meta \cup UNION {OwnBlocks(i) : i \in Inums}
    /\ \A i, j \in Inums :
         i # j => OwnBlocks(i) \cap OwnBlocks(j) \subseteq {0}

\* What the panics of fs.c and sysfile.c report if they are no broken
\* assertion: that blocks, inodes or slots ran out, or the block that itrunc()
\* asks for (BlocksInRange).
RanOut == {"balloc: out of blocks", "ialloc: no inodes", "iget: no free inodes in cache",
           "dirlink: write error", "idestart: block out of range"}

\* The assertions of fs.c and sysfile.c that guard the structure of the disk
\* and of the cache never fail, on any path through the calls and between
\* them: an inode that is locked is in use and has a type, one that is
\* unlinked has a link, a block that is freed was in use.  Only until a
\* directory is freed that the ".." of another one still names; then they do
\* fail (InodesHaveType).
AssertionsHold == parentFreed \/ fs.panic \in {"none"} \cup RanOut

-----------------------------------------------------------------------------
(* What fails *)

\* itrunc() asks the disk for blocks it has (the assertion of idestart(),
\* src/kernel/ide.c:60).
BlocksInRange == fs.panic # "idestart: block out of range"

\* An inode that a path leads to has a type (the assertion of ilock(),
\* src/kernel/fs.c:329).
InodesHaveType == fs.panic # "ilock: inode has no type"

\* The slot whose lock a process is about to take; 0 if none.
Wants(p) ==
  LET t == th[p] IN
  CASE t.pc = "put" -> Head(t.puts)
    [] t.pc = "link_bad" -> t.old
    [] t.pc = "write" -> ftable[ofile[p][t.fd]].ip
    [] t.pc \in {"open", "create", "create_found", "create_new", "unlink",
                 "unlink_ip", "link", "link2", "chdir", "exec"} -> t.ip
    [] t.pc = "walk" /\ t.path # <<>> -> t.ip
    [] OTHER -> 0

Blocks(q, p) == Wants(p) # 0 /\ fs.slot[Wants(p)].lock = q

\* No two calls wait for an inode lock that the other one holds, nor does a
\* call wait for a lock of its own: the calls that
\* src/kernel/usertests.c:linkunlink makes from two processes at once end.
NoLockCycle == \A p, q \in Procs : ~(Blocks(q, p) /\ Blocks(p, q))
=============================================================================
