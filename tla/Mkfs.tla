-------------------------------- MODULE Mkfs --------------------------------
(***************************************************************************)
(* mkfs (src/kernel/mkfs.c), which lays out the first disk: the root       *)
(* directory, the files named on its command line, and the bitmap.  The    *)
(* kernel's bmap() and readi() (src/kernel/fs.c) read that disk, so they   *)
(* are here too, for files within the singly indirect block.               *)
(*                                                                         *)
(* Contents are counted in units, the size of a directory entry.  Entry k  *)
(* of the root is the inode it names; unit k of a file is <<inode, k>>.    *)
(***************************************************************************)
EXTENDS Integers, Sequences, FiniteSets, SequencesExt

CONSTANTS
  FSSIZE,      \* blocks of the image
  nmeta,       \* boot, super, log, inode and bitmap blocks
  MkDirect, MkIndirect,  \* NDIRECT, NINDIRECT
  BlockUnits,  \* units of one block
  BitmapBits,  \* BSIZE * 8
  FileLists    \* bound: the files mkfs is given, by their sizes

VARIABLES
  img,  \* the image, and freeinode and freeblock
  mk    \* [pc, files, inum, left]: what main() is at

mkfsVars == <<img, mk>>

Root == 1
MkMaxFile == MkDirect + MkIndirect + MkIndirect * MkIndirect
Cells == 0 .. (IF BlockUnits > MkIndirect THEN BlockUnits ELSE MkIndirect) - 1
Zeroes == [c \in Cells |-> 0]
DataBlocks == nmeta .. FSSIZE - 1
NewInode(type) == [type |-> type, nlink |-> 1, size |-> 0,
                   addrs |-> [k \in 0 .. MkDirect + 1 |-> 0]]

\* ialloc()
WithInode(f, type) ==
  [f EXCEPT !.freeinode = @ + 1, !.inode = Append(@, NewInode(type))]

-----------------------------------------------------------------------------
(* iappend() *)

\* Mutant: the slot of the indirect block is not counted from NDIRECT.
RouteNotRelative(fbn) ==
  LET k == fbn - MkDirect - MkIndirect IN
  IF fbn < MkDirect THEN <<fbn>>
  ELSE IF k < 0 THEN <<MkDirect, fbn % MkIndirect>>
  ELSE <<MkDirect + 1, k \div MkIndirect, k % MkIndirect>>

\* The way from an inode to block fbn of its file: a slot of the inode, then
\* one of each indirect block on the way.
Route(fbn) ==
  LET k == fbn - MkDirect - MkIndirect IN
  IF fbn < MkDirect THEN <<fbn>>
  ELSE IF k < 0 THEN <<MkDirect, fbn - MkDirect>>
  ELSE <<MkDirect + 1, k \div MkIndirect, k % MkIndirect>>

\* One step of the way, from the inode (at = 0) or from a block; a block that
\* is missing is the next free one, if there is one.
Down(s, slot) ==
  LET b == IF s.at = 0 THEN s.f.inode[s.inum].addrs[slot] ELSE s.f.blk[s.at][slot]
      new == s.f.freeblock
      f == [s.f EXCEPT !.freeblock = new + 1]
  IN
  IF s.full \/ (b = 0 /\ new >= FSSIZE) THEN [s EXCEPT !.full = TRUE]
  ELSE IF b # 0 THEN [s EXCEPT !.at = b]
  ELSE [s EXCEPT !.at = new,
                 !.f = IF s.at = 0 THEN [f EXCEPT !.inode[s.inum].addrs[slot] = new]
                       ELSE [f EXCEPT !.blk[s.at][slot] = new]]

\* One unit, put behind what the file has.
iappend(f, inum, unit) ==
  LET off == f.inode[inum].size
      s == FoldLeft(Down, [f |-> f, inum |-> inum, at |-> 0, full |-> FALSE],
                    Route(off \div BlockUnits))
  IN  IF off \div BlockUnits >= MkMaxFile \/ s.full THEN [f EXCEPT !.failed = TRUE]
      ELSE [s.f EXCEPT !.blk[s.at][off % BlockUnits] = unit, !.inode[inum].size = off + 1]

-----------------------------------------------------------------------------
(* main() *)

MkGoes(pc) == mk' = [mk EXCEPT !.pc = pc]

\* The root, with its entries "." and "..".
make_root ==
  /\ mk.pc = "root"
  /\ img' = iappend(iappend(WithInode(img, "dir"), Root, Root), Root, Root)
  /\ MkGoes("next")

\* The next file gets an inode and an entry, unless it is too large.
add_file ==
  /\ mk.pc = "next" /\ ~img.failed /\ mk.files # <<>>
  /\ LET size == Head(mk.files) IN
     IF size > MkMaxFile * BlockUnits
     THEN UNCHANGED img /\ mk' = [mk EXCEPT !.files = Tail(@)]
     ELSE /\ img' = iappend(WithInode(img, "file"), Root, img.freeinode)
          /\ mk' = [pc |-> "copy", files |-> Tail(mk.files),
                    inum |-> img.freeinode, left |-> size]

copy_file ==
  /\ mk.pc = "copy" /\ ~img.failed
  /\ IF mk.left = 0 THEN MkGoes("next") /\ UNCHANGED img
     ELSE /\ img' = iappend(img, mk.inum, <<mk.inum, img.inode[mk.inum].size>>)
          /\ mk' = [mk EXCEPT !.left = @ - 1]

\* The size of the root is rounded up to the block after its last entry, and
\* the bitmap marks every block up to freeblock, if one block can hold it.
balloc ==
  /\ mk.pc = "next" /\ ~img.failed /\ mk.files = <<>>
  /\ img' = [img EXCEPT
       !.inode[Root].size = (@ \div BlockUnits + 1) * BlockUnits,
       !.bitmap = 0 .. img.freeblock - 1,
       !.failed = img.freeblock >= BitmapBits]
  /\ MkGoes("done")

MkfsInit ==
  /\ img = [inode |-> <<>>, blk |-> [b \in DataBlocks |-> Zeroes], bitmap |-> {},
            freeinode |-> Root, freeblock |-> nmeta, failed |-> FALSE]
  /\ \E files \in FileLists : mk = [pc |-> "root", files |-> files, inum |-> 0, left |-> 0]

MkfsNext == make_root \/ add_file \/ copy_file \/ balloc

-----------------------------------------------------------------------------
(* What the kernel makes of the disk *)

\* bmap() of a block that is there; 0 where it would allocate one.
bmap(ip, bn) ==
  CASE bn < MkDirect -> ip.addrs[bn]
    [] bn >= MkDirect /\ ip.addrs[MkDirect] = 0 -> 0
    [] OTHER -> img.blk[ip.addrs[MkDirect]][bn - MkDirect]

\* readi() of one unit gives it.
readi(ip, off, unit) ==
  LET b == bmap(ip, off \div BlockUnits)
  IN  b # 0 /\ img.blk[b][off % BlockUnits] = unit

\* The blocks that an inode refers to, each with the places that name it.
Named(i) ==
  LET addrs == img.inode[i].addrs
      direct == {<<0, k, addrs[k]>> : k \in 0 .. MkDirect + 1}
      under(b) == {<<b, c, img.blk[b][c]>> : c \in 0 .. MkIndirect - 1}
      below(b) == IF b = 0 THEN {} ELSE under(b)
      second == UNION {below(t[3]) : t \in below(addrs[MkDirect + 1])}
  IN  {<<i, t>> : t \in {u \in direct \cup below(addrs[MkDirect])
                               \cup below(addrs[MkDirect + 1]) \cup second : u[3] # 0}}

InodesMade == 1 .. Len(img.inode)
Reached == UNION {Named(i) : i \in InodesMade}
ReadBySingle(i) == img.inode[i].size <= (MkDirect + MkIndirect) * BlockUnits

\* The entries of the root, ".", ".." and the files, fill its blocks.
RootFull == (Len(img.inode) + 1) % BlockUnits = 0

-----------------------------------------------------------------------------
(* Properties *)

\* The disk that mkfs leaves is one the kernel can start from: every block
\* is named at one place at most, the bitmap marks the named blocks and the
\* metadata and no other, every entry of the root names an inode of its own
\* and what the root's size adds is free, and the kernel reads back from a
\* file what mkfs put into it.  Two exceptions: a file that goes past the
\* singly indirect block, where the kernel has no address (file.h:31) and
\* reads something else; and a root that its entries fill, whose size goes one
\* block past what it has (mkfs.c:189-191).
ImageSound ==
  mk.pc = "done" /\ ~img.failed =>
    /\ \A s, t \in Reached : s[2][3] = t[2][3] => s = t
    /\ img.bitmap = 0 .. nmeta - 1 \cup {t[2][3] : t \in Reached}
    /\ ~RootFull => \A k \in Len(img.inode) + 1 .. img.inode[Root].size - 1 :
                      readi(img.inode[Root], k, 0)
    /\ \A i \in InodesMade \ {Root} :
         /\ readi(img.inode[Root], i, i)
         /\ img.inode[i].nlink = 1
         /\ ReadBySingle(i) =>
              \A k \in 0 .. img.inode[i].size - 1 : readi(img.inode[i], k, <<i, k>>)
=============================================================================
