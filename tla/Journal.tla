------------------------------ MODULE Journal ------------------------------
(***************************************************************************)
(* What the logging layer of kernel/log.c promises to the file system: an  *)
(* atomic disk.  File-system calls run concurrently between Begin and End  *)
(* and update blocks; the updates of a group of calls become stable all at *)
(* once, and only when no call of the group is still running; a crash      *)
(* falls back to the last stable disk.  This module knows nothing of the   *)
(* log area, the header block, the buffer cache or the recovery.           *)
(***************************************************************************)

CONSTANTS Procs,    \* processes that make file-system calls
          Blocks,   \* home blocks of the file system
          Vals      \* contents of a block

VARIABLES view,     \* what the running system reads from every block
          stable,   \* the disk that a crash now would leave behind
          active    \* processes between begin_op() and end_op()

jvars == <<view, stable, active>>

JTypeOK == /\ view \in [Blocks -> Vals]
           /\ stable \in [Blocks -> Vals]
           /\ active \subseteq Procs

JInit == /\ view \in [Blocks -> Vals]
         /\ stable = view
         /\ active = {}

\* A call may join a running group; a new group starts only on a disk on
\* which the previous one is already stable.
JBegin(p) == /\ p \notin active
             /\ active # {} \/ view = stable
             /\ active' = active \cup {p}
             /\ UNCHANGED <<view, stable>>

JWrite(p, b, v) == /\ p \in active
                   /\ view' = [view EXCEPT ![b] = v]
                   /\ UNCHANGED <<stable, active>>

JEnd(p) == /\ p \in active
           /\ active' = active \ {p}
           /\ UNCHANGED <<view, stable>>

\* The group's updates become stable in one step.
JCommit == /\ active = {}
           /\ stable' = view
           /\ UNCHANGED <<view, active>>

JCrash == /\ view' = stable
          /\ active' = {}
          /\ UNCHANGED stable

JNext == \/ \E p \in Procs : \/ JBegin(p)
                             \/ JEnd(p)
                             \/ \E b \in Blocks, v \in Vals : JWrite(p, b, v)
         \/ JCommit
         \/ JCrash

JSpec == JInit /\ [][JNext]_jvars
=============================================================================
