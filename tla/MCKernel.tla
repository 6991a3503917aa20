------------------------------ MODULE MCKernel ------------------------------
(* The processes on two CPUs, the console, and the keyboard and mouse port. *)
(* The models share no state: a behaviour picks one part and the others     *)
(* stay as they start.                                                      *)
EXTENDS Proc, Console, Ps2

VARIABLE part  \* the part that runs

kernelVars == <<part, vars, consoleVars, ps2Vars>>

\* Mouse packets <<flags, x, y>> and keys: clicks and a movement; the packet
\* 12, 0, 0 that resynchronizes, with a key between; modifier keys.
AllScenes ==
  {[packets |-> {<<8, 0, 0>>, <<9, 0, 0>>, <<8, 1, 0>>}, keys |-> {}, max |-> 5],
   [packets |-> {<<12, 0, 0>>, <<72, 1, 1>>}, keys |-> {<<42>>}, max |-> 3],
   [packets |-> {<<10, 0, 0>>}, keys |-> {<<42>>, <<224, 29>>, <<58>>}, max |-> 2]}

KernelInit ==
  /\ part \in {"proc", "console", "ps2"}
  /\ Init /\ ConsoleInit /\ Ps2Init
  /\ part # "ps2" => scene = CHOOSE s \in Scenes : TRUE

ProcPart == part = "proc" /\ Next /\ UNCHANGED <<part, consoleVars, ps2Vars>>
ConsolePart == part = "console" /\ ConsoleNext /\ UNCHANGED <<part, vars, ps2Vars>>
Ps2Part == part = "ps2" /\ Ps2Next /\ UNCHANGED <<part, vars, consoleVars>>

\* The other parts stop at their bounds; the processes never do.
AtBound == part # "proc" /\ UNCHANGED kernelVars

KernelNext == ProcPart \/ ConsolePart \/ Ps2Part \/ AtBound

KernelSpec == KernelInit /\ [][KernelNext]_kernelVars
=============================================================================
