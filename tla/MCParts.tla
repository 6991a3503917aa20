------------------------------ MODULE MCParts ------------------------------
(* Memory, the programs and libraries (heap, explorer, editor, input field,  *)
(* desktop, mkfs), and the parts whose processes wait for one another (disk *)
(* driver, pipe, the terminal with its commands).  The models share no      *)
(* state: a behaviour picks one part and the others stay as they start.     *)
EXTENDS Memory, Umalloc, Explorer, Editor, InputField, Desktop, Mkfs,
        Ide, Pipe, Terminal

VARIABLE part  \* the part that runs

\* A text and a program; a directory with a file; a long text and a
\* directory with a protected name; a directory in a directory.
Empty == [p \in Paths |-> None]
AllDisks ==
  {[Empty EXCEPT ![<<"n.txt">>] = <<"x">>, ![<<"editor">>] = <<"y", "y">>],
   [Empty EXCEPT ![<<"n.txt">>] = Dir, ![<<"n.txt", "n.txt">>] = <<"x">>],
   [Empty EXCEPT ![<<"n.txt">>] = <<"y", "y">>, ![<<"editor">>] = Dir],
   [Empty EXCEPT ![<<"n.txt">>] = Dir, ![<<"n.txt", "editor">>] = Dir]}
TextExtension == [x \in {"n.txt"} |-> "txt"]

AllFiles == {<<>>, <<"a", NL>>, <<NL, "a", NL>>, <<"a", "a", NL, "a", "a">>}

\* Two icons, apart in both directions, and points on and beside them.
IconsAt == <<<<0, 0>>, <<1, 2>>>>
Points == {<<0, 0>>, <<2, 3>>, <<1, 2>>, <<3, 0>>, <<0, 3>>}
OnStart == {<<0, 3>>}

\* Files that end in the direct, the indirect and the doubly indirect blocks,
\* one that fills the image, and one too large for an inode.
AllFileLists == UNION {[1 .. n -> {0, 3, 6, 13, 15}] : n \in 0 .. 3}

echo == execcmd(<<"echo">>)
cat == execcmd(<<"cat">>)

\* Every kind of node, in every place where the parser has to tell them
\* apart; pipes of two and three programs, with programs that do not exist,
\* that read a file or write one, in the background, and more processes than
\* there are; programs that wait for their user, also in the background; more
\* output than the terminal reads.
AllCommands ==
  {execcmd(<<"echo", "x">>), execcmd(<<"editor">>), execcmd(<<"no">>), execcmd(<<"clear">>),
   pipecmd(execcmd(<<>>), cat), pipecmd(echo, cat), pipecmd(echo, pipecmd(cat, cat)),
   cat, backcmd(execcmd(<<"editor">>)), listcmd(echo, backcmd(execcmd(<<"editor">>))),
   listcmd(echo, echo), listcmd(echo, listcmd(echo, echo)), listcmd(backcmd(echo), echo), pipecmd(listcmd(echo, echo), cat),
   redircmd(cat, "f", 0), redircmd(pipecmd(echo, cat), "f", 1),
   pipecmd(echo, execcmd(<<"no">>)), pipecmd(pipecmd(echo, listcmd(echo, echo)), cat),
   pipecmd(pipecmd(echo, pipecmd(echo, cat)), cat), pipecmd(pipecmd(echo, backcmd(echo)), cat),
   redircmd(redircmd(cat, "f", 0), "g", 1), backcmd(pipecmd(redircmd(cat, "f", 0), cat))}

AllBadLines ==
  {<<"echo", "(">>, <<"(", "echo">>, <<"echo", ">">>, <<"echo", "x", "y">>, <<"echo", ")">>,
   <<">", "f", "echo", "<">>}

partVars ==
  <<part,
    memVars, umallocVars, explorerVars, editorVars, fieldVars, desktopVars, mkfsVars,
    ideVars, pipeVars, terminalVars>>

Init ==
  /\ part \in
       {"memory", "heap", "explorer", "editor", "field", "desktop", "mkfs", "ide",
        "pipe", "terminal"}
  /\ MemInit /\ UmallocInit /\ ExplorerInit /\ EditorInit /\ FieldInit /\ DesktopInit
  /\ MkfsInit /\ IdeInit /\ PipeInit /\ TerminalInit
  /\ part # "explorer" => disk = CHOOSE d \in FirstDisks : TRUE
  /\ part # "editor" => file = <<>>
  /\ part # "mkfs" => mk.files = <<>>

MemPart ==
  /\ part = "memory" /\ MemNext
  /\ UNCHANGED
       <<part, umallocVars, explorerVars, editorVars, fieldVars, desktopVars, mkfsVars,
         ideVars, pipeVars, terminalVars>>
UmallocPart ==
  /\ part = "heap" /\ UmallocNext
  /\ UNCHANGED
       <<part, memVars, explorerVars, editorVars, fieldVars, desktopVars, mkfsVars, ideVars,
         pipeVars, terminalVars>>
ExplorerPart ==
  /\ part = "explorer" /\ ExplorerNext
  /\ UNCHANGED
       <<part, memVars, umallocVars, editorVars, fieldVars, desktopVars, mkfsVars, ideVars,
         pipeVars, terminalVars>>
EditorPart ==
  /\ part = "editor" /\ EditorNext
  /\ UNCHANGED
       <<part, memVars, umallocVars, explorerVars, fieldVars, desktopVars, mkfsVars, ideVars,
         pipeVars, terminalVars>>
FieldPart ==
  /\ part = "field" /\ FieldNext
  /\ UNCHANGED
       <<part, memVars, umallocVars, explorerVars, editorVars, desktopVars, mkfsVars,
         ideVars, pipeVars, terminalVars>>
DesktopPart ==
  /\ part = "desktop" /\ DesktopNext
  /\ UNCHANGED
       <<part, memVars, umallocVars, explorerVars, editorVars, fieldVars, mkfsVars, ideVars,
         pipeVars, terminalVars>>
MkfsPart ==
  /\ part = "mkfs" /\ MkfsNext
  /\ UNCHANGED
       <<part, memVars, umallocVars, explorerVars, editorVars, fieldVars, desktopVars,
         ideVars, pipeVars, terminalVars>>
IdePart ==
  /\ part = "ide" /\ IdeNext
  /\ UNCHANGED
       <<part, memVars, umallocVars, explorerVars, editorVars, fieldVars, desktopVars,
         mkfsVars, pipeVars, terminalVars>>
PipePart ==
  /\ part = "pipe" /\ PipeNext
  /\ UNCHANGED
       <<part, memVars, umallocVars, explorerVars, editorVars, fieldVars, desktopVars,
         mkfsVars, ideVars, terminalVars>>
TerminalPart ==
  /\ part = "terminal" /\ TerminalNext
  /\ UNCHANGED
       <<part, memVars, umallocVars, explorerVars, editorVars, fieldVars, desktopVars,
         mkfsVars, ideVars, pipeVars>>

Next ==
  \/ MemPart \/ UmallocPart \/ ExplorerPart \/ EditorPart \/ FieldPart
  \/ DesktopPart \/ MkfsPart \/ IdePart \/ PipePart \/ TerminalPart

\* The disk finishes its command, interrupts are taken and processes that
\* are awake run.
IdeFair ==
  /\ WF_ideVars(part = "ide" /\ disk_done)
  /\ WF_ideVars(part = "ide" /\ \E latched, good, ready \in BOOLEAN : ideintr(latched, good, ready))
  /\ \A b \in Blocks : WF_ideVars(part = "ide" /\ iderw_return(b))

\* Processes inside the kernel are scheduled; nothing obliges a program to
\* call read() or close().
PipeFair == \A p \in Procs : WF_pipeVars(part = "pipe" /\ System(p))

\* Commands and the terminal run; nothing obliges the user to enter a line,
\* to close a window or to type at the console.
TerminalFair ==
  /\ \A s \in ShellProcs : WF_terminalVars(part = "terminal" /\ TerminalStep(s))
  /\ WF_terminalVars(part = "terminal" /\ TermStep)

Spec == Init /\ [][Next]_partVars /\ IdeFair /\ PipeFair /\ TerminalFair
=============================================================================
