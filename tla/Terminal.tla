------------------------------ MODULE Terminal ------------------------------
(***************************************************************************)
(* The terminal (src/app/terminal/terminal.c): the parser of command       *)
(* lines, the processes that runcmd() makes of a command, and the loop     *)
(* that collects their output and shows it.                                *)
(*                                                                         *)
(* A command line is a sequence of tokens (what gettoken() cuts the line   *)
(* into).  A program is known by its first word: "echo" writes            *)
(* once, "cat" copies its input, a program with a window runs until its    *)
(* user closes it, and other names do not exist.  A pipe holds one write.  *)
(***************************************************************************)
EXTENDS Integers, Sequences, FiniteSets, FiniteSetsExt

CONSTANTS
  ShellProcs,  \* processes beside the terminal
  Commands,    \* commands the user means
  BadLines,    \* token sequences that are no commands
  MAXARGS,
  ReadLimit,   \* READBUFFERSIZE - 256: writes after which reading stops
  MaxLines     \* bound: lines entered

Symbols == {"<", ">", ">>", "|", "&", ";", "(", ")"}

-----------------------------------------------------------------------------
(* The parser *)

execcmd(argv) == [type |-> "EXEC", argv |-> argv]
redircmd(c, path, fd) == [type |-> "REDIR", cmd |-> c, file |-> path, fd |-> fd]
pipecmd(l, r) == [type |-> "PIPE", left |-> l, right |-> r]
listcmd(l, r) == [type |-> "LIST", left |-> l, right |-> r]
backcmd(c) == [type |-> "BACK", cmd |-> c]

\* What a parsing function returns: a command and the tokens left over, or
\* panic(), which ends the child.
Parsed(c, rest) == [ok |-> TRUE, cmd |-> c, rest |-> rest]
SyntaxError == [ok |-> FALSE, cmd |-> execcmd(<<>>), rest |-> <<>>]

peek(s, toks) == s # <<>> /\ Head(s) \in toks
Skip(s, n) == SubSeq(s, n + 1, Len(s))

RECURSIVE parseredirs(_, _)
parseredirs(c, s) ==
  IF ~peek(s, {"<", ">", ">>"}) THEN Parsed(c, s)
  ELSE IF Len(s) < 2 \/ s[2] \in Symbols THEN SyntaxError
  ELSE parseredirs(redircmd(c, s[2], IF s[1] = "<" THEN 0 ELSE 1), Skip(s, 2))

\* The arguments of a command, with redirections between them: the inner
\* command gets its arguments, the redirections go around it.
RECURSIVE WithArgs(_, _)
WithArgs(c, argv) ==
  IF c.type = "REDIR" THEN redircmd(WithArgs(c.cmd, argv), c.file, c.fd)
  ELSE execcmd(argv)

\* The arguments, after what parseredirs() returned.
RECURSIVE parseargs(_, _)
parseargs(r, argv) ==
  IF ~r.ok THEN r
  ELSE IF r.rest = <<>> \/ peek(r.rest, {"|", ")", "&", ";"})
       THEN Parsed(WithArgs(r.cmd, argv), r.rest)
  ELSE IF Head(r.rest) \in Symbols \/ Len(argv) + 1 >= MAXARGS THEN SyntaxError
  ELSE parseargs(parseredirs(r.cmd, Tail(r.rest)), Append(argv, Head(r.rest)))

RECURSIVE parseline(_), parsepipe(_), parseback(_)

\* What parseblock() does after the line in parentheses.
\* Mutant: the redirections behind a block are not looked for.
blockendNoRedirs(r) ==
  IF r.ok /\ peek(r.rest, {")"}) THEN Parsed(r.cmd, Tail(r.rest)) ELSE SyntaxError

blockend(r) ==
  IF r.ok /\ peek(r.rest, {")"}) THEN parseredirs(r.cmd, Tail(r.rest)) ELSE SyntaxError

parseblock(s) == blockend(parseline(Tail(s)))

parseexec(s) ==
  IF peek(s, {"("}) THEN parseblock(s) ELSE parseargs(parseredirs(execcmd(<<>>), s), <<>>)

\* The command for what was parsed and what follows the "|" or the ";".
Piping(l, r) == IF r.ok THEN Parsed(pipecmd(l.cmd, r.cmd), r.rest) ELSE r
Listing(l, r) == IF r.ok THEN Parsed(listcmd(l.cmd, r.cmd), r.rest) ELSE r

\* What parsepipe() and parseline() do after their first command.
pipeend(l) ==
  IF l.ok /\ peek(l.rest, {"|"}) THEN Piping(l, parsepipe(Tail(l.rest))) ELSE l

lineend(l) ==
  IF l.ok /\ peek(l.rest, {";"}) THEN Listing(l, parseline(Tail(l.rest))) ELSE l

parsepipe(s) == pipeend(parseexec(s))

parseback(l) ==
  IF l.ok /\ peek(l.rest, {"&"}) THEN parseback(Parsed(backcmd(l.cmd), Tail(l.rest))) ELSE l

parseline(s) == lineend(parseback(parsepipe(s)))

\* A line is parsed to its end.
lineparsed(r) == IF r.rest = <<>> THEN r ELSE SyntaxError

parsecmd(s) == lineparsed(parseline(s))

-----------------------------------------------------------------------------
(* How a user writes a command: the reference for the parser *)

RECURSIVE Line(_), Piped(_), Simple(_), Back(_)
Simple(c) ==
  CASE c.type = "EXEC" -> c.argv
    [] c.type = "REDIR" -> Simple(c.cmd) \o <<IF c.fd = 0 THEN "<" ELSE ">", c.file>>
    [] OTHER -> <<"(">> \o Line(c) \o <<")">>
Piped(c) ==
  IF c.type = "PIPE" THEN Simple(c.left) \o <<"|">> \o Piped(c.right) ELSE Simple(c)
Back(c) == IF c.type = "BACK" THEN Back(c.cmd) \o <<"&">> ELSE Piped(c)
Line(c) == IF c.type = "LIST" THEN Back(c.left) \o <<";">> \o Line(c.right) ELSE Back(c)

\* Every line, parsed.
Parse == [l \in {Line(c) : c \in Commands} \cup BadLines |-> parsecmd(l)]

-----------------------------------------------------------------------------
(* Processes *)

VARIABLES
  proc,   \* [ShellProcs -> [pc, cmd, parent, in, out, held, data]]
  pipes,  \* [pipe -> writes it holds]
  term,   \* the terminal
  lineno  \* lines entered

terminalVars == <<proc, pipes, term, lineno>>

\* A pipe is named after the process, or the terminal, that makes it.
Makers == ShellProcs \cup {"terminal"}
Tty == <<"tty", "terminal">>
File == <<"file", "terminal">>
FileRead == <<"file read", "terminal">>
R(k) == <<"r", k>>
W(k) == <<"w", k>>

NoProcess == [pc |-> "unused", cmd |-> execcmd(<<>>), parent |-> "none", in |-> Tty,
              out |-> Tty, held |-> {}, data |-> 0]
AtPrompt == [pc |-> "prompt", meant |-> execcmd(<<>>), line |-> <<>>, held |-> {},
             read_buf |-> 0, shown |-> <<>>]

Alive(p) == proc[p].pc \notin {"unused", "zombie"}
Open(end) ==
  \/ end \in term.held
  \/ \E p \in ShellProcs : Alive(p) /\ (proc[p].in = end \/ proc[p].out = end
                                        \/ end \in proc[p].held)

FreeProcs == {p \in ShellProcs : proc[p].pc = "unused"}
Children(m) == {p \in ShellProcs : proc[p].pc # "unused" /\ proc[p].parent = m}
Zombies(m) == {p \in Children(m) : proc[p].pc = "zombie"}

Child(c, m, in, out) ==
  [NoProcess EXCEPT !.pc = "run", !.cmd = c, !.parent = m, !.in = in, !.out = out]

\* exit(): children go to init, which reaps the zombies among them.
Exited(ps, p) ==
  [q \in ShellProcs |->
     IF q = p THEN IF ps[p].parent = "init" THEN NoProcess
                   ELSE [NoProcess EXCEPT !.pc = "zombie", !.parent = ps[p].parent]
     ELSE IF ps[q].pc # "unused" /\ ps[q].parent = p
          THEN IF ps[q].pc = "zombie" THEN NoProcess ELSE [ps[q] EXCEPT !.parent = "init"]
     ELSE ps[q]]

\* The slot fork() takes, if one is left.
NewProc == IF FreeProcs = {} THEN {} ELSE {CHOOSE q \in FreeProcs : TRUE}

\* fork1(): no process or no memory left is a panic(), which exits.
Forked(p, c, in, out, then) ==
  \/ proc' = Exited(proc, p)
  \/ \E q \in NewProc : proc' = [proc EXCEPT ![q] = Child(c, p, in, out), ![p] = then]

Runs(p, pc) == proc[p].pc = pc

\* Mutant: the parent of a pipe waits before it closes its ends.
runpipe2KeepOpen(p) ==
  /\ Runs(p, "pipe2")
  /\ proc' = [proc EXCEPT ![p] = [@ EXCEPT !.pc = "wait2"]]
  /\ UNCHANGED <<pipes, term, lineno>>

\* runcmd(), by type of command.
runcmd(p) ==
  LET me == proc[p]
      c == me.cmd
  IN
  /\ Runs(p, "run")
  /\ UNCHANGED <<term, lineno>>
  /\ \/ /\ c.type = "EXEC"
        /\ proc' = IF c.argv = <<>> \/ Head(c.argv) \notin {"echo", "cat", "editor"}
                   THEN Exited(proc, p)
                   ELSE [proc EXCEPT ![p].pc = "program"]
        /\ UNCHANGED pipes
     \/ /\ c.type = "REDIR"
        /\ \/ proc' = [proc EXCEPT ![p] = IF c.fd = 0 THEN [me EXCEPT !.cmd = c.cmd, !.in = File]
                                          ELSE [me EXCEPT !.cmd = c.cmd, !.out = File]]
           \/ proc' = Exited(proc, p)
        /\ UNCHANGED pipes
     \/ /\ c.type = "LIST"
        /\ Forked(p, c.left, me.in, me.out, [me EXCEPT !.pc = "list"])
        /\ UNCHANGED pipes
     \/ /\ c.type = "PIPE"
        /\ \/ /\ pipes' = [pipes EXCEPT ![p] = 0]
              /\ Forked(p, c.left, me.in, W(p), [me EXCEPT !.pc = "pipe1", !.held = {R(p), W(p)}])
           \/ proc' = Exited(proc, p) /\ UNCHANGED pipes   \* pipe() failed
     \/ /\ c.type = "BACK"
        /\ \/ proc' = Exited(proc, p)
           \/ \E q \in NewProc : proc' = Exited([proc EXCEPT ![q] = Child(c.cmd, p, me.in, me.out)], p)
        /\ UNCHANGED pipes

\* LIST: wait for the left command, then become the right one.
runlist(p) ==
  /\ Runs(p, "list")
  /\ Zombies(p) # {}
  /\ \E q \in Zombies(p) :
       proc' = [proc EXCEPT ![q] = NoProcess,
                            ![p] = [@ EXCEPT !.pc = "run", !.cmd = proc[p].cmd.right]]
  /\ UNCHANGED <<pipes, term, lineno>>

\* PIPE: fork the right command, close both ends, wait twice.
runpipe1(p) ==
  /\ Runs(p, "pipe1")
  /\ Forked(p, proc[p].cmd.right, R(p), proc[p].out, [proc[p] EXCEPT !.pc = "pipe2"])
  /\ UNCHANGED <<pipes, term, lineno>>

runpipe2(p) ==
  /\ Runs(p, "pipe2")
  /\ proc' = [proc EXCEPT ![p] = [@ EXCEPT !.pc = "wait2", !.held = {}]]
  /\ UNCHANGED <<pipes, term, lineno>>

runwait(p) ==
  /\ proc[p].pc \in {"wait2", "wait1"}
  /\ \E q \in Zombies(p) :
       LET reaped == [proc EXCEPT ![q] = NoProcess] IN
       proc' = IF proc[p].pc = "wait2" THEN [reaped EXCEPT ![p].pc = "wait1"]
               ELSE Exited(reaped, p)
  /\ UNCHANGED <<pipes, term, lineno>>

-----------------------------------------------------------------------------
(* Programs *)

\* A write to the standard output: a pipe without readers is an error, and
\* the program ends.
Write(p, then) ==
  LET out == proc[p].out IN
  IF out \in {Tty, File}
  THEN proc' = then /\ UNCHANGED pipes
  ELSE IF ~Open(R(out[2])) THEN proc' = Exited(proc, p) /\ UNCHANGED pipes
  ELSE /\ pipes[out[2]] = 0
       /\ pipes' = [pipes EXCEPT ![out[2]] = 1]
       /\ proc' = then

program(p) ==
  LET me == proc[p]
      name == Head(me.cmd.argv)
  IN
  /\ Runs(p, "program")
  /\ UNCHANGED <<term, lineno>>
  /\ \/ name = "echo" /\ Write(p, Exited(proc, p))
     \/ /\ name = "cat" /\ me.data = 1
        /\ Write(p, [proc EXCEPT ![p].data = 0])
     \/ /\ name = "cat" /\ me.data = 0 /\ me.in = File
        /\ proc' = [proc EXCEPT ![p] = [me EXCEPT !.data = 1, !.in = FileRead]]
        /\ UNCHANGED pipes
     \/ /\ name = "cat" /\ me.data = 0 /\ me.in = FileRead
        /\ proc' = Exited(proc, p)
        /\ UNCHANGED pipes
     \/ /\ name = "cat" /\ me.data = 0 /\ me.in \notin {Tty, File, FileRead}
        /\ IF pipes[me.in[2]] = 1
           THEN /\ pipes' = [pipes EXCEPT ![me.in[2]] = 0]
                /\ proc' = [proc EXCEPT ![p].data = 1]
           ELSE /\ ~Open(W(me.in[2]))
                /\ proc' = Exited(proc, p)
                /\ UNCHANGED pipes

\* A program that waits for its user: one with a window until it is closed,
\* one that reads the console until a line or the end is typed there.
WaitsForUser(p) ==
  /\ Runs(p, "program")
  /\ LET name == Head(proc[p].cmd.argv) IN
     name = "editor" \/ (name = "cat" /\ proc[p].data = 0 /\ proc[p].in = Tty)

user(p) ==
  /\ WaitsForUser(p)
  /\ \/ proc' = Exited(proc, p)
     \/ proc[p].cmd.argv[1] = "cat" /\ proc' = [proc EXCEPT ![p].data = 1]
  /\ UNCHANGED <<pipes, term, lineno>>

-----------------------------------------------------------------------------
(* The terminal *)

isGUIProgram(line) == line # <<>> /\ Head(line) = "editor"

\* inputHandler() at the return key: an empty line is skipped, "clear" is
\* built in.
enter(c, line) ==
  /\ term.pc = "prompt"
  /\ lineno < MaxLines
  /\ lineno' = lineno + 1
  /\ line # <<>>
  /\ term' = IF line = <<"clear">> THEN [term EXCEPT !.shown = <<>>]
             ELSE [term EXCEPT !.pc = IF isGUIProgram(line) THEN "fork" ELSE "pipe",
                               !.meant = c, !.line = line]
  /\ UNCHANGED <<proc, pipes>>

\* executeCommand(): the pipe, unless none can be made.
term_pipe ==
  /\ term.pc = "pipe"
  /\ \/ /\ term' = [term EXCEPT !.pc = "fork", !.held = {R("terminal"), W("terminal")}]
        /\ pipes' = [pipes EXCEPT !["terminal"] = 0]
     \/ /\ term' = [term EXCEPT !.pc = "fork"]
        /\ UNCHANGED pipes
  /\ UNCHANGED <<proc, lineno>>

\* fork(): the child parses the line and runs the command; on failure the
\* pipe is closed and what is shown is whatever read_buf held.
term_fork ==
  LET r == Parse[term.line]
      child == Child(r.cmd, "terminal", Tty,
                     IF term.held = {} THEN Tty ELSE W("terminal"))
  IN
  /\ term.pc = "fork"
  /\ \/ /\ \E q \in NewProc :
             proc' = [proc EXCEPT ![q] = IF r.ok THEN child
                                         ELSE [child EXCEPT !.pc = "zombie"]]
        /\ term' = [term EXCEPT !.pc = IF term.held = {} THEN "wait" ELSE "read",
                                !.read_buf = 0, !.held = @ \ {W("terminal")}]
     \/ /\ term' = [term EXCEPT !.pc = "show", !.held = {}]
        /\ UNCHANGED proc
  /\ UNCHANGED <<pipes, lineno>>

\* Read until the end of the output or the limit of the buffer, then close
\* the pipe: what is written after that fails.
term_read ==
  /\ term.pc = "read"
  /\ IF pipes["terminal"] = 1 /\ term.read_buf < ReadLimit
     THEN /\ pipes' = [pipes EXCEPT !["terminal"] = 0]
          /\ term' = [term EXCEPT !.read_buf = @ + 1]
     ELSE /\ term.read_buf >= ReadLimit \/ ~Open(W("terminal"))
          /\ term' = [term EXCEPT !.pc = "wait", !.held = {}]
          /\ UNCHANGED pipes
  /\ UNCHANGED <<proc, lineno>>

term_wait ==
  /\ term.pc = "wait"
  /\ \E q \in Zombies("terminal") : proc' = [proc EXCEPT ![q] = NoProcess]
  /\ term' = [term EXCEPT !.pc = "show"]
  /\ UNCHANGED <<pipes, lineno>>

\* addToHistory() of the command and of read_buf.
term_show ==
  /\ term.pc = "show"
  /\ term' = [term EXCEPT !.pc = "prompt", !.shown = Append(@, term.read_buf)]
  /\ UNCHANGED <<proc, pipes, lineno>>

TerminalInit ==
  /\ proc = [p \in ShellProcs |-> NoProcess]
  /\ pipes = [k \in Makers |-> 0]
  /\ term = AtPrompt
  /\ lineno = 0

TerminalStep(p) ==
  runcmd(p) \/ runlist(p) \/ runpipe1(p) \/ runpipe2(p) \/ runwait(p) \/ program(p)

TermStep == term_pipe \/ term_fork \/ term_read \/ term_wait \/ term_show

TerminalNext ==
  \/ \E c \in Commands : enter(c, Line(c))
  \/ \E l \in BadLines : enter(execcmd(<<>>), l)
  \/ \E p \in ShellProcs : TerminalStep(p) \/ user(p)
  \/ TermStep

-----------------------------------------------------------------------------
(* Properties *)

\* The parser understands a command as its writer meant it: pipes bind
\* before "&", "&" before ";", redirections go with the simple command or
\* the block before them, and a line that is no command is refused.
ParsesAsMeant ==
  term.pc # "prompt" =>
    Parse[term.line] = IF term.line \in BadLines THEN SyntaxError ELSE Parsed(term.meant, <<>>)

\* A program that the terminal waits for although only its user can end it:
\* the command itself or a part of it, or one in the background that has the
\* terminal's pipe.
InTheWay(p) == WaitsForUser(p) /\ (proc[p].parent # "init" \/ proc[p].out = W("terminal"))

\* The prompt comes back after every command that waits for no user, whatever
\* part of it fails to start and however much it writes: every end of every
\* pipe that somebody waits on is closed in time.
PromptReturns == []<>(term.pc = "prompt" \/ \E p \in ShellProcs : InTheWay(p))
=============================================================================
