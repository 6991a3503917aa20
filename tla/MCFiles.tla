------------------------------ MODULE MCFiles ------------------------------
EXTENDS FileSystem, TLC

Call(op, path, n) == [op |-> op, path |-> path, new |-> <<>>, n |-> n]
Link(path, new) == [Call("link", path, 0) EXCEPT !.new = new]
Fd(op) == Call(op, <<>>, 0)

\* One file with two names.
LinkCalls ==
  {Call("create", <<"a">>, O_RDWR), Call("unlink", <<"a">>, 0),
   Link(<<"a">>, <<"b">>), Call("unlink", <<"b">>, 0), Fd("close")}

\* A directory that is filled, entered and removed.
DirCalls ==
  {Call("mkdir", <<"a">>, 0), Call("create", <<"a", "b">>, O_WRONLY),
   Call("unlink", <<"a", "b">>, 0), Call("unlink", <<"a">>, 0),
   Call("chdir", <<"/", "a">>, 0), Call("chdir", <<"..">>, 0)}

\* Descriptors, and files that outgrow their direct blocks.
FileCalls ==
  {Call("create", <<"a">>, O_WRONLY), Call("open", <<"a">>, O_RDONLY),
   Call("write", <<>>, 3), Fd("read"), Fd("dup"), Fd("close"),
   Call("unlink", <<"a">>, 0)}

\* Devices, and links to names that exist or that cannot be made.
DeviceCalls ==
  {Call("mknod", <<"a">>, 0), Call("open", <<"a">>, O_RDWR), Fd("read"),
   Call("write", <<>>, 1), Call("exec", <<"a">>, 0), Link(<<"a">>, <<"a">>),
   Link(<<"a">>, <<"b", "c">>)}

\* Names that a call refuses.
EdgeCalls ==
  {Call("create", <<"a">>, O_RDWR), Call("unlink", <<".">>, 0),
   Call("unlink", <<"/">>, 0), Call("open", <<".">>, O_RDWR), Fd("fstat"),
   Link(<<"a">>, <<".">>)}

\* Pipes that find the files or the descriptors used up.
PipeCalls ==
  {Call("create", <<"a">>, O_WRONLY), Fd("pipe"), Fd("dup"), Fd("close")}

\* Processes that share files and end with some of them open.
ForkCalls ==
  {Call("create", <<"a">>, O_RDWR), Call("unlink", <<"a">>, 0), Fd("fork"),
   Fd("exit"), Fd("close")}

\* A directory in a directory, both removed while a path leads through them.
NestedCalls ==
  {Call("mkdir", <<"a">>, 0), Call("mkdir", <<"a", "b">>, 0),
   Call("unlink", <<"a", "b">>, 0), Call("unlink", <<"a">>, 0),
   Call("open", <<"a", "b", "..">>, O_RDONLY)}

\* The same from within, by one process.
LeaveCalls ==
  {Call("mkdir", <<"a">>, 0), Call("chdir", <<"a">>, 0), Call("mkdir", <<"b">>, 0),
   Call("chdir", <<"b">>, 0), Call("unlink", <<"/", "a", "b">>, 0),
   Call("unlink", <<"/", "a">>, 0), Call("chdir", <<"..">>, 0)}

AllPrograms ==
  {LinkCalls, DirCalls, NestedCalls, FileCalls, DeviceCalls, EdgeCalls, PipeCalls,
   ForkCalls}

\* One of them alone, for the runs that show what fails.
LinkProgram == {LinkCalls}
LeaveProgram == {LeaveCalls}

FileSymmetry == Permutations(Procs)
=============================================================================
