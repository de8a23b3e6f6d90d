--------------------------------- MODULE Sh ---------------------------------
(***************************************************************************)
(* init and the shell (user/init.c, user/sh.c) with the programs echo and  *)
(* cat, on the descriptors of FileTable and the processes of kernel/proc.c *)
(* (fork, exit, wait; module Proc has their locks).                        *)
(*                                                                         *)
(* A process is the sequence todo of system calls it has still to make;    *)
(* runcmd is the translation of a command into such a sequence.  One step  *)
(* is one call, except that fileclose and pipe() take several.  The parser *)
(* has no effects, so the trees of the lines are worked out at the start.  *)
(***************************************************************************)
EXTENDS FileTable, ShParse

CONSTANTS
    Programs,    \* the names of echo and of cat
    Loads        \* the lines typed, the size of the tables, what is on disk, and whether
                 \* the machine is on (else the lines are only parsed)

InitProc == 1

ASSUME ShAssumption ==
    /\ Procs = 1 .. Cardinality(Procs) /\ NOFILE \in Nat /\ MAXARGS \in Nat /\ PIPESIZE \in Nat \ {0}
    /\ \A l \in Loads : l.room.nproc <= Cardinality(Procs) /\ l.room.nfile <= NFILE /\ l.room.nofile <= NOFILE /\ l.room.npipe <= NPipes

VARIABLES
    state, parent,
    todo,
    pfd,         \* the array p of runcmd: the descriptors of a pipe
    shell,       \* the pid that init remembers
    prog,        \* the command that a process has executed: [argv, at]
    typed,       \* the lines, their trees, what the grammar says of them, and the next to be read
    ran,         \* the commands that were executed
    failed       \* a system call has failed

pvars == <<state, parent, pfd, shell>>
gvars == <<prog, ran, failed>>
vars  == <<ftvars, pvars, gvars, todo, typed>>

------------------------------------------------------------------------------
(* System calls, as elements of todo.  P0 and P1 stand for p[0] and p[1].    *)

P0 == NOFILE + 1
P1 == NOFILE + 2
CloseFd(fd)       == [op |-> "close", fd |-> fd]
DupFd(fd)         == [op |-> "dup", fd |-> fd]
OpenAs(name, mode) == [op |-> "open", name |-> name, mode |-> mode]
ForkTo(child)     == [op |-> "fork", child |-> child]
Call(op)          == [op |-> op]
Run(cmd, at)      == [op |-> "run", cmd |-> cmd, at |-> at]

\* Mutant: the parent of a pipeline keeps the write end.
PipelineKeeps(c, at) ==
    <<[op |-> "pipe", at |-> at],
      ForkTo(<<CloseFd(1), DupFd(P1), CloseFd(P0), CloseFd(P1), Run(c.left, Append(at, "l"))>>),
      ForkTo(<<CloseFd(0), DupFd(P0), CloseFd(P0), CloseFd(P1), Run(c.right, Append(at, "r"))>>),
      CloseFd(P0), Call("wait"), Call("wait"), Call("exit")>>

\* runcmd, case PIPE
Pipeline(c, at) ==
    <<[op |-> "pipe", at |-> at],
      ForkTo(<<CloseFd(1), DupFd(P1), CloseFd(P0), CloseFd(P1), Run(c.left, Append(at, "l"))>>),
      ForkTo(<<CloseFd(0), DupFd(P0), CloseFd(P0), CloseFd(P1), Run(c.right, Append(at, "r"))>>),
      CloseFd(P0), CloseFd(P1), Call("wait"), Call("wait"), Call("exit")>>

\* Mutant: the file is opened while the old descriptor is in use.
RedirectionEarly(c, at) ==
    <<OpenAs(c.file, c.mode), CloseFd(c.fd), Run(c.cmd, Append(at, "c"))>>

\* runcmd, case REDIR
RedirectionCalls(c, at) ==
    <<CloseFd(c.fd), OpenAs(c.file, c.mode), Run(c.cmd, Append(at, "c"))>>

Runcmd(c, at) ==
    CASE c.type = "EXEC" -> IF c.argv = <<>> THEN <<Call("exit")>>
                            ELSE <<[op |-> "exec", argv |-> c.argv, at |-> at], Call("exit")>>
      [] c.type = "REDIR" -> RedirectionCalls(c, at)
      [] c.type = "LIST" -> <<ForkTo(<<Run(c.left, Append(at, "l"))>>), Call("wait"), Run(c.right, Append(at, "r"))>>
      [] c.type = "PIPE" -> Pipeline(c, at)
      [] c.type = "BACK" -> <<ForkTo(<<Run(c.cmd, Append(at, "c"))>>), Call("exit")>>
      [] OTHER -> <<Call("exit")>>

\* main of echo: two writes for every argument, whose result it does not look at
Echo(argv) == [k \in 1 .. 2 * (Len(argv) - 1) |-> Call("write")] \o <<Call("exit")>>
\* cat(0): what is read is written, to the end of the input
Cat == <<Call("read"), Call("exit")>>
Main(argv) == IF argv[1] = Programs.echo THEN Echo(argv) ELSE Cat

\* main of init, from its loop on, and of sh
InitLoop == <<ForkTo(<<Call("execsh")>>), Call("initwait")>>
ShMain == <<Call("opensh")>>

\* main of sh for a line: blank, cd, or a command for a child
Start(s) == SkipOver(s, 1, {" "})
NoChild(s, b) == At(s, b) = "\n" \/ (At(s, b) = "c" /\ At(s, b + 1) = "d" /\ At(s, b + 2) = " ")
LineCalls(s, tree, k) == IF NoChild(s, Start(s)) THEN <<>> ELSE <<ForkTo(<<Run(tree, <<k>>)>>), Call("wait")>>

------------------------------------------------------------------------------
\* The calls left after the first, with runcmd in place of a command to run
Unfold(s) == IF s # <<>> /\ Head(s).op = "run" THEN Runcmd(Head(s).cmd, Head(s).at) ELSE s
Goto(p, s) == todo' = [todo EXCEPT ![p] = Unfold(s)]
Continue(p) == Goto(p, Tail(todo[p]))
Now(p) == Head(todo[p])
Does(p, op) == state[p] = "RUN" /\ todo[p] # <<>> /\ pend[p] = Null /\ Now(p).op = op
Fd(p, x) == IF x < NOFILE THEN x ELSE pfd[p][x - NOFILE]

CloseCall(p) ==
    /\ Does(p, "close") /\ Close(p, Fd(p, Now(p).fd)) /\ Continue(p)
    /\ UNCHANGED <<pvars, gvars, typed>>

CloseEnds(p) ==
    /\ Pipeclose(p)
    /\ UNCHANGED <<pvars, gvars, todo, typed>>

DupCall(p) ==
    /\ Does(p, "dup") /\ Dup(p, Fd(p, Now(p).fd)) /\ Continue(p)
    /\ UNCHANGED <<pvars, gvars, typed>>

\* The shell's redirections exit when open fails; init makes the device.
OpenCall(p) ==
    /\ Does(p, "open")
    /\ \/ Open(p, Now(p).name, Now(p).mode) /\ Continue(p) /\ UNCHANGED failed
       \/ OpenFails(p, Now(p).name, Now(p).mode) /\ failed' = (p # InitProc)
          /\ Goto(p, IF p = InitProc THEN <<Call("mknod")>> \o todo[p] ELSE <<Call("exit")>>)
    /\ UNCHANGED <<pvars, prog, ran, typed>>

Mknod(p) ==
    /\ Does(p, "mknod") /\ size' = [size EXCEPT ![Console] = 0] /\ Continue(p)
    /\ UNCHANGED <<ofile, file, pipe, pend, held, room, pvars, gvars, typed>>

\* while((fd = open("console", O_RDWR)) >= 0) of sh
OpenSh(p) ==
    /\ Does(p, "opensh")
    /\ \/ /\ Open(p, Console, {"RDWR"})
          /\ Goto(p, IF Fdalloc(p) < 3 THEN ShMain ELSE <<CloseFd(Fdalloc(p)), Call("getcmd")>>)
       \/ OpenFails(p, Console, {"RDWR"}) /\ Goto(p, <<Call("getcmd")>>)
    /\ UNCHANGED <<pvars, gvars, typed>>

PipeCall(p) ==
    /\ Does(p, "pipe")
    /\ \/ PipeFile(p) /\ UNCHANGED <<todo, pfd, failed>>
       \/ PipeDone(p, Now(p).at) /\ pfd' = [pfd EXCEPT ![p] = PipeFds(p)] /\ Continue(p) /\ UNCHANGED failed
       \/ /\ PipeNone(p) \/ PipeNoFds(p, Now(p).at) \/ PipeNoCopy(p, Now(p).at)
          /\ Goto(p, [k \in DOMAIN held[p] |-> Call("undo")] \o <<Call("exit")>>)
          /\ failed' = TRUE /\ UNCHANGED pfd
    /\ UNCHANGED <<state, parent, shell, prog, ran, typed>>

UndoCall(p) ==
    /\ Does(p, "undo") /\ PipeUndo(p) /\ Continue(p)
    /\ UNCHANGED <<pvars, gvars, typed>>

Unused == {q \in Procs : q <= room.nproc /\ state[q] = "UNUSED"}

\* kfork, and fork1 of the shell
Fork(p) ==
    /\ Does(p, "fork") /\ Unused # {}
    /\ LET q == Min(Unused) IN
       /\ Share(p, q)
       /\ state' = [state EXCEPT ![q] = "RUN"]
       /\ parent' = [parent EXCEPT ![q] = p]
       /\ pfd' = [pfd EXCEPT ![q] = pfd[p]]
       /\ shell' = IF p = InitProc THEN q ELSE shell
       /\ todo' = [todo EXCEPT ![p] = Unfold(Tail(@)), ![q] = Unfold(Now(p).child)]
    /\ UNCHANGED <<gvars, typed>>

ForkFails(p) ==
    /\ Does(p, "fork") /\ Unused = {}
    /\ Goto(p, <<Call("exit")>>)
    /\ failed' = TRUE
    /\ UNCHANGED <<ftvars, pvars, prog, ran, typed>>

\* kexec keeps the descriptors; the program is there or it is not.
Exec(p) ==
    /\ Does(p, "exec")
    /\ LET a == Now(p).argv IN
       IF a[1] \in {Programs.echo, Programs.cat}
       THEN /\ Goto(p, Main(a))
            /\ prog' = [prog EXCEPT ![p] = [argv |-> a, at |-> Now(p).at]]
            /\ ran' = ran \cup {Now(p).at}
            /\ UNCHANGED failed
       ELSE Continue(p) /\ failed' = TRUE /\ UNCHANGED <<prog, ran>>
    /\ UNCHANGED <<ftvars, pvars, typed>>

ExecSh(p) ==
    /\ Does(p, "execsh") /\ Goto(p, ShMain)
    /\ UNCHANGED <<ftvars, pvars, gvars, typed>>

\* getcmd: the next line, or the end of the input (after which sh exits)
Getcmd(p) ==
    /\ Does(p, "getcmd") /\ typed.k <= Len(typed.lines)
    /\ LET s == typed.lines[typed.k] IN
       Goto(p, IF s = <<>> THEN <<Call("exit")>>
               ELSE LineCalls(s, typed.tree[typed.k], typed.k) \o <<Call("getcmd")>>)
    /\ typed' = [typed EXCEPT !.k = @ + 1]
    /\ UNCHANGED <<ftvars, pvars, gvars>>

Read(p) ==
    /\ Does(p, "read") /\ ~ReadBlocks(p, 0)
    /\ IF Readable(p, 0) THEN Fileread(p, 0) /\ Goto(p, <<Call("write")>> \o todo[p])
       ELSE Continue(p) /\ UNCHANGED ftvars
    /\ UNCHANGED <<pvars, gvars, typed>>

\* cat gives up when a write fails, echo does not.
Write(p) ==
    /\ Does(p, "write") /\ ~WriteBlocks(p, 1)
    /\ IF Writable(p, 1) THEN Filewrite(p, 1) /\ Continue(p)
       ELSE UNCHANGED ftvars /\ Goto(p, IF prog[p].argv[1] = Programs.cat THEN <<Call("exit")>> ELSE Tail(todo[p]))
    /\ UNCHANGED <<pvars, gvars, typed>>

------------------------------------------------------------------------------
Children(p) == {q \in Procs : state[q] # "UNUSED" /\ parent[q] = p}
Zombies(p) == {q \in Children(p) : state[q] = "ZOMBIE"}

\* kexit: the files one after another, then the process
ExitClose(p) ==
    /\ Does(p, "exit") /\ \E fd \in Fds : ofile[p][fd] # Null
    /\ Close(p, Min({fd \in Fds : ofile[p][fd] # Null}))
    /\ prog' = [prog EXCEPT ![p] = Null]
    /\ UNCHANGED <<pvars, ran, failed, todo, typed>>

Exit(p) ==
    /\ Does(p, "exit") /\ ofile[p] = NoFds
    /\ p # InitProc
    /\ parent' = [q \in Procs |-> IF q \in Children(p) THEN InitProc ELSE parent[q]]
    /\ state' = [state EXCEPT ![p] = "ZOMBIE"]
    /\ todo' = [todo EXCEPT ![p] = <<>>]
    /\ prog' = [prog EXCEPT ![p] = Null]
    /\ UNCHANGED <<ftvars, pfd, shell, ran, failed, typed>>

\* kwait takes the first zombie of the table, or returns -1 without children; init
\* starts a shell for one that is gone, and exits when wait fails.
Reaped(p) == IF Children(p) = {} THEN Null ELSE Min(Zombies(p))
Wait(p) ==
    /\ Does(p, "wait") \/ Does(p, "initwait")
    /\ Children(p) = {} \/ Zombies(p) # {}
    /\ state' = IF Children(p) = {} THEN state ELSE [state EXCEPT ![Reaped(p)] = "UNUSED"]
    /\ Goto(p, CASE Now(p).op = "wait" -> Tail(todo[p])
                 [] Reaped(p) = shell -> InitLoop
                 [] Children(p) = {} -> <<Call("exit")>>
                 [] OTHER -> todo[p])
    /\ UNCHANGED <<ftvars, parent, pfd, shell, gvars, typed>>

------------------------------------------------------------------------------
Init ==
    /\ FtInit
    /\ state = [p \in Procs |-> IF p = InitProc THEN "RUN" ELSE "UNUSED"]
    /\ parent = [p \in Procs |-> Null]
    /\ pfd = [p \in Procs |-> <<0, 0>>]
    /\ shell = Null
    /\ prog = [p \in Procs |-> Null] /\ ran = {} /\ failed = FALSE
    /\ \E l \in Loads :
         /\ typed = [lines |-> l.lines, k |-> 1, tree |-> [k \in DOMAIN l.lines |-> Parsecmd(l.lines[k])],
                     ref |-> [k \in DOMAIN l.lines |-> Reference(l.lines[k])]]
         /\ room = l.room /\ size = l.disk
         /\ todo = [p \in Procs |-> IF p # InitProc \/ ~l.on THEN <<>>
                     ELSE <<OpenAs(Console, {"RDWR"}), DupFd(0), DupFd(0)>> \o InitLoop]

Step(p) ==
    \/ CloseCall(p) \/ CloseEnds(p) \/ DupCall(p) \/ OpenCall(p) \/ Mknod(p) \/ OpenSh(p)
    \/ PipeCall(p) \/ UndoCall(p)
    \/ Fork(p) \/ ForkFails(p) \/ Exec(p) \/ ExecSh(p) \/ Getcmd(p) \/ Read(p) \/ Write(p)
    \/ ExitClose(p) \/ Exit(p) \/ Wait(p)

Next == \E p \in Procs : Step(p)

Spec == Init /\ [][Next]_vars

\* A process whose call can go on gets to run.
FairSpec == Spec /\ \A p \in Procs : WF_vars(Step(p))

------------------------------------------------------------------------------
(* Properties *)

\* The parser builds the tree that the grammar gives the line, with the words of the
\* line in it, and rejects the lines that have none: one pass with one character of
\* look-ahead loses nothing, and a NUL put behind a word takes nothing from the next.
ParseExact == typed.tree = typed.ref

\* What a command means: every program in it, with its input and output.
RECURSIVE Means(_, _, _, _), NodeAt(_, _)
Means(c, at, in, out) ==
    CASE c.type = "EXEC" -> IF c.argv = <<>> THEN {} ELSE {[argv |-> c.argv, at |-> at, in |-> in, out |-> out]}
      [] c.type = "REDIR" -> IF c.fd = 0 THEN Means(c.cmd, Append(at, "c"), <<"INODE", c.file>>, out)
                             ELSE Means(c.cmd, Append(at, "c"), in, <<"INODE", c.file>>)
      [] c.type = "PIPE" -> Means(c.left, Append(at, "l"), in, <<"PIPE", at>>)
                            \cup Means(c.right, Append(at, "r"), <<"PIPE", at>>, out)
      [] c.type = "LIST" -> Means(c.left, Append(at, "l"), in, out) \cup Means(c.right, Append(at, "r"), in, out)
      [] c.type = "BACK" -> Means(c.cmd, Append(at, "c"), in, out)
      [] OTHER -> {}
Terminal == <<"DEVICE", Console>>
Meaning(k) ==
    IF NoChild(typed.lines[k], Start(typed.lines[k])) THEN {}
    ELSE Means(typed.ref[k], <<k>>, Terminal, Terminal)

NodeAt(c, path) ==
    IF path = <<>> THEN c
    ELSE NodeAt(CASE Head(path) = "l" -> c.left [] Head(path) = "r" -> c.right [] OTHER -> c.cmd, Tail(path))
TypeAt(path) == NodeAt(typed.ref[Head(path)], Tail(path)).type

\* a comes before b: in an earlier line, or to the left of a ; and not in the background
Parts(a, b) == Min({j \in 1 .. Min({Len(a), Len(b)}) : a[j] # b[j]})
Precedes(a, b) ==
    LET j == Parts(a, b) IN
    /\ IF j = 1 THEN a[1] < b[1] ELSE a[j] = "l" /\ TypeAt(SubSeq(a, 1, j - 1)) = "LIST"
    /\ \A i \in j .. Len(a) : TypeAt(SubSeq(a, 1, i)) # "BACK"

Behind(p, fd) ==
    LET f == FileOf(p, fd) IN <<f.type, IF f.type = "PIPE" THEN pipe[f.obj].label ELSE f.obj>>

\* A program runs as the line says: its input and output are the file, the pipe or
\* the terminal that the line gives it, it has no other descriptor of a pipe (which
\* would keep a reader waiting), and what stands before it, unless it is in the
\* background, has ended (unless a call of the shell failed).
RunsAsWritten ==
    \A p \in Procs : prog[p] # Null =>
      /\ \A fd \in 0 .. 2 : ofile[p][fd] # Null
      /\ [argv |-> prog[p].argv, at |-> prog[p].at, in |-> Behind(p, 0), out |-> Behind(p, 1)]
            \in Meaning(prog[p].at[1])
      /\ FileOf(p, 0).readable /\ FileOf(p, 1).writable /\ Behind(p, 2) = Terminal
      /\ \A fd \in Fds \ 0 .. 2 : ofile[p][fd] = Null
      /\ \A q \in Procs : prog[q] # Null /\ p # q /\ ~failed => ~Precedes(prog[q].at, prog[p].at)

\* The shell is back at its prompt, every process but init and the shell is gone and
\* waited for, nothing but the terminal is open, and every program of the lines ran
\* (unless a call failed).
AllDone ==
    /\ typed.k > Len(typed.lines)
    /\ todo[InitProc] = <<Call("initwait")>> /\ shell # Null /\ todo[shell] = <<Call("getcmd")>>
    /\ \A p \in Procs \ {InitProc, shell} : state[p] = "UNUSED"
    /\ \A f \in Files : file[f].type \in {"NONE", "DEVICE"}
    /\ pipe = [g \in Pipes |-> NoPipe]
    /\ ~failed => ran = {m.at : m \in UNION {Meaning(k) : k \in DOMAIN typed.lines}}

\* Every line ends: no process of a pipeline waits for an end of a pipe that another
\* keeps open, every child is waited for by its parent or by init, and init starts a
\* new shell for one that has exited; also when fork, pipe or open fail on the way.
LinesEnd == <>[](todo[InitProc] = <<>> \/ AllDone)
==============================================================================
