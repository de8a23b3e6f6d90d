--------------------------------- MODULE Dir ---------------------------------
(***************************************************************************)
(* Directories and path names (kernel/fs.c) and the system calls on files  *)
(* (kernel/sysfile.c, kernel/file.c) over the inodes of module Inode, with *)
(* several processes and crashes.                                          *)
(*                                                                         *)
(* Each process has a script of calls, chosen in the initial state; a      *)
(* process has one file descriptor for an inode.  A path is a sequence of  *)
(* names, with "/" first when it is absolute.  A step of a call is the     *)
(* code between two points where it locks or drops an inode.  reg holds    *)
(* the local variables: ip and dp are table slots the call has a reference *)
(* to, 0 when it has none.                                                 *)
(***************************************************************************)
EXTENDS Inode

CONSTANTS
    Scripts,     \* for each process the calls it makes, for all initial states
    Images,      \* the disks to start from
    MaxChunk,    \* cells filewrite writes in one transaction
    NDEV

VARIABLES script, reg, cwd, file, up

vars == <<ivars, script, reg, cwd, file, up>>

NoFile == [ip |-> 0, off |-> 0, mode |-> {}, dev |-> FALSE]
NoReg  == [call |-> [op |-> "none"], path |-> <<>>, par |-> FALSE, ip |-> 0, dp |-> 0, name |-> "", stale |-> FALSE]

\* A directory entry that readi reads; directories have no holes.
Cell(v, c, o) == v.blk[Bmap(v, c, o \div BSIZE).b][o % BSIZE]
Offsets(c) == 0 .. c.size - 1
Empty(v, c)   == {o \in Offsets(c) : Cell(v, c, o) = Zero}

\* dirlookup: where name is, and which inode it names.
Found(v, c, name) == {o \in Offsets(c) \ Empty(v, c) : Cell(v, c, o)[1] = name}
Dirlookup(v, c, name) ==
    IF Found(v, c, name) = {} THEN 0 ELSE Cell(v, c, Min(Found(v, c, name)))[2]

NameFree(v, c, name) == Found(v, c, name) = {}

\* dirlink into directory number d with copy c; the iput of a name found undoes its iget.
Dirlink(v, d, c, name, inum) ==
    LET off == Min(Empty(v, c) \cup {c.size})
        Done(w) == [v |-> Iupdate(w.v, d, w.c), c |-> w.c, ok |-> w.tot = 1]
    IN  IF NameFree(v, c, name) THEN Done(Writei(v, c, off, <<<<name, inum>>>>, 1))
        ELSE [v |-> v, c |-> c, ok |-> FALSE]

Isdirempty(v, c) == Offsets(c) \ Empty(v, c) \subseteq {0, 1}

------------------------------------------------------------------------------
(* What create does between locking the new inode and unlocking the parent. *)
(* pi and pc are number and copy of the parent, i is the new inode.         *)

\* History: inode i was entered in directory pi, which is removed or was entered in one.
Astray(stray, pi, pc, i) == IF pc.nlink = 0 \/ pi \in stray THEN stray \cup {i, pi} ELSE stray

\* "." and ".." of a new directory, when dot is the result of the first.
DotDot(dot, i, pi) == IF dot.ok THEN Dirlink(dot.v, i, dot.c, "..", pi) ELSE dot
Dots(v, c, i, pi) ==
    IF c.type = "dir" THEN DotDot(Dirlink(v, i, c, ".", i), i, pi) ELSE [v |-> v, c |-> c, ok |-> TRUE]

\* own is the result of the entries of i, link that of the entry in the parent.
Linked(own, link, pi, pc, i) ==
    LET pc2 == IF own.c.type = "dir" THEN [link.c EXCEPT !.nlink = @ + 1] ELSE link.c
        bad == [own.c EXCEPT !.nlink = 0]
    IN  IF own.ok /\ link.ok
        THEN [v |-> [Iupdate(link.v, pi, pc2) EXCEPT !.stray = Astray(@, pi, pc, i)],
              pc |-> pc2, c |-> own.c, ok |-> TRUE]
        ELSE IF own.ok THEN [v |-> Iupdate(link.v, i, bad), pc |-> link.c, c |-> bad, ok |-> FALSE]
        ELSE [v |-> Iupdate(own.v, i, bad), pc |-> pc, c |-> bad, ok |-> FALSE]
InParent(own, pi, pc, i, name) == Linked(own, Dirlink(own.v, pi, pc, name, i), pi, pc, i)

CreateBody(v, pi, pc, i, name, major) ==
    LET new == [v.di[i] EXCEPT !.major = major, !.nlink = 1]
    IN  InParent(Dots(Iupdate(v, i, new), new, i, pi), pi, pc, i, name)

FreeInums(v) == {i \in Inums : v.di[i].type = "free"}

\* ialloc marks the first free inode.
Ialloc(v, type) ==
    [v EXCEPT !.di[Min(FreeInums(v))] = [FreeDinode EXCEPT !.type = type]]

------------------------------------------------------------------------------
(* Path names *)

\* namex from slot s on: the steps to take, and what it returns if none is left.
NamexSteps(s, path, par) ==
    IF path # <<>> THEN <<<<"ilock", s>>, <<"namex", s>>>>
    ELSE IF par THEN <<<<"iput", s>>>> ELSE <<>>
NamexIp(s, path, par) == IF path = <<>> /\ par THEN 0 ELSE s

\* namex is called with table t, and then comes after.
Namex(p, t, r, path, par, after) ==
    LET abs  == path # <<>> /\ path[1] = "/"
        rest == IF abs THEN Tail(path) ELSE path
        s    == IF abs THEN IgetSlot(t, ROOTINO) ELSE cwd[p]
    IN
    /\ itable' = IF abs THEN Iget(t, ROOTINO) ELSE [t EXCEPT ![s].ref = @ + 1]
    /\ Goes(p, NamexSteps(s, rest, par) \o after)
    /\ reg' = [reg EXCEPT ![p] = [r EXCEPT !.path = rest, !.par = par, !.ip = NamexIp(s, rest, par)]]

\* One path element, with the directory locked.
NamexElem(p) ==
    LET s    == Arg(p)
        c    == itable[s].d
        name == Head(reg[p].path)
        rest == Tail(reg[p].path)
        i    == Dirlookup(view, c, name)
        t    == Unlocked(itable, s)
        last == reg[p].par /\ rest = <<>>
        next == IgetSlot(t, i)
    IN
    /\ At(p, "namex")
    /\ UNCHANGED <<view, disk, active>>
    /\ \/ /\ c.type = "dir" /\ last
          /\ itable' = t
          /\ Goes(p, <<>>)
          /\ reg' = [reg EXCEPT ![p].name = name]
       \/ /\ c.type = "dir" => ~last /\ i = 0
          /\ itable' = t
          /\ Goes(p, <<<<"iput", s>>>>)
          /\ reg' = [reg EXCEPT ![p].ip = 0]
       \/ /\ c.type = "dir" /\ ~last /\ i # 0
          /\ itable' = Iget(t, i)
          /\ Goes(p, <<<<"iput", s>>>> \o NamexSteps(next, rest, reg[p].par))
          /\ reg' = [reg EXCEPT ![p].path = rest, ![p].ip = NamexIp(next, rest, reg[p].par),
                                ![p].stale = @ \/ (name = ".." /\ c.nlink = 0)]
    /\ UNCHANGED <<script, cwd, file, up>>

------------------------------------------------------------------------------
(* Calls *)

Enter(p) == active' = active \cup {p}
Leave    == <<<<"end_op", 0>>>>
Drop(s)  == <<<<"begin_op", 0>>, <<"iput", s>>, <<"end_op", 0>>>>
Stat(s)  == <<<<"ilock", s>>, <<"iunlock", s>>>>
Chunk(s, k) == <<<<"begin_op", 0>>, <<"ilock", s>>, <<"write", k>>>>

\* The way of calls with a path, begin_op and namex, and that of calls on the file.
By(p, r, path, par, op) ==
    /\ Enter(p)
    /\ Namex(p, itable, r, path, par, <<<<op, 0>>>>)
    /\ UNCHANGED file
OnFile(p, r, ok, steps) ==
    /\ Goes(p, IF file[p].ip # 0 /\ ok THEN steps ELSE <<>>)
    /\ reg' = [reg EXCEPT ![p] = r]
    /\ UNCHANGED <<itable, active>>

\* The next call of the script, up to its first lock.
Call(p) ==
    LET c == Head(script[p])
        r == [NoReg EXCEPT !.call = c]
        s == file[p].ip
    IN
    /\ up /\ script[p] # <<>> /\ todo[p] = <<>>
    /\ script' = [script EXCEPT ![p] = Tail(@)]
    /\ \/ c.op = "link" /\ By(p, r, c.old, FALSE, "link1")
       \/ c.op = "unlink" /\ By(p, r, c.path, TRUE, "unlink1")
       \/ c.op = "open" /\ "CREATE" \notin c.mode /\ By(p, r, c.path, FALSE, "open1")
       \/ c.op = "open" /\ "CREATE" \in c.mode /\ By(p, r, c.path, TRUE, "create1")
       \/ c.op \in {"mkdir", "mknod"} /\ By(p, r, c.path, TRUE, "create1")
       \/ c.op = "chdir" /\ By(p, r, c.path, FALSE, "chdir1")
       \/ c.op = "fstat" /\ OnFile(p, r, TRUE, Stat(s)) /\ UNCHANGED file
       \/ /\ c.op = "read"
          /\ OnFile(p, r, "WRONLY" \notin file[p].mode /\ ~file[p].dev, <<<<"ilock", s>>, <<"read", 0>>>>)
          /\ UNCHANGED file
       \/ /\ c.op = "write"
          /\ OnFile(p, r, file[p].mode \cap {"WRONLY", "RDWR"} # {} /\ ~file[p].dev /\ c.n > 0, Chunk(s, 0))
          /\ UNCHANGED file
       \/ /\ c.op = "close"
          /\ OnFile(p, r, TRUE, Drop(s))
          /\ file' = [file EXCEPT ![p] = NoFile]
       \/ /\ c.op = "exit"
          /\ Goes(p, (IF s = 0 THEN <<>> ELSE Drop(s)) \o Drop(cwd[p]))
          /\ reg' = [reg EXCEPT ![p] = r]
          /\ file' = [file EXCEPT ![p] = NoFile]
          /\ UNCHANGED <<itable, active>>
    /\ cwd' = IF c.op = "exit" THEN [cwd EXCEPT ![p] = 0] ELSE cwd
    /\ UNCHANGED <<view, disk, up>>

\* After a lookup: nothing found ends the call, otherwise the inode is locked for op.
Looked(p, at, op) ==
    LET s == reg[p].ip IN
    /\ At(p, at)
    /\ Goes(p, IF s = 0 THEN Leave ELSE <<<<"ilock", s>>, <<op, 0>>>>)
    /\ UNCHANGED <<view, disk, active, itable, reg, script, cwd, file, up>>

\* Unlock and drop reg's ip, with table t and disk v, then take the steps of more.
Finish(p, t, v, more) ==
    LET s == reg[p].ip IN
    /\ itable' = Unlocked(t, s)
    /\ view' = v
    /\ Goes(p, <<<<"iput", s>>>> \o more)
    /\ reg' = [reg EXCEPT ![p].ip = 0]
    /\ UNCHANGED <<disk, active, script, cwd, file, up>>

Stay == UNCHANGED <<disk, active, script, cwd, file, up>>

\* iunlockput of slot s in the end
Put(s) == <<<<"iunlock", s>>, <<"iput", s>>>>

------------------------------------------------------------------------------
(* sys_link *)

Link2(p) ==
    LET s == reg[p].ip
        c == [itable[s].d EXCEPT !.nlink = @ + 1]
        t == Unlocked([itable EXCEPT ![s].d = c], s)
    IN
    /\ At(p, "link2")
    /\ IF c.type = "dir" THEN Finish(p, itable, view, Leave)
       ELSE /\ view' = Iupdate(view, itable[s].inum, c)
            /\ Namex(p, t, [reg[p] EXCEPT !.dp = s], reg[p].call.new, TRUE, <<<<"link3", 0>>>>)
            /\ Stay

\* reg's dp is the inode to link, ip the directory.
Link3(p) ==
    LET s == reg[p].ip IN
    /\ At(p, "link3")
    /\ Goes(p, IF s = 0 THEN <<<<"ilock", reg[p].dp>>, <<"linkbad", 0>>>>
               ELSE <<<<"ilock", s>>, <<"link4", 0>>>>)
    /\ UNCHANGED <<view, itable, reg>> /\ Stay

Link4(p) ==
    LET s == reg[p].ip
        o == reg[p].dp
        l == Dirlink(view, itable[s].inum, itable[s].d, reg[p].name, itable[o].inum)
        v == IF l.ok THEN [l.v EXCEPT !.stray = Astray(@, itable[s].inum, itable[s].d, itable[o].inum)] ELSE l.v
    IN
    /\ At(p, "link4")
    /\ itable' = Unlocked([itable EXCEPT ![s].d = l.c], s)
    /\ view' = v
    /\ reg' = [reg EXCEPT ![p].ip = 0, ![p].dp = IF l.ok THEN 0 ELSE o]
    /\ Goes(p, <<<<"iput", s>>>> \o IF l.ok THEN <<<<"iput", o>>>> \o Leave
                                    ELSE <<<<"ilock", o>>, <<"linkbad", 0>>>>)
    /\ Stay

Linkbad(p) ==
    LET o == reg[p].dp
        c == [itable[o].d EXCEPT !.nlink = @ - 1]
    IN
    /\ At(p, "linkbad")
    /\ itable' = Unlocked([itable EXCEPT ![o].d = c], o)
    /\ view' = Iupdate(view, itable[o].inum, c)
    /\ reg' = [reg EXCEPT ![p].dp = 0]
    /\ Goes(p, <<<<"iput", o>>>> \o Leave)
    /\ Stay

------------------------------------------------------------------------------
(* sys_unlink: the directory is locked before the inode it names. *)

Unlink2(p) ==
    LET s == reg[p].ip
        i == Dirlookup(view, itable[s].d, reg[p].name)
        n == IgetSlot(itable, i)
    IN
    /\ At(p, "unlink2")
    /\ IF reg[p].name \in {".", ".."} \/ i = 0 THEN Finish(p, itable, view, Leave)
       ELSE /\ itable' = Iget(itable, i)
            /\ reg' = [reg EXCEPT ![p].dp = s, ![p].ip = n]
            /\ Goes(p, <<<<"ilock", n>>, <<"unlink3", 0>>>>)
            /\ UNCHANGED view /\ Stay

\* Mutant: a directory need not be empty.
UnlinkableAny(v, c) == TRUE

Unlinkable(v, c) == c.type = "dir" => Isdirempty(v, c)

Unlink3(p) ==
    LET n == reg[p].ip
        s == reg[p].dp
        c == itable[n].d
        o == Min(Found(view, itable[s].d, reg[p].name))
        w == Writei(view, itable[s].d, o, <<Zero>>, 1)
        d == IF c.type = "dir" THEN [w.c EXCEPT !.nlink = @ - 1] ELSE w.c
    IN
    /\ At(p, "unlink3")
    /\ IF c.nlink < 1 THEN Panic(p, "unlink: nlink < 1") /\ UNCHANGED <<reg, script, cwd, file, up>>
       ELSE IF ~ Unlinkable(view, c)
       THEN /\ itable' = Unlocked(itable, n)
            /\ reg' = [reg EXCEPT ![p].ip = 0, ![p].dp = 0]
            /\ Goes(p, <<<<"iput", n>>>> \o Put(s) \o Leave)
            /\ UNCHANGED view /\ Stay
       ELSE /\ itable' = Unlocked([itable EXCEPT ![s].d = d], s)
            /\ view' = Iupdate(w.v, itable[s].inum, d)
            /\ reg' = [reg EXCEPT ![p].dp = 0]
            /\ Goes(p, <<<<"iput", s>>, <<"unlink4", 0>>>>)
            /\ Stay

Unlink4(p) ==
    LET s == reg[p].ip
        c == [itable[s].d EXCEPT !.nlink = @ - 1]
    IN
    /\ At(p, "unlink4")
    /\ Finish(p, [itable EXCEPT ![s].d = c], Iupdate(view, itable[s].inum, c), Leave)

------------------------------------------------------------------------------
(* create, for open, mkdir and mknod *)

NewType(c) == CASE c.op = "open" -> "file" [] c.op = "mkdir" -> "dir" [] c.op = "mknod" -> "dev"
NewMajor(c) == IF c.op = "mknod" THEN c.major ELSE 0

\* Mutant: the existing inode is locked before its directory is let go.
ExistingLocked(s, n) == <<<<"ilock", n>>>> \o Put(s) \o <<<<"exists", 0>>>>

\* The steps on finding the name in slot n of directory slot s.
Existing(s, n) == Put(s) \o <<<<"ilock", n>>, <<"exists", 0>>>>

Create2(p) ==
    LET s == reg[p].ip
        i == Dirlookup(view, itable[s].d, reg[p].name)
        new == IF i # 0 THEN i ELSE Min(FreeInums(view))
        n == IgetSlot(itable, new)
    IN
    /\ At(p, "create2")
    /\ IF i = 0 /\ FreeInums(view) = {} THEN Finish(p, itable, view, Leave)
       ELSE /\ itable' = Iget(itable, new)
            /\ view' = IF i # 0 THEN view ELSE Ialloc(view, NewType(reg[p].call))
            /\ reg' = [reg EXCEPT ![p].ip = n, ![p].dp = IF i # 0 THEN 0 ELSE s]
            /\ Goes(p, IF i # 0 THEN Existing(s, n) ELSE <<<<"ilock", n>>, <<"create3", 0>>>>)
            /\ Stay

Exists(p) ==
    /\ At(p, "exists")
    /\ IF reg[p].call.op = "open" /\ itable[reg[p].ip].d.type \in {"file", "dev"}
       THEN Goes(p, <<<<"open3", 0>>>>) /\ UNCHANGED <<view, itable, reg>> /\ Stay
       ELSE Finish(p, itable, view, Leave)

Create3(p) ==
    LET s == reg[p].dp
        n == reg[p].ip
        b == CreateBody(view, itable[s].inum, itable[s].d, itable[n].inum, reg[p].name,
                        NewMajor(reg[p].call))
        t == [itable EXCEPT ![s].d = b.pc, ![n].d = b.c]
    IN
    /\ At(p, "create3")
    /\ view' = b.v
    /\ IF b.ok
       THEN /\ itable' = Unlocked(t, s)
            /\ reg' = [reg EXCEPT ![p].dp = 0]
            /\ Goes(p, <<<<"iput", s>>, <<IF reg[p].call.op = "open" THEN "open3" ELSE "made", 0>>>>)
       ELSE /\ itable' = Unlocked(t, n)
            /\ reg' = [reg EXCEPT ![p].dp = 0, ![p].ip = 0]
            /\ Goes(p, <<<<"iput", n>>>> \o Put(s) \o Leave)
    /\ Stay

\* The end of sys_mkdir and sys_mknod
Made(p) == At(p, "made") /\ Finish(p, itable, view, Leave)

------------------------------------------------------------------------------
(* sys_open, with the inode locked, and sys_chdir *)

Open2(p) ==
    /\ At(p, "open2")
    /\ IF itable[reg[p].ip].d.type = "dir" /\ reg[p].call.mode # {}
       THEN Finish(p, itable, view, Leave)
       ELSE Goes(p, <<<<"open3", 0>>>>) /\ UNCHANGED <<view, itable, reg>> /\ Stay

Open3(p) ==
    LET s == reg[p].ip
        c == itable[s].d
        r == IF "TRUNC" \in reg[p].call.mode /\ c.type = "file" THEN Itrunc(view, c) ELSE [v |-> view, c |-> c]
        i == itable[s].inum
    IN
    /\ At(p, "open3")
    /\ IF (c.type = "dev" /\ c.major \notin 0 .. NDEV - 1) \/ file[p].ip # 0
       THEN Finish(p, itable, view, Leave)
       ELSE /\ itable' = Unlocked([itable EXCEPT ![s].d = r.c], s)
            /\ view' = [Iupdate(r.v, i, r.c) EXCEPT !.text[i] = IF r.c.size = 0 THEN <<>> ELSE @]
            /\ file' = [file EXCEPT ![p] = [ip |-> s, off |-> 0, mode |-> reg[p].call.mode,
                                            dev |-> c.type = "dev"]]
            /\ reg' = [reg EXCEPT ![p].ip = 0]
            /\ Goes(p, Leave)
            /\ UNCHANGED <<disk, active, script, cwd, up>>

Chdir2(p) ==
    LET s == reg[p].ip IN
    /\ At(p, "chdir2")
    /\ IF itable[s].d.type # "dir" THEN Finish(p, itable, view, Leave)
       ELSE /\ itable' = Unlocked(itable, s)
            /\ cwd' = [cwd EXCEPT ![p] = 0]
            /\ Goes(p, <<<<"iput", cwd[p]>>>> \o Leave \o <<<<"setcwd", s>>>>)
            /\ UNCHANGED <<view, disk, active, reg, script, file, up>>

Setcwd(p) ==
    /\ At(p, "setcwd")
    /\ cwd' = [cwd EXCEPT ![p] = Arg(p)]
    /\ reg' = [reg EXCEPT ![p].ip = 0]
    /\ Goes(p, <<>>)
    /\ UNCHANGED <<view, disk, active, itable, script, file, up>>

------------------------------------------------------------------------------
(* fileread and one transaction of filewrite, with the inode locked *)

Read(p) ==
    LET f == file[p]
        c == reg[p].call
        r == Readi(view, itable[f.ip].d, f.off, c.n % Word)
    IN
    /\ At(p, "read")
    /\ view' = r.v
    /\ itable' = Unlocked([itable EXCEPT ![f.ip].d = r.c], f.ip)
    /\ file' = [file EXCEPT ![p].off = IF c.ok THEN @ + Len(r.data) ELSE @]
    /\ Goes(p, <<>>)
    /\ UNCHANGED <<disk, active, reg, script, cwd, up>>

\* What the cells of a file may hold after tot cells of vals were written at off, and
\* torn more copied into a buffer that was not logged.
Overlay(text, off, vals, tot, torn) ==
    [k \in 1 .. SizeAfter(Len(text), off + tot) |->
        CASE k \in off + 1 .. off + tot -> {vals[k - off]}
          [] k \in off + tot + 1 .. off + tot + torn -> text[k] \cup {vals[k - off]}
          [] OTHER -> text[k]]

Write(p) ==
    LET f    == file[p]
        c    == reg[p].call
        k    == Arg(p)
        n1   == IF c.n - k > MaxChunk THEN MaxChunk ELSE c.n - k
        vals == [j \in 1 .. n1 |-> <<p, c.n, f.off + j>>]
        i    == itable[f.ip].inum
        w    == Writei(view, itable[f.ip].d, f.off, vals, c.avail - k)
    IN
    /\ At(p, "write")
    /\ view' = IF w.tot < 0 THEN view
               ELSE [Iupdate(w.v, i, w.c) EXCEPT !.text[i] = Overlay(@, f.off, vals, w.tot, w.torn)]
    /\ itable' = Unlocked([itable EXCEPT ![f.ip].d = w.c], f.ip)
    /\ file' = [file EXCEPT ![p].off = IF w.tot > 0 THEN @ + w.tot ELSE @]
    /\ Goes(p, Leave \o IF w.tot = n1 /\ k + n1 < c.n THEN Chunk(f.ip, k + n1) ELSE <<>>)
    /\ UNCHANGED <<disk, active, reg, script, cwd, up>>

------------------------------------------------------------------------------
CallStep(p) ==
    \/ Looked(p, "link1", "link2") \/ Link2(p) \/ Link3(p) \/ Link4(p) \/ Linkbad(p)
    \/ Looked(p, "unlink1", "unlink2") \/ Unlink2(p) \/ Unlink3(p) \/ Unlink4(p)
    \/ Looked(p, "create1", "create2") \/ Create2(p) \/ Exists(p) \/ Create3(p) \/ Made(p)
    \/ Looked(p, "open1", "open2") \/ Open2(p) \/ Open3(p)
    \/ Looked(p, "chdir1", "chdir2") \/ Chdir2(p) \/ Setcwd(p)
    \/ Read(p) \/ Write(p)

\* Power is lost.  The next boot recovers the log and its first process p runs fsinit.
Crash(p) ==
    /\ view' = disk
    /\ active' = {}
    /\ itable' = [s \in Slots |-> FreeSlot]
    /\ todo' = [q \in Procs |-> IF q = p THEN <<<<"ireclaim", 1>>>> ELSE <<>>]
    /\ script' = [q \in Procs |-> <<>>]
    /\ reg' = [q \in Procs |-> NoReg]
    /\ cwd' = [q \in Procs |-> 0]
    /\ file' = [q \in Procs |-> NoFile]
    /\ up' = FALSE
    /\ UNCHANGED disk

Panicked == \E p \in Procs : At(p, "panic")

Init ==
    /\ view \in Images
    /\ disk = view
    /\ active = {}
    /\ itable = [s \in Slots |-> IF s = 1 THEN [FreeSlot EXCEPT !.inum = ROOTINO, !.ref = Cardinality(Procs)]
                                 ELSE FreeSlot]
    /\ todo = [p \in Procs |-> <<>>]
    /\ script \in Scripts
    /\ reg = [p \in Procs |-> NoReg]
    /\ cwd = [p \in Procs |-> 1]
    /\ file = [p \in Procs |-> NoFile]
    /\ up = TRUE

\* p is between two points where what it does and what others do may not commute: it has
\* got a lock and not yet come to the next one, and nobody needs to be scheduled before.
Mid(p) == todo[p] # <<>> /\ Head(todo[p])[1] \notin {"ilock", "iput", "ifree", "idrop", "end_op", "panic"}

Next ==
    \/ \E p \in Procs :
          /\ ~Panicked /\ \A q \in Procs \ {p} : ~Mid(q)
          /\ \/ Call(p) \/ NamexElem(p) \/ CallStep(p)
             \/ (InodeStep(p) \/ Ireclaim(p)) /\ UNCHANGED <<script, reg, cwd, file, up>>
    \/ \E b \in Blocks : ~Panicked /\ Evict(b) /\ UNCHANGED <<script, reg, cwd, file, up>>
    \/ \E p \in Procs : Crash(p)

Spec == Init /\ [][Next]_vars

------------------------------------------------------------------------------
(* Properties *)

Copy(s)  == itable[s].d
SlotOf(i) == {s \in Slots : itable[s].ref > 0 /\ itable[s].inum = i}
\* The inode as its users see it.
Inode(i) == IF \E s \in SlotOf(i) : itable[s].valid THEN Copy(CHOOSE s \in SlotOf(i) : itable[s].valid)
            ELSE view.di[i]

Holds(p, s) ==
    Cardinality({k \in DOMAIN todo[p] : todo[p][k] \in {<<"iput", s>>, <<"idrop", s>>}})
  + (IF reg[p].ip = s THEN 1 ELSE 0) + (IF reg[p].dp = s THEN 1 ELSE 0)
  + (IF cwd[p] = s THEN 1 ELSE 0) + (IF file[p].ip = s THEN 1 ELSE 0)

TypeOK ==
    /\ DOMAIN view.di = Inums /\ view.used \subseteq Blocks /\ active \subseteq Procs
    /\ \A s \in Slots : itable[s].lock \in Procs \cup {None} /\ itable[s].ref \in Nat
    /\ \A i \in Inums : view.di[i].nlink \in Nat /\ view.di[i].size \in 0 .. MAXFILE * BSIZE

\* ref counts the pointers to an entry, an inode has one entry, and an entry nobody
\* has locked agrees with the disk.
TableExact ==
    /\ \A s \in Slots : itable[s].ref = MapThenSumSet(LAMBDA p : Holds(p, s), Procs)
    /\ \A i \in Inums : Cardinality(SlotOf(i)) <= 1
    /\ \A s \in Slots : itable[s].valid /\ itable[s].lock = None => Copy(s) = view.di[itable[s].inum]

\* The bitmap marks the blocks of the inodes and no others, and no block is in two places.
BlocksExact ==
    /\ view.used = UNION {BlocksOf(view, Inode(i)) : i \in Inums}
    /\ \A i, j \in Inums : i # j => BlocksOf(view, Inode(i)) \cap BlocksOf(view, Inode(j)) = {}

\* What readi returns of a regular file is what was last written to each of its cells,
\* through direct and indirect blocks, short writes, truncation and disk full.  A write
\* that failed within a block may also have left its bytes there, in the cells it got to
\* and no others: they may go with the buffer, or get to disk with a later write.
ContentIntact ==
    \A i \in Inums : Inode(i).type = "file" =>
       LET d == Readi(view, Inode(i), 0, Inode(i).size).data
       IN  Len(d) = Len(view.text[i]) /\ \A k \in DOMAIN d : d[k] \in view.text[i][k]

\* No call panics ("ilock: no type", "unlink: nlink < 1", "freeing free block"), unless it
\* followed ".." out of a removed directory, whose parent may be gone too.
NoPanic == \A p \in Procs : At(p, "panic") => reg[p].stale

\* What ilock, iput, itrunc and bmap keep between them, whoever runs: reference counts,
\* bitmap and contents are exact, and no call meets a state it panics on.
FsInv == TypeOK /\ TableExact /\ BlocksExact /\ ContentIntact /\ NoPanic

\* The entries of directory j, and the inodes one can get to from the root.
Entries(v, j) == {e \in {Cell(v, v.di[j], o) : o \in 0 .. v.di[j].size - 1} : e # Zero}
Reachable(v) ==
    LET From[k \in Nat] ==
            IF k = 0 THEN {ROOTINO}
            ELSE LET r == From[k - 1]
                 IN  r \cup {e[2] : e \in UNION {Entries(v, j) : j \in {i \in r : v.di[i].type = "dir"}}}
    IN  From[NINODES]

\* The entries in the directories among inodes r that name inode i, "." excepted.
Links(v, r, i) ==
    {<<j, e>> \in UNION {{j} \X Entries(v, j) : j \in {k \in r : v.di[k].type = "dir"}} :
        e[1] # "." /\ e[2] = i}

\* After a crash at any time the link count of every inode that has a name is the number
\* of its names, no name is left of a free inode, and an inode without names has no links
\* and so will be freed.  Only what was put into a directory that had just been removed
\* (create and sys_link do not look at dp->nlink) may have more links than names.
LinksExact ==
    LET r == Reachable(disk)
    IN  \A i \in Inums :
           /\ i \in r => /\ disk.di[i].type # "free"
                         /\ \/ disk.di[i].nlink = Cardinality(Links(disk, r, i))
                            \/ disk.di[i].nlink > Cardinality(Links(disk, r, i)) /\ i \in disk.stray
           /\ i \notin r => disk.di[i].nlink = 0 \/ i \in disk.stray

Waits(p) ==
    \/ At(p, "ilock") /\ itable[Arg(p)].lock # None
    \/ At(p, "iput") /\ LastUse(Arg(p)) /\ itable[Arg(p)].lock # None

\* The calls cannot wait for each other's inodes in a circle, and iput, which holds a
\* spin lock when it locks the inode, never waits at all.
NeverStuck ==
    /\ (\E p \in Procs : Waits(p)) => \E p \in Procs : todo[p] # <<>> /\ ~Waits(p)
    /\ \A p \in Procs : Waits(p) => At(p, "ilock")

\* Once a boot is through with ireclaim, no inode without links is left, whatever
\* was open or half removed when power was lost, also in an earlier ireclaim.
OrphansReclaimed ==
    ~up /\ (\A p \in Procs : todo[p] = <<>>) => Orphans(view) = {} /\ disk = view
==============================================================================
