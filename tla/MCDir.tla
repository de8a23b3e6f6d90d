-------------------------------- MODULE MCDir --------------------------------
EXTENDS Dir

M == INSTANCE Mkfs

Perms == Permutations(Procs)

Image == M!Mkfs(<<[name |-> "f", cells |-> <<<<"f", 1>>>>]>>)

\* mkdir name in directory d by a single process
WithDir(v, d, name) ==
    LET i == Min(FreeInums(v))
    IN  CreateBody(Ialloc(v, "dir"), d, v.di[d], i, name, 0).v

\* /f and /a, and the same with /a/b
ImageA == WithDir(Image, ROOTINO, "a")
MCImages == {ImageA, WithDir(ImageA, 3, "b")}

F  == <<"/", "f">>
A  == <<"/", "a">>
AB == <<"/", "a", "b">>

Op(op, path) == [op |-> op, path |-> path]
Link(old, new) == [op |-> "link", old |-> old, new |-> new]
Mknod(path, major) == [op |-> "mknod", path |-> path, major |-> major]
Opn(path, mode) == [op |-> "open", path |-> path, mode |-> mode]
Rd(n, ok) == [op |-> "read", n |-> n, ok |-> ok]
Wr(n, avail) == [op |-> "write", n |-> n, avail |-> avail]
Do(op) == [op |-> op]

LinkF   == <<Link(F, AB)>>
UnlinkF == <<Op("unlink", F)>>

\* calls that change names in /a and /a itself
Names == {LinkF,
    <<Op("mkdir", AB)>>,
    <<Op("unlink", AB), Op("unlink", A)>>,
    <<Op("unlink", A)>>,
    <<Op("chdir", AB), Opn(<<"..">>, {})>>,
    <<Opn(<<"/", "a", "..">>, {"CREATE"})>>}

\* calls that change the contents of /f and take away its name
Data == {LinkF, UnlinkF,
    <<Opn(F, {"TRUNC", "WRONLY"}), Wr(3, 3)>>,
    <<Opn(F, {"RDWR"}), Rd(1, TRUE), Wr(4, 3), Do("exit")>>,
    <<Opn(F, {"RDWR"}), Wr(2, 1), Rd(1, TRUE), Wr(2, 1)>>,
    <<Opn(F, {}), Op("unlink", F), Rd(2, TRUE), Rd(-1, TRUE), Do("close")>>,
    <<Opn(AB, {"CREATE", "WRONLY"}), Wr(6, 6)>>}

\* calls that fail, and devices
Others == {
    <<Link(F, F), Link(A, <<"/", "c">>), Link(F, <<"/", "c", "d">>)>>,
    <<Op("unlink", <<"/", "a", "..">>), Do("fstat"), Opn(<<"/", "f", "x">>, {}), Opn(A, {"WRONLY"})>>,
    <<Op("chdir", A), Op("mkdir", <<"b">>), Op("chdir", F), Op("mkdir", <<"/", "c">>)>>,
    <<Mknod(<<"/", "c">>, 5), Opn(<<"/", "c">>, {"CREATE"}), Mknod(<<"/", "d">>, 1), Opn(<<"/", "d">>, {}),
      Rd(1, TRUE), Do("fstat")>>}

Pairs(S, T) == {w \in [Procs -> S \cup T] : \E p, q \in Procs : p # q /\ w[p] \in S /\ w[q] \in T}

MCScripts == Pairs(Names, Names) \cup Pairs(Data, Data) \cup Pairs(Others, {UnlinkF})
==============================================================================
