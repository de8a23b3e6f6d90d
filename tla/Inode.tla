-------------------------------- MODULE Inode --------------------------------
(***************************************************************************)
(* kernel/fs.c below the directories: the block bitmap, on-disk inodes,    *)
(* file contents with direct and indirect blocks, the table of inodes in   *)
(* memory with its sleep locks, and ireclaim after a crash.                *)
(*                                                                         *)
(* The disk under it is what the log promises (AtomicDisk): calls change   *)
(* view, which becomes durable when the last open call ends; but bytes put *)
(* into a buffer that is not given to log_write are lost when the buffer   *)
(* is recycled (under has the contents beneath them).  Memory and disk are *)
(* counted in cells: a cell holds a directory entry, a unit of data or a   *)
(* block address, and is Zero when cleared.  A process has a list todo of  *)
(* the steps it still has to take, the next one first; its inode locks     *)
(* keep others out of what it does in one step.                            *)
(***************************************************************************)
EXTENDS Integers, FiniteSets, SequencesExt

CONSTANTS
    Procs, None, Zero,
    NINODES,           \* sb.ninodes: inode numbers are below it
    NINODE,            \* entries of the table in memory
    FirstBlock, FSSIZE,    \* data blocks are FirstBlock .. FSSIZE - 1
    BSIZE,             \* cells of a block, and so also addresses (NINDIRECT)
    NDIRECT,
    Word               \* offsets and counts are unsigned modulo Word (2^32)

ROOTINO == 1
MAXFILE == NDIRECT + BSIZE
Inums   == 1 .. NINODES - 1
Blocks  == FirstBlock .. FSSIZE - 1
Slots   == 1 .. NINODE

ASSUME InodeAssumption ==
    /\ None \notin Procs
    /\ NINODES \in Nat /\ NINODES > ROOTINO
    /\ FirstBlock \in Nat \ {0} /\ FSSIZE \in Nat
    /\ NINODE \in Nat \ {0} /\ BSIZE \in Nat \ {0} /\ NDIRECT \in Nat \ {0}
    /\ Word \in Nat /\ Word > MAXFILE * BSIZE

VARIABLES
    view,       \* the disk as calls see it: di, used, blk; logged, the blocks given to log_write
                \* since the last commit; under, what is beneath bytes that are not logged (or
                \* Zero); and the history text (what each cell of a file may hold) and stray
    disk,       \* what survives a crash
    active,     \* the processes between begin_op and end_op
    itable,     \* itable.inode
    todo        \* the steps each process has to take

ivars == <<view, disk, active, itable, todo>>

NoAddrs    == [k \in 0 .. NDIRECT |-> Zero]
ZeroBlock  == [k \in 0 .. BSIZE - 1 |-> Zero]
FreeDinode == [type |-> "free", major |-> 0, nlink |-> 0, size |-> 0, addrs |-> NoAddrs]
NoUnder    == [b \in Blocks |-> Zero]
FreeSlot   == [inum |-> 0, ref |-> 0, valid |-> FALSE, lock |-> None, d |-> FreeDinode]

------------------------------------------------------------------------------
(* Blocks and contents, on a disk v and an inode's copy c *)

\* Cell o of block b becomes x, with log_write of the block and without it
Write1(v, b, o, x) == [v EXCEPT !.blk[b][o] = x, !.under[b] = Zero, !.logged = @ \cup {b}]
Scribble(v, b, o, x) ==
    [v EXCEPT !.blk[b][o] = x, !.under[b] = IF @ # Zero \/ b \in v.logged THEN @ ELSE v.blk[b]]

\* The buffer of b is recycled, and read again from the disk.
Recycled(v, b) == [v EXCEPT !.blk[b] = v.under[b], !.under[b] = Zero]

\* What a commit puts on the disk
Committed(v) ==
    [v EXCEPT !.blk = [b \in Blocks |-> IF v.under[b] = Zero THEN v.blk[b] ELSE v.under[b]],
              !.under = NoUnder, !.logged = {}]

Balloc(v) ==
    LET b == Min(Blocks \ v.used)
    IN  IF Blocks \subseteq v.used THEN [v |-> v, b |-> Zero]
        ELSE [v |-> [v EXCEPT !.used = @ \cup {b}, !.blk[b] = ZeroBlock, !.under[b] = Zero, !.logged = @ \cup {b}],
              b |-> b]

\* Entry k of the inode's addresses, allocated if there is none.
Addr(v, c, k) ==
    LET n == Balloc(v)
    IN  IF c.addrs[k] # Zero THEN [v |-> v, c |-> c, b |-> c.addrs[k]]
        ELSE [v |-> n.v, c |-> [c EXCEPT !.addrs[k] = n.b], b |-> n.b]

\* Entry k of the indirect block, whose address is a.b.
Indirect(a, k) ==
    LET n == Balloc(a.v)
    IN  IF a.b = Zero THEN a
        ELSE IF a.v.blk[a.b][k] # Zero THEN [a EXCEPT !.b = a.v.blk[a.b][k]]
        ELSE [v |-> IF n.b = Zero THEN n.v ELSE Write1(n.v, a.b, k, n.b), c |-> a.c, b |-> n.b]

Bmap(v, c, bn) ==
    IF bn < NDIRECT THEN Addr(v, c, bn) ELSE Indirect(Addr(v, c, NDIRECT), bn - NDIRECT)

\* The blocks of an inode, its indirect block included.
BlocksOf(v, c) ==
    LET ind == c.addrs[NDIRECT]
    IN  (Range(c.addrs) \cup IF ind = Zero THEN {} ELSE Range(v.blk[ind])) \ {Zero}

\* Mutant: the indirect block itself is not freed.
ItruncKeepIndirect(v, c) ==
    [v |-> [v EXCEPT !.used = @ \ (BlocksOf(v, c) \ {c.addrs[NDIRECT]})],
     c |-> [c EXCEPT !.addrs = NoAddrs, !.size = 0]]

\* itrunc but for its iupdate
Itrunc(v, c) ==
    [v |-> [v EXCEPT !.used = @ \ BlocksOf(v, c)],
     c |-> [c EXCEPT !.addrs = NoAddrs, !.size = 0]]

\* bfree panics ("freeing free block").
ItruncPanics(v, c) == ~ BlocksOf(v, c) \subseteq v.used

\* Cell o of the block m that bmap returned is read.
ReadCell(acc, m, o) ==
    IF m.b = Zero THEN [acc EXCEPT !.v = m.v, !.c = m.c, !.stop = TRUE]
    ELSE [acc EXCEPT !.v = m.v, !.c = m.c, !.data = Append(@, m.v.blk[m.b][o % BSIZE])]

\* What readi returns, and what bmap did meanwhile.
Readi(v, c, off, n) ==
    LET last == Min({off + n, c.size})
        Cell(acc, o) == IF acc.stop THEN acc ELSE ReadCell(acc, Bmap(acc.v, acc.c, o \div BSIZE), o)
        start == [v |-> v, c |-> c, stop |-> FALSE, data |-> <<>>]
    IN  IF off > c.size \/ (off + n) % Word < off THEN start
        ELSE FoldLeft(Cell, start, [k \in 1 .. last - off |-> off + k - 1])

SizeAfter(size, end) == IF end > size THEN end ELSE size

\* Cell o of the block m that bmap returned becomes x, if there is a block and x can be
\* copied; the block is logged, and its cells count, if all that goes into it fits.
WriteCell(acc, m, o, x, copied, fits) ==
    IF m.b = Zero \/ ~copied THEN [acc EXCEPT !.v = m.v, !.c = m.c]
    ELSE IF fits THEN [acc EXCEPT !.v = Write1(m.v, m.b, o % BSIZE, x), !.c = m.c, !.tot = @ + 1]
    ELSE [acc EXCEPT !.v = Scribble(m.v, m.b, o % BSIZE, x), !.c = m.c, !.torn = @ + 1]
Grown(end, off) == [end EXCEPT !.c.size = SizeAfter(@, off + end.tot)]

\* writei of vals at off but for its iupdate.  The first ok cells of the source can be
\* copied.  The result has the cells written, tot, and the cells of the next block that
\* were copied into its buffer before the copy failed, torn.
Writei(v, c, off, vals, ok) ==
    LET n == Len(vals)
        ChunkEnd(k) == Min({BSIZE * ((off + k) \div BSIZE + 1) - off, n})
        Cell(acc, k) ==
            IF acc.tot + acc.torn < k THEN acc
            ELSE WriteCell(acc, Bmap(acc.v, acc.c, (off + k) \div BSIZE), off + k, vals[k + 1], k < ok, ChunkEnd(k) <= ok)
    IN  IF off > c.size \/ (off + n) % Word < off \/ off + n > MAXFILE * BSIZE
        THEN [v |-> v, c |-> c, tot |-> -1, torn |-> 0]
        ELSE Grown(FoldLeft(Cell, [v |-> v, c |-> c, tot |-> 0, torn |-> 0], [k \in 1 .. n |-> k - 1]), off)

\* iupdate(ip), with ip's inode number and copy
Iupdate(v, inum, c) == [v EXCEPT !.di[inum] = c]

------------------------------------------------------------------------------
(* The inode table *)

\* The slot iget returns; no slot is free in "iget: no inodes".
IgetSlot(t, inum) ==
    LET hit == {s \in Slots : t[s].ref > 0 /\ t[s].inum = inum}
    IN  Min(IF hit # {} THEN hit ELSE {s \in Slots : t[s].ref = 0})

Iget(t, inum) ==
    LET s == IgetSlot(t, inum)
    IN  IF t[s].ref > 0 THEN [t EXCEPT ![s].ref = @ + 1]
        ELSE [t EXCEPT ![s] = [FreeSlot EXCEPT !.inum = inum, !.ref = 1]]

\* An entry whose count drops to zero keeps nothing iget would use.
Dropped(t, s) == IF t[s].ref = 1 THEN [t EXCEPT ![s] = FreeSlot] ELSE [t EXCEPT ![s].ref = @ - 1]

Unlocked(t, s) == [t EXCEPT ![s].lock = None]

\* p takes the next step op, which puts the steps of more before the rest.
At(p, op)     == todo[p] # <<>> /\ Head(todo[p])[1] = op
Arg(p)        == Head(todo[p])[2]
Goes(p, more) == todo' = [todo EXCEPT ![p] = more \o IF @ = <<>> THEN <<>> ELSE Tail(@)]
Panic(p, why) == /\ todo' = [todo EXCEPT ![p] = <<<<"panic", why>>>>]
                 /\ UNCHANGED <<view, disk, active, itable>>

IlockPanics(s, c) == itable[s].ref < 1 \/ c.type = "free"

Ilock(p) ==
    LET s == Arg(p)
        c == IF itable[s].valid THEN itable[s].d ELSE view.di[itable[s].inum]
    IN
    /\ At(p, "ilock")
    /\ itable[s].lock = None
    /\ IF IlockPanics(s, c) THEN Panic(p, "ilock")
       ELSE /\ itable' = [itable EXCEPT ![s].lock = p, ![s].valid = TRUE, ![s].d = c]
            /\ Goes(p, <<>>)
            /\ UNCHANGED <<view, disk, active>>

Iunlock(p) ==
    /\ At(p, "iunlock")
    /\ itable' = Unlocked(itable, Arg(p))
    /\ Goes(p, <<>>)
    /\ UNCHANGED <<view, disk, active>>

LastUse(s) == itable[s].ref = 1 /\ itable[s].valid /\ itable[s].d.nlink = 0

\* iput up to the point where itable.lock is given up.
Iput(p) ==
    LET s == Arg(p) IN
    /\ At(p, "iput")
    /\ IF LastUse(s)
       THEN /\ itable[s].lock = None
            /\ itable' = [itable EXCEPT ![s].lock = p]
            /\ Goes(p, <<<<"ifree", s>>, <<"idrop", s>>>>)
       ELSE /\ itable' = Dropped(itable, s)
            /\ Goes(p, <<>>)
    /\ UNCHANGED <<view, disk, active>>

\* The inode is truncated and freed on disk, without itable.lock.
Ifree(p) ==
    LET s == Arg(p)
        r == Itrunc(view, itable[s].d)
        i == itable[s].inum
        c == [r.c EXCEPT !.type = "free"]
    IN
    /\ At(p, "ifree")
    /\ IF ItruncPanics(view, itable[s].d) THEN Panic(p, "freeing free block")
       ELSE /\ view' = [Iupdate(r.v, i, c) EXCEPT !.text[i] = <<>>, !.stray = @ \ {i}]
            /\ itable' = [itable EXCEPT ![s].d = c, ![s].valid = FALSE, ![s].lock = None]
            /\ Goes(p, <<>>)
            /\ UNCHANGED <<disk, active>>

Idrop(p) ==
    /\ At(p, "idrop")
    /\ itable' = Dropped(itable, Arg(p))
    /\ Goes(p, <<>>)
    /\ UNCHANGED <<view, disk, active>>

BeginOp(p) ==
    /\ At(p, "begin_op")
    /\ active' = active \cup {p}
    /\ Goes(p, <<>>)
    /\ UNCHANGED <<view, disk, itable>>

\* The last call to end commits what all of them did.
EndOp(p) ==
    /\ At(p, "end_op")
    /\ active' = active \ {p}
    /\ disk' = IF active' = {} THEN Committed(view) ELSE disk
    /\ view' = IF active' = {} THEN [view EXCEPT !.logged = {}] ELSE view
    /\ Goes(p, <<>>)
    /\ UNCHANGED itable

\* bget takes the buffer of a block for another one.
Evict(b) ==
    /\ view.under[b] # Zero
    /\ view' = Recycled(view, b)
    /\ UNCHANGED <<disk, active, itable, todo>>

------------------------------------------------------------------------------
Orphans(v) == {i \in Inums : v.di[i].type # "free" /\ v.di[i].nlink = 0}

\* Mutant: only regular files are taken for orphans.
OrphanFiles(v, from) == {i \in Orphans(v) : i >= from /\ v.di[i].type = "file"}

OrphansFrom(v, from) == {i \in Orphans(v) : i >= from}

\* The loop of ireclaim from inode number Arg(p) on.
Ireclaim(p) ==
    LET rest == OrphansFrom(view, Arg(p))
        i    == Min(rest)
        s    == IgetSlot(itable, i)
    IN
    /\ At(p, "ireclaim")
    /\ IF rest = {} THEN Goes(p, <<>>) /\ UNCHANGED itable
       ELSE /\ itable' = Iget(itable, i)
            /\ Goes(p, <<<<"begin_op", 0>>, <<"ilock", s>>, <<"iunlock", s>>, <<"iput", s>>,
                         <<"end_op", 0>>, <<"ireclaim", i + 1>>>>)
    /\ UNCHANGED <<view, disk, active>>

InodeStep(p) ==
    Ilock(p) \/ Iunlock(p) \/ Iput(p) \/ Ifree(p) \/ Idrop(p) \/ BeginOp(p) \/ EndOp(p)
==============================================================================
