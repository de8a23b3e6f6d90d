------------------------------ MODULE BufCache ------------------------------
(***************************************************************************)
(* The buffer cache (kernel/bio.c) and the sleep locks of its buffers      *)
(* (kernel/sleeplock.c), used by several processes.                        *)
(*                                                                         *)
(* bcache.lock and the spin lock inside a sleep lock make each critical    *)
(* section one step; between them other processes run.  A process keeps    *)
(* one buffer at a time.  What it does with it is what the kernel does:    *)
(* only read, change and bwrite (the log's own blocks), change and bpin    *)
(* (log_write), or bwrite and bunpin a pinned buffer (install_trans).      *)
(***************************************************************************)
EXTENDS Naturals, Sequences, FiniteSets, FiniteSetsExt

CONSTANTS Procs, Blocks, Values, None, NBUF

ASSUME BufCacheAssumption ==
    /\ NBUF \in Nat \ {0}
    /\ IsFiniteSet(Procs)
    /\ None \notin Procs \cup Blocks

VARIABLES
    lru,         \* the buffers from head.next to head.prev
    blockno, valid, refcnt, data,          \* struct buf
    locked,      \* the process that has the buffer's sleep lock, or None
    asleep,      \* the processes asleep in acquiresleep
    pc,          \* where each process is
    b,           \* the buffer each process has, or 0
    disk,        \* the contents of the disk
    pinned,      \* the buffers the log has pinned
    latest       \* what was last stored in each block, on disk or not

cache == <<lru, blockno, valid, refcnt, data>>
vars  == <<cache, locked, asleep, pc, b, disk, pinned, latest>>

Bufs == 1 .. NBUF

TypeOK ==
    /\ lru \in Bijection(Bufs, Bufs)
    /\ blockno \in [Bufs -> Blocks \cup {None}]
    /\ valid \in [Bufs -> BOOLEAN]
    /\ refcnt \in [Bufs -> Nat]
    /\ data \in [Bufs -> Values]
    /\ locked \in [Bufs -> Procs \cup {None}]
    /\ asleep \subseteq {p \in Procs : pc[p] = "lock"}
    /\ pc \in [Procs -> {"idle", "lock", "read", "held", "dirty", "unpin", "release", "panic"}]
    /\ b \in [Procs -> 0 .. NBUF]
    /\ disk \in [Blocks -> Values]
    /\ pinned \subseteq Bufs
    /\ latest \in [Blocks -> Values]

\* binit
Init ==
    /\ lru = [i \in Bufs |-> NBUF + 1 - i]
    /\ blockno = [i \in Bufs |-> None]
    /\ valid = [i \in Bufs |-> FALSE]
    /\ refcnt = [i \in Bufs |-> 0]
    /\ \E v \in Values : data = [i \in Bufs |-> v]
    /\ locked = [i \in Bufs |-> None]
    /\ asleep = {}
    /\ pc = [p \in Procs |-> "idle"]
    /\ b = [p \in Procs |-> 0]
    /\ disk \in [Blocks -> Values]
    /\ pinned = {}
    /\ latest = disk

At(p, l)   == pc[p] = l /\ p \notin asleep
Goto(p, l) == pc' = [pc EXCEPT ![p] = l]

------------------------------------------------------------------------------
(* bget and bread *)

BgetHit(p, n) ==
    /\ At(p, "idle")
    /\ \E i \in Bufs :
          /\ blockno[i] = n
          /\ refcnt' = [refcnt EXCEPT ![i] = @ + 1]
          /\ b' = [b EXCEPT ![p] = i]
    /\ Goto(p, "lock")
    /\ UNCHANGED <<lru, blockno, valid, data, locked, asleep, disk, pinned, latest>>

\* The unused buffer closest to head.prev.
Recyclable == {k \in Bufs : refcnt[lru[k]] = 0}
Victim     == lru[Max(Recyclable)]

\* Mutant: the recycled buffer stays valid.
BgetMissValid(p, n) ==
    /\ At(p, "idle")
    /\ \A i \in Bufs : blockno[i] # n
    /\ Recyclable # {}
    /\ blockno' = [blockno EXCEPT ![Victim] = n]
    /\ UNCHANGED valid
    /\ refcnt' = [refcnt EXCEPT ![Victim] = 1]
    /\ b' = [b EXCEPT ![p] = Victim]
    /\ Goto(p, "lock")
    /\ UNCHANGED <<lru, data, locked, asleep, disk, pinned, latest>>

BgetMiss(p, n) ==
    /\ At(p, "idle")
    /\ \A i \in Bufs : blockno[i] # n
    /\ Recyclable # {}
    /\ blockno' = [blockno EXCEPT ![Victim] = n]
    /\ valid' = [valid EXCEPT ![Victim] = FALSE]
    /\ refcnt' = [refcnt EXCEPT ![Victim] = 1]
    /\ b' = [b EXCEPT ![p] = Victim]
    /\ Goto(p, "lock")
    /\ UNCHANGED <<lru, data, locked, asleep, disk, pinned, latest>>

\* "bget: no buffers": every buffer is in use or pinned.  p is stuck with bcache.lock, and
\* the others, which in the code spin at the lock when they come to it, go on.
BgetPanic(p, n) ==
    /\ At(p, "idle") /\ \A q \in Procs : pc[q] # "panic"
    /\ \A i \in Bufs : blockno[i] # n
    /\ Recyclable = {}
    /\ Goto(p, "panic")
    /\ UNCHANGED <<cache, locked, asleep, b, disk, pinned, latest>>

\* acquiresleep, then bread looks at b->valid.
Acquiresleep(p) ==
    /\ At(p, "lock")
    /\ locked[b[p]] = None
    /\ locked' = [locked EXCEPT ![b[p]] = p]
    /\ Goto(p, IF valid[b[p]] THEN "held" ELSE "read")
    /\ UNCHANGED <<cache, asleep, b, disk, pinned, latest>>

AcquiresleepWait(p) ==
    /\ At(p, "lock")
    /\ locked[b[p]] # None
    /\ asleep' = asleep \cup {p}
    /\ UNCHANGED <<cache, locked, pc, b, disk, pinned, latest>>

\* virtio_disk_rw(b, 0), in one step (module Virtio has its own).
Bread(p) ==
    /\ At(p, "read")
    /\ data' = [data EXCEPT ![b[p]] = disk[blockno[b[p]]]]
    /\ valid' = [valid EXCEPT ![b[p]] = TRUE]
    /\ Goto(p, "held")
    /\ UNCHANGED <<lru, blockno, refcnt, locked, asleep, b, disk, pinned, latest>>

------------------------------------------------------------------------------
(* The holder of a buffer *)

Store(p, v) ==
    /\ data' = [data EXCEPT ![b[p]] = v]
    /\ latest' = [latest EXCEPT ![blockno[b[p]]] = v]

Modify(p, v) ==
    /\ At(p, "held") /\ b[p] \notin pinned
    /\ Store(p, v)
    /\ Goto(p, "dirty")
    /\ UNCHANGED <<lru, blockno, valid, refcnt, locked, asleep, b, disk, pinned>>

Bwrite(p) ==
    /\ At(p, "dirty")
    /\ disk' = [disk EXCEPT ![blockno[b[p]]] = data[b[p]]]
    /\ Goto(p, IF b[p] \in pinned THEN "unpin" ELSE "held")
    /\ UNCHANGED <<cache, locked, asleep, b, pinned, latest>>

\* log_write: bpin, unless the block is in the log already.
Bpin(p, v) ==
    /\ At(p, "held")
    /\ Store(p, v)
    /\ refcnt' = IF b[p] \in pinned THEN refcnt ELSE [refcnt EXCEPT ![b[p]] = @ + 1]
    /\ pinned' = pinned \cup {b[p]}
    /\ UNCHANGED <<lru, blockno, valid, locked, asleep, pc, b, disk>>

\* install_trans goes on to bwrite and bunpin.
Install(p) ==
    /\ At(p, "held") /\ b[p] \in pinned
    /\ Goto(p, "dirty")
    /\ UNCHANGED <<cache, locked, asleep, b, disk, pinned, latest>>

Bunpin(p) ==
    /\ At(p, "unpin")
    /\ refcnt' = [refcnt EXCEPT ![b[p]] = @ - 1]
    /\ pinned' = pinned \ {b[p]}
    /\ Goto(p, "held")
    /\ UNCHANGED <<lru, blockno, valid, data, locked, asleep, b, disk, latest>>

------------------------------------------------------------------------------
(* brelse *)

Releasesleep(p) ==
    /\ At(p, "held")
    /\ locked' = [locked EXCEPT ![b[p]] = None]
    /\ asleep' = {q \in asleep : b[q] # b[p]}
    /\ Goto(p, "release")
    /\ UNCHANGED <<cache, b, disk, pinned, latest>>

\* The buffer no one is waiting for goes behind the head.
MoveToFront(s, i) ==
    LET at == CHOOSE k \in Bufs : s[k] = i
    IN  [k \in Bufs |-> IF k = 1 THEN i ELSE IF k <= at THEN s[k - 1] ELSE s[k]]

Brelse(p) ==
    /\ At(p, "release")
    /\ refcnt' = [refcnt EXCEPT ![b[p]] = @ - 1]
    /\ lru' = IF refcnt[b[p]] = 1 THEN MoveToFront(lru, b[p]) ELSE lru
    /\ b' = [b EXCEPT ![p] = 0]
    /\ Goto(p, "idle")
    /\ UNCHANGED <<blockno, valid, data, locked, asleep, disk, pinned, latest>>

------------------------------------------------------------------------------
\* What a process does in the cache alone, and with the disk.
CacheStep(p) ==
    \/ Acquiresleep(p) \/ AcquiresleepWait(p) \/ Install(p)
    \/ Bunpin(p) \/ Releasesleep(p) \/ Brelse(p)
    \/ \E n \in Blocks : BgetHit(p, n) \/ BgetMiss(p, n) \/ BgetPanic(p, n)
    \/ \E v \in Values : Modify(p, v) \/ Bpin(p, v)

Next == \E p \in Procs : CacheStep(p) \/ Bread(p) \/ Bwrite(p)

Spec == Init /\ [][Next]_vars

------------------------------------------------------------------------------
(* Properties *)

Holder(p) == pc[p] \in {"read", "held", "dirty", "unpin"}

\* The sleep lock of a buffer has one holder, which has the buffer it asked for,
\* and a block has one buffer: no two processes work on copies of a block, even
\* when the buffer was recycled while they waited.
OneCopy ==
    /\ \A i, j \in Bufs : blockno[i] = blockno[j] /\ blockno[i] # None => i = j
    /\ \A p \in Procs, i \in Bufs : locked[i] = p <=> Holder(p) /\ b[p] = i

\* refcnt counts the processes that have or wait for the buffer, and the pin.
RefsExact ==
    \A i \in Bufs :
       refcnt[i] = Cardinality({p \in Procs : b[p] = i}) + (IF i \in pinned THEN 1 ELSE 0)

\* The holder of a valid buffer sees what was last stored in the block, whichever
\* process stored it and whether it reached the disk or only the log.
ReadsLatest ==
    \A p \in Procs :
       Holder(p) /\ pc[p] # "read" => data[b[p]] = latest[blockno[b[p]]]

\* A change that is in no buffer is on the disk: recycling loses nothing.
NothingLost ==
    \A n \in Blocks :
       disk[n] = latest[n] \/ \E i \in Bufs : blockno[i] = n /\ refcnt[i] > 0 /\ data[i] = latest[n]

\* A process asleep in acquiresleep waits for a buffer that is locked.
NoLostWakeup == \A p \in asleep : locked[b[p]] # None

\* A process has a buffer from bget to brelse, and the buffer is for the block it
\* asked for; bread leaves it valid, and bunpin comes after the block is written.
Holding ==
    \A p \in Procs :
       /\ pc[p] \in {"idle", "panic"} <=> b[p] = 0
       /\ b[p] # 0 => blockno[b[p]] # None
       /\ Holder(p) => (valid[b[p]] <=> pc[p] # "read")
       /\ pc[p] = "unpin" => b[p] \in pinned /\ disk[blockno[b[p]]] = latest[blockno[b[p]]]

\* A valid buffer is never stale, in use or not.
Coherent == \A i \in Bufs : valid[i] /\ blockno[i] # None => data[i] = latest[blockno[i]]

\* Only a pinned buffer, or one that is about to be written, is ahead of the disk.
Unwritten ==
    \A n \in Blocks :
       \/ disk[n] = latest[n]
       \/ \E i \in Bufs : /\ blockno[i] = n /\ valid[i]
                          /\ i \in pinned \/ \E p \in Procs : b[p] = i /\ pc[p] = "dirty"

\* bcache.lock and the sleep locks together keep the cache coherent: one buffer a
\* block, one holder a buffer, exact reference counts, whoever has a buffer reads
\* the last change, recycling loses none, and nobody sleeps without a reason.
CacheInv ==
    /\ TypeOK /\ OneCopy /\ RefsExact
    /\ ReadsLatest /\ NothingLost /\ NoLostWakeup
    /\ Holding /\ Coherent /\ Unwritten
==============================================================================
