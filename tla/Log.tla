--------------------------------- MODULE Log ---------------------------------
(***************************************************************************)
(* The redo log of kernel/log.c: concurrent file-system calls share one    *)
(* transaction, the last end_op commits it, and a reboot replays the log.  *)
(*                                                                         *)
(* A step is one critical section of log.lock or one disk write.  bwrite   *)
(* waits for the device, so writes reach the disk in program order; the    *)
(* write of one block is taken to be atomic.  The machine may crash        *)
(* between any two steps, recovery included.                               *)
(***************************************************************************)
EXTENDS Naturals, Sequences, FiniteSets

CONSTANTS
    Procs,         \* processes that make file-system calls
    Blocks,        \* home blocks of the file system
    Vals,          \* block contents
    None,          \* no block / not in the buffer cache
    MAXOPBLOCKS,   \* blocks begin_op reserves for one call
    LOGBLOCKS,     \* data blocks of the on-disk log
    OpBlocks       \* distinct blocks a call really writes

ASSUME LogAssumption ==
    /\ IsFiniteSet(Procs)
    /\ None \notin Blocks \cup Vals
    /\ MAXOPBLOCKS \in Nat \ {0}
    /\ LOGBLOCKS \in Nat \ {0}
    /\ OpBlocks \in Nat
    /\ OpBlocks <= MAXOPBLOCKS
    /\ MAXOPBLOCKS <= LOGBLOCKS

VARIABLES
    \* on disk
    home,          \* the home location of every block
    logd,          \* the data blocks of the log
    hdr,           \* the log header: block numbers of a committed transaction
    \* in memory
    lh,            \* log.lh: block numbers of the transaction being built
    outstanding,   \* log.outstanding
    committing,    \* log.committing
    cache,         \* buffer cache: content of a block, None when not cached
    pin,           \* references bpin holds on a block's buffer
    pc,            \* where a process is in begin_op / its call / end_op
    held,          \* the buffer whose sleep-lock a process holds
    wrote,         \* the blocks a process has logged in its current call
    tail,          \* loop index of write_log / install_trans
    boot           \* "up", or where initlog is

disk == <<home, logd, hdr>>
mem  == <<lh, outstanding, committing, cache, pin>>
proc == <<pc, held, wrote>>
vars == <<disk, mem, proc, tail, boot>>

InOp     == {"op", "locked"}
InCommit == {"write_log", "install", "finish"}

TypeOK ==
    /\ home \in [Blocks -> Vals]
    /\ logd \in [1 .. LOGBLOCKS -> Vals]
    /\ hdr \in Seq(Blocks)
    /\ lh \in Seq(Blocks)
    /\ outstanding \in Nat
    /\ committing \in {0, 1}
    /\ cache \in [Blocks -> Vals \cup {None}]
    /\ pin \in [Blocks -> Nat]
    /\ pc \in [Procs -> {"idle", "begin", "sleep"} \cup InOp \cup InCommit]
    /\ held \in [Procs -> Blocks \cup {None}]
    /\ wrote \in [Procs -> SUBSET Blocks]
    /\ tail \in Nat
    /\ boot \in {"up", "read_head", "install"}

Init ==
    /\ home \in [Blocks -> Vals]
    /\ \E v \in Vals : logd = [i \in 1 .. LOGBLOCKS |-> v]
    /\ hdr = <<>>
    /\ lh = <<>>
    /\ outstanding = 0
    /\ committing = 0
    /\ cache = [b \in Blocks |-> None]
    /\ pin = [b \in Blocks |-> 0]
    /\ pc = [p \in Procs |-> "idle"]
    /\ held = [p \in Procs |-> None]
    /\ wrote = [p \in Procs |-> {}]
    /\ tail = 0
    /\ boot = "read_head"

Running == boot = "up"

\* The calls between begin_op and end_op.
Active == {p \in Procs : pc[p] \in InOp}

InLog(b) == \E i \in 1 .. Len(lh) : lh[i] = b

\* The content bread returns: the cached copy, else what the disk has.
Read(b) == IF cache[b] = None THEN home[b] ELSE cache[b]

\* wakeup(&log): every process asleep in begin_op runs its loop again.
WakeLog(q) == [p \in Procs |-> IF q[p] = "sleep" THEN "begin" ELSE q[p]]

------------------------------------------------------------------------------
(* begin_op *)

\* Mutant: only the call that is entering is counted.
MustWaitAlone ==
    \/ committing = 1
    \/ Len(lh) + MAXOPBLOCKS > LOGBLOCKS

MustWait ==
    \/ committing = 1
    \/ Len(lh) + (outstanding + 1) * MAXOPBLOCKS > LOGBLOCKS

BeginOpSleep(p) ==
    /\ Running
    /\ pc[p] \in {"idle", "begin"}
    /\ MustWait
    /\ pc' = [pc EXCEPT ![p] = "sleep"]
    /\ UNCHANGED <<disk, mem, held, wrote, tail, boot>>

BeginOpEnter(p) ==
    /\ Running
    /\ pc[p] \in {"idle", "begin"}
    /\ ~MustWait
    /\ outstanding' = outstanding + 1
    /\ pc' = [pc EXCEPT ![p] = "op"]
    /\ wrote' = [wrote EXCEPT ![p] = {}]
    /\ UNCHANGED <<disk, lh, committing, cache, pin, held, tail, boot>>

------------------------------------------------------------------------------
(* A call's use of a block: bread; modify; log_write; brelse *)

Bread(p, b) ==
    /\ Running
    /\ pc[p] = "op"
    /\ \A q \in Procs : held[q] # b
    /\ Cardinality(wrote[p] \cup {b}) <= OpBlocks
    /\ held' = [held EXCEPT ![p] = b]
    /\ cache' = [cache EXCEPT ![b] = Read(b)]
    /\ pc' = [pc EXCEPT ![p] = "locked"]
    /\ UNCHANGED <<disk, lh, outstanding, committing, pin, wrote, tail, boot>>

LogWritePanics == Len(lh) >= LOGBLOCKS \/ outstanding < 1

\* Mutant: log_write forgets bpin.
LogWriteUnpinned(p, v) ==
    LET b == held[p] IN
    /\ Running
    /\ pc[p] = "locked"
    /\ ~LogWritePanics
    /\ cache' = [cache EXCEPT ![b] = v]
    /\ IF InLog(b)
         THEN UNCHANGED <<lh, pin>>
         ELSE /\ lh' = Append(lh, b)
              /\ pin' = pin
    /\ wrote' = [wrote EXCEPT ![p] = @ \cup {b}]
    /\ held' = [held EXCEPT ![p] = None]
    /\ pc' = [pc EXCEPT ![p] = "op"]
    /\ UNCHANGED <<disk, outstanding, committing, tail, boot>>

LogWrite(p, v) ==
    LET b == held[p] IN
    /\ Running
    /\ pc[p] = "locked"
    /\ ~LogWritePanics
    /\ cache' = [cache EXCEPT ![b] = v]
    /\ IF InLog(b)
         THEN UNCHANGED <<lh, pin>>
         ELSE /\ lh' = Append(lh, b)
              /\ pin' = [pin EXCEPT ![b] = @ + 1]
    /\ wrote' = [wrote EXCEPT ![p] = @ \cup {b}]
    /\ held' = [held EXCEPT ![p] = None]
    /\ pc' = [pc EXCEPT ![p] = "op"]
    /\ UNCHANGED <<disk, outstanding, committing, tail, boot>>

\* The cache recycles a buffer nobody holds and nobody pinned (bget).
Evict(b) ==
    /\ Running
    /\ cache[b] # None
    /\ pin[b] = 0
    /\ \A q \in Procs : held[q] # b
    /\ cache' = [cache EXCEPT ![b] = None]
    /\ UNCHANGED <<disk, lh, outstanding, committing, pin, proc, tail, boot>>

------------------------------------------------------------------------------
(* end_op and commit *)

EndOpLeave(p) ==
    /\ Running
    /\ pc[p] = "op"
    /\ committing = 0
    /\ outstanding # 1
    /\ outstanding' = outstanding - 1
    /\ pc' = WakeLog([pc EXCEPT ![p] = "idle"])
    /\ UNCHANGED <<disk, lh, committing, cache, pin, held, wrote, tail, boot>>

\* Mutant: commit installs without writing the log and its header.
EndOpCommitNoLog(p) ==
    /\ Running
    /\ pc[p] = "op"
    /\ committing = 0
    /\ outstanding = 1
    /\ outstanding' = 0
    /\ committing' = 1
    /\ tail' = 0
    /\ pc' = [pc EXCEPT ![p] = IF Len(lh) > 0 THEN "install" ELSE "finish"]
    /\ UNCHANGED <<disk, lh, cache, pin, held, wrote, boot>>

EndOpCommit(p) ==
    /\ Running
    /\ pc[p] = "op"
    /\ committing = 0
    /\ outstanding = 1
    /\ outstanding' = 0
    /\ committing' = 1
    /\ tail' = 0
    /\ pc' = [pc EXCEPT ![p] = IF Len(lh) > 0 THEN "write_log" ELSE "finish"]
    /\ UNCHANGED <<disk, lh, cache, pin, held, wrote, boot>>

WriteLog(p) ==
    /\ Running
    /\ pc[p] = "write_log"
    /\ tail < Len(lh)
    /\ logd' = [logd EXCEPT ![tail + 1] = Read(lh[tail + 1])]
    /\ cache' = [cache EXCEPT ![lh[tail + 1]] = Read(lh[tail + 1])]
    /\ tail' = tail + 1
    /\ UNCHANGED <<home, hdr, lh, outstanding, committing, pin, proc, boot>>

\* Mutant: the header is written before the log blocks.
WriteHeadEarly(p) ==
    /\ Running
    /\ pc[p] = "write_log"
    /\ tail <= Len(lh)
    /\ hdr' = lh
    /\ tail' = 0
    /\ pc' = [pc EXCEPT ![p] = "install"]
    /\ UNCHANGED <<home, logd, mem, held, wrote, boot>>

\* The true commit point.
WriteHead(p) ==
    /\ Running
    /\ pc[p] = "write_log"
    /\ tail = Len(lh)
    /\ hdr' = lh
    /\ tail' = 0
    /\ pc' = [pc EXCEPT ![p] = "install"]
    /\ UNCHANGED <<home, logd, mem, held, wrote, boot>>

InstallTrans(p) ==
    LET b == lh[tail + 1] IN
    /\ Running
    /\ pc[p] = "install"
    /\ tail < Len(lh)
    /\ home' = [home EXCEPT ![b] = logd[tail + 1]]
    /\ cache' = [cache EXCEPT ![b] = logd[tail + 1]]
    /\ pin' = [pin EXCEPT ![b] = @ - 1]
    /\ tail' = tail + 1
    /\ UNCHANGED <<logd, hdr, lh, outstanding, committing, proc, boot>>

ClearHead(p) ==
    /\ Running
    /\ pc[p] = "install"
    /\ tail = Len(lh)
    /\ lh' = <<>>
    /\ hdr' = <<>>
    /\ tail' = 0
    /\ pc' = [pc EXCEPT ![p] = "finish"]
    /\ UNCHANGED <<home, logd, outstanding, committing, cache, pin, held, wrote,
                   boot>>

\* Mutant: the end of a commit wakes nobody.
EndOpFinishSilent(p) ==
    /\ Running
    /\ pc[p] = "finish"
    /\ committing' = 0
    /\ pc' = [pc EXCEPT ![p] = "idle"]
    /\ UNCHANGED <<disk, lh, outstanding, cache, pin, held, wrote, tail, boot>>

EndOpFinish(p) ==
    /\ Running
    /\ pc[p] = "finish"
    /\ committing' = 0
    /\ pc' = WakeLog([pc EXCEPT ![p] = "idle"])
    /\ UNCHANGED <<disk, lh, outstanding, cache, pin, held, wrote, tail, boot>>

------------------------------------------------------------------------------
(* initlog / recover_from_log, and the crash that makes it run *)

RecoverReadHead ==
    /\ boot = "read_head"
    /\ lh' = hdr
    /\ tail' = 0
    /\ boot' = "install"
    /\ UNCHANGED <<disk, outstanding, committing, cache, pin, proc>>

RecoverInstall ==
    LET b == lh[tail + 1] IN
    /\ boot = "install"
    /\ tail < Len(lh)
    /\ home' = [home EXCEPT ![b] = logd[tail + 1]]
    /\ cache' = [cache EXCEPT ![b] = logd[tail + 1]]
    /\ tail' = tail + 1
    /\ UNCHANGED <<logd, hdr, lh, outstanding, committing, pin, proc, boot>>

RecoverClear ==
    /\ boot = "install"
    /\ tail = Len(lh)
    /\ lh' = <<>>
    /\ hdr' = <<>>
    /\ tail' = 0
    /\ boot' = "up"
    /\ UNCHANGED <<home, logd, outstanding, committing, cache, pin, proc>>

\* Everything in memory is lost; the disk is as the last write left it.
Crash ==
    /\ lh' = <<>>
    /\ outstanding' = 0
    /\ committing' = 0
    /\ cache' = [b \in Blocks |-> None]
    /\ pin' = [b \in Blocks |-> 0]
    /\ pc' = [p \in Procs |-> "idle"]
    /\ held' = [p \in Procs |-> None]
    /\ wrote' = [p \in Procs |-> {}]
    /\ tail' = 0
    /\ boot' = "read_head"
    /\ UNCHANGED disk

BeginOp(p) == BeginOpSleep(p) \/ BeginOpEnter(p)

EndOp(p) == EndOpLeave(p) \/ EndOpCommit(p)

Commit(p) ==
    WriteLog(p) \/ WriteHead(p) \/ InstallTrans(p) \/ ClearHead(p) \/ EndOpFinish(p)

Recover == RecoverReadHead \/ RecoverInstall \/ RecoverClear

Next ==
    \/ \E p \in Procs : \/ BeginOp(p)
                        \/ \E b \in Blocks : Bread(p, b)
                        \/ \E v \in Vals : LogWrite(p, v)
                        \/ EndOp(p)
                        \/ Commit(p)
    \/ \E b \in Blocks : Evict(b)
    \/ Recover
    \/ Crash

Spec == Init /\ [][Next]_vars

\* A process inside commit keeps running, a call between begin_op and end_op
\* makes finitely many log_writes before its end_op, a woken process runs its
\* loop again, and recovery runs to its end.
Fairness ==
    /\ \A p \in Procs : /\ WF_vars(Commit(p))
                        /\ WF_vars(\E v \in Vals : LogWrite(p, v))
                        /\ SF_vars(EndOp(p))
                        /\ WF_vars(pc[p] = "begin" /\ BeginOp(p))
    /\ WF_vars(Recover)

FairSpec == Spec /\ Fairness

------------------------------------------------------------------------------
(* Safety *)

\* No panic of log.c is reached: a log_write always finds room and an open
\* transaction ("too big a transaction", "log_write outside of trans"), and no
\* call is still open while the log commits ("log.committing" in end_op).
NoPanic ==
    \A p \in Procs : /\ pc[p] = "locked" => ~LogWritePanics
                     /\ pc[p] \in InOp => committing = 0

\* No lost wakeup: a process asleep in begin_op has a reason to be, so every
\* step that makes room (the end of another call, the end of a commit) has
\* woken it.
NoLostWakeup == \A p \in Procs : pc[p] = "sleep" => MustWait

Installing == \E p \in Procs : pc[p] = "install"

NoDuplicates(s) == \A i, j \in 1 .. Len(s) : s[i] = s[j] => i = j

\* log.outstanding counts the open calls.
Counted == outstanding = Cardinality(Active)

\* One process commits at a time, and only while no call is open.
Calls ==
    /\ committing = 1 <=> \E p \in Procs : pc[p] \in InCommit
    /\ \A p, q \in Procs : pc[p] \in InCommit /\ pc[q] \in InCommit => p = q
    /\ committing = 1 => \A p \in Procs : pc[p] \notin InOp
    /\ boot # "up" => committing = 0 /\ \A p \in Procs : pc[p] = "idle"

\* A buffer being modified is cached and belongs to one process.
Buffers ==
    /\ \A p \in Procs : pc[p] = "locked" <=> held[p] # None
    /\ \A p, q \in Procs : held[p] = held[q] /\ held[p] # None => p = q
    /\ \A p \in Procs : held[p] # None => cache[held[p]] # None

\* The header names each block once and fits the log; on disk it is empty
\* except between write_head and the end of install_trans.
Headers ==
    /\ NoDuplicates(lh) /\ Len(lh) <= LOGBLOCKS
    /\ NoDuplicates(hdr) /\ Len(hdr) <= LOGBLOCKS
    /\ boot = "up" => hdr = IF Installing THEN lh ELSE <<>>
    /\ boot = "install" => hdr = lh
    /\ tail <= Len(lh)

\* A logged block stays pinned in the cache until it is installed, and a block
\* that is not logged reads the same from the cache and from the disk.
Pinned ==
    /\ boot = "up" =>
         \A b \in Blocks :
            /\ (\E i \in 1 .. Len(lh) : lh[i] = b /\ (Installing => i > tail))
                  => pin[b] > 0 /\ cache[b] # None
            /\ ~InLog(b) => Read(b) = home[b]
    /\ boot = "read_head" => \A b \in Blocks : cache[b] = None
    /\ boot = "install" => \A b \in Blocks : Read(b) = home[b]

\* write_log, install_trans and recovery have done what their loop index says.
Progress ==
    /\ \A p \in Procs :
         /\ pc[p] = "write_log" => \A i \in 1 .. tail : logd[i] = Read(lh[i])
         /\ pc[p] = "install" =>
              /\ \A i \in 1 .. Len(lh) : logd[i] = Read(lh[i])
              /\ \A i \in 1 .. tail : home[lh[i]] = logd[i]
         /\ pc[p] = "finish" => lh = <<>>
    /\ boot = "install" => \A i \in 1 .. tail : home[lh[i]] = logd[i]

\* The inductive invariant behind the refinement: the parts above together.
LogInv == Counted /\ Calls /\ Buffers /\ Headers /\ Pinned /\ Progress

Consistent == TypeOK /\ LogInv

\* The writes of the open calls: which call has logged which block.
Logged == {x \in Active \X Blocks : x[2] \in wrote[x[1]]}

\* What begin_op reserves is enough: the header, and what every open call may still
\* add to it, fit the log.
Reserved ==
    /\ \A p \in Active :
          /\ \A b \in wrote[p] : InLog(b)
          /\ Cardinality(wrote[p] \cup ({held[p]} \ {None})) <= OpBlocks
    /\ Len(lh) + outstanding * MAXOPBLOCKS <= LOGBLOCKS + Cardinality(Logged)

\* In every state, in the middle of a commit and after any crash, the header, the
\* log blocks, the home blocks, the pinned buffers and log.outstanding agree, and
\* the open calls have room.
Inv == Consistent /\ Reserved

------------------------------------------------------------------------------
(* Action properties, refinement, liveness *)

\* Write-ahead: a home block only ever changes to the content that a committed
\* header on disk has for it.
WriteAhead ==
    [][\A b \in Blocks : home'[b] # home[b] =>
         \E i \in 1 .. Len(hdr) : hdr[i] = b /\ home'[b] = logd[i]]_vars

\* The home blocks with the blocks a header names taken from the log.
Overlay(header, log, blocks) ==
    [b \in Blocks |->
        IF \E i \in 1 .. Len(header) : header[i] = b
          THEN log[CHOOSE i \in 1 .. Len(header) : header[i] = b]
          ELSE blocks[b]]

\* What recovery would bring back if the machine crashed now.
Committed == Overlay(hdr, logd, home)

View == [b \in Blocks |-> IF boot = "up" THEN Read(b) ELSE Committed[b]]

AD == INSTANCE AtomicDisk WITH
        disk <- Committed, view <- View,
        active <- Active

\* Whatever crashes happen, commits are atomic: log.c implements AtomicDisk.
ImplementsAtomicDisk == AD!Spec

\* A process asleep in begin_op eventually runs again.
SleepersWake == \A p \in Procs : pc[p] = "sleep" ~> pc[p] # "sleep"
===============================================================================
