-------------------------------- MODULE Pipe --------------------------------
(***************************************************************************)
(* kernel/pipe.c: several readers and writers of one pipe, which share its *)
(* two files (through fork), may be killed and close their ends.           *)
(*                                                                         *)
(* pi->lock is held for many steps: one per byte copied.  With SMP a kill  *)
(* may come from another CPU during them; on one CPU interrupts are off.   *)
(* The k-th byte ever written is the number k.                             *)
(***************************************************************************)
EXTENDS Integers

CONSTANTS
    Readers, Writers, None,
    PIPESIZE,
    Word,        \* nread and nwrite are counted modulo Word (2^32)
    MaxN,        \* bound on the count of a read or write
    MaxBytes,    \* bound on the bytes ever written
    SMP

Procs == Readers \cup Writers

ASSUME PipeAssumption ==
    /\ None \notin Procs /\ Readers \cap Writers = {}
    /\ PIPESIZE \in Nat \ {0}
    /\ Word \in Nat \ {0} /\ Word % PIPESIZE = 0 /\ Word > PIPESIZE
    /\ MaxN \in Nat /\ MaxBytes \in Nat
    /\ SMP \in BOOLEAN

VARIABLES
    lock,                \* the holder of pi->lock
    data, nread, nwrite, readopen, writeopen,     \* struct pipe
    freed,               \* kfree was called
    open,                \* the processes that have their end open
    pc,                  \* "idle", "enter", "wait", "write", "read"
    i, n,                \* the locals of the calls
    asleep, killed,
    sent, got            \* the last byte written and the last one read

pipe  == <<data, nread, nwrite, readopen, writeopen, freed, open>>
local == <<pc, i, n>>
vars  == <<lock, pipe, local, asleep, killed, sent, got>>

Count == (nwrite - nread) % Word
\* Mutant: one byte too many fits.
FullLate  == nwrite = (nread + PIPESIZE + 1) % Word

Full  == nwrite = (nread + PIPESIZE) % Word
Empty == nread = nwrite

TypeOK ==
    /\ lock \in Procs \cup {None}
    /\ data \in [0 .. PIPESIZE - 1 -> 0 .. MaxBytes]
    /\ nread \in 0 .. Word - 1 /\ nwrite \in 0 .. Word - 1
    /\ readopen \in BOOLEAN /\ writeopen \in BOOLEAN /\ freed \in BOOLEAN
    /\ open \subseteq Procs
    /\ pc \in [Procs -> {"idle", "enter", "wait", "write", "read"}]
    /\ n \in [Procs -> 0 .. MaxN] /\ i \in [Procs -> 0 .. MaxN] /\ \A p \in Procs : i[p] <= n[p]
    /\ asleep \subseteq {p \in Procs : pc[p] = "enter"}
    /\ killed \subseteq Procs
    /\ sent \in 0 .. MaxBytes /\ got \in 0 .. MaxBytes

\* pipealloc, and fork of the processes that share the two files.
Init ==
    /\ lock = None
    /\ data = [k \in 0 .. PIPESIZE - 1 |-> 0]
    /\ nread = 0 /\ nwrite = 0
    /\ readopen = TRUE /\ writeopen = TRUE
    /\ freed = FALSE
    /\ open = Procs
    /\ pc = [p \in Procs |-> "idle"]
    /\ i = [p \in Procs |-> 0] /\ n = [p \in Procs |-> 0]
    /\ asleep = {} /\ killed = {}
    /\ sent = 0 /\ got = 0

\* wakeup(&pi->nread) and wakeup(&pi->nwrite)
WakeReaders == asleep \ Readers
WakeWriters == asleep \ Writers

\* release(&pi->lock) and return
Return(p) ==
    /\ lock' = None
    /\ pc' = [pc EXCEPT ![p] = "idle"]
    /\ i' = [i EXCEPT ![p] = 0]
    /\ n' = [n EXCEPT ![p] = 0]

\* sleep(chan, &pi->lock): the lock is given up, and taken again when woken.
SleepOn(p, woken) ==
    /\ lock' = None
    /\ pc' = [pc EXCEPT ![p] = "enter"]
    /\ asleep' = woken \cup {p}
    /\ UNCHANGED <<i, n>>

------------------------------------------------------------------------------
Call(p, k) ==
    /\ pc[p] = "idle" /\ p \in open /\ p \notin killed
    /\ pc' = [pc EXCEPT ![p] = "enter"]
    /\ n' = [n EXCEPT ![p] = k]
    /\ UNCHANGED <<lock, pipe, i, asleep, killed, sent, got>>

Acquire(p) ==
    /\ pc[p] = "enter" /\ p \notin asleep
    /\ lock = None
    /\ lock' = p
    /\ pc' = [pc EXCEPT ![p] = IF p \in Readers THEN "wait" ELSE "write"]
    /\ UNCHANGED <<pipe, i, n, asleep, killed, sent, got>>

------------------------------------------------------------------------------
(* pipewrite *)

WriteGiveUp(p) ==
    /\ pc[p] = "write" /\ i[p] < n[p]
    /\ ~readopen \/ p \in killed
    /\ Return(p)
    /\ UNCHANGED <<pipe, asleep, killed, sent, got>>

WriteFull(p) ==
    /\ pc[p] = "write" /\ i[p] < n[p]
    /\ readopen /\ p \notin killed
    /\ Full
    /\ SleepOn(p, WakeReaders)
    /\ UNCHANGED <<pipe, killed, sent, got>>

WriteByte(p) ==
    /\ pc[p] = "write" /\ i[p] < n[p]
    /\ readopen /\ p \notin killed
    /\ ~Full
    /\ sent < MaxBytes
    /\ data' = [data EXCEPT ![nwrite % PIPESIZE] = sent + 1]
    /\ nwrite' = (nwrite + 1) % Word
    /\ sent' = sent + 1
    /\ i' = [i EXCEPT ![p] = @ + 1]
    /\ UNCHANGED <<lock, nread, readopen, writeopen, freed, open, pc, n, asleep, killed, got>>

\* All bytes are written, or copyin failed.
WriteEnd(p) ==
    /\ pc[p] = "write"
    /\ i[p] < n[p] => readopen /\ p \notin killed /\ ~Full
    /\ asleep' = WakeReaders
    /\ Return(p)
    /\ UNCHANGED <<pipe, killed, sent, got>>

------------------------------------------------------------------------------
(* piperead *)

ReadGiveUp(p) ==
    /\ pc[p] = "wait"
    /\ Empty /\ writeopen /\ p \in killed
    /\ Return(p)
    /\ UNCHANGED <<pipe, asleep, killed, sent, got>>

ReadSleep(p) ==
    /\ pc[p] = "wait"
    /\ Empty /\ writeopen /\ p \notin killed
    /\ SleepOn(p, asleep)
    /\ UNCHANGED <<pipe, killed, sent, got>>

ReadReady(p) ==
    /\ pc[p] = "wait"
    /\ ~Empty \/ ~writeopen
    /\ pc' = [pc EXCEPT ![p] = "read"]
    /\ UNCHANGED <<lock, pipe, i, n, asleep, killed, sent, got>>

ReadByte(p) ==
    /\ pc[p] = "read" /\ i[p] < n[p]
    /\ ~Empty
    /\ got' = data[nread % PIPESIZE]
    /\ nread' = (nread + 1) % Word
    /\ i' = [i EXCEPT ![p] = @ + 1]
    /\ UNCHANGED <<lock, data, nwrite, readopen, writeopen, freed, open, pc, n, asleep, killed, sent>>

ReadEnd(p) ==
    /\ pc[p] = "read"
    /\ asleep' = WakeWriters
    /\ Return(p)
    /\ UNCHANGED <<pipe, killed, sent, got>>

------------------------------------------------------------------------------
\* Mutant: closing an end wakes no one.
CloseSilent(p) ==
    LET last == open \cap (IF p \in Readers THEN Readers ELSE Writers) = {p}
        ro   == readopen /\ ~(last /\ p \in Readers)
        wo   == writeopen /\ ~(last /\ p \in Writers)
    IN
    /\ pc[p] = "idle" /\ p \in open
    /\ last => lock = None
    /\ open' = open \ {p}
    /\ readopen' = ro /\ writeopen' = wo
    /\ UNCHANGED asleep
    /\ freed' = (~ro /\ ~wo)
    /\ UNCHANGED <<lock, data, nread, nwrite, local, killed, sent, got>>

\* fileclose by close or exit, and pipeclose for the last process of an end.
Close(p) ==
    LET last == open \cap (IF p \in Readers THEN Readers ELSE Writers) = {p}
        ro   == readopen /\ ~(last /\ p \in Readers)
        wo   == writeopen /\ ~(last /\ p \in Writers)
    IN
    /\ pc[p] = "idle" /\ p \in open
    /\ last => lock = None
    /\ open' = open \ {p}
    /\ readopen' = ro /\ writeopen' = wo
    /\ asleep' = IF ~last THEN asleep ELSE IF p \in Readers THEN WakeWriters ELSE WakeReaders
    /\ freed' = (~ro /\ ~wo)
    /\ UNCHANGED <<lock, data, nread, nwrite, local, killed, sent, got>>

\* kkill
Kill(p) ==
    /\ p \notin killed /\ p \in open
    /\ SMP \/ lock = None
    /\ killed' = killed \cup {p}
    /\ asleep' = asleep \ {p}
    /\ UNCHANGED <<lock, pipe, local, sent, got>>

------------------------------------------------------------------------------
Write(p) == WriteGiveUp(p) \/ WriteFull(p) \/ WriteByte(p) \/ WriteEnd(p)
Read(p)  == ReadGiveUp(p) \/ ReadSleep(p) \/ ReadReady(p) \/ ReadByte(p) \/ ReadEnd(p)

Next ==
    \E p \in Procs :
       \/ \E k \in 1 .. MaxN : Call(p, k)
       \/ Acquire(p) \/ Write(p) \/ Read(p)
       \/ Close(p) \/ Kill(p)

Spec == Init /\ [][Next]_vars

\* A process awake comes to hold the lock, goes on and gives it up; one that is
\* killed closes its files (kexit).
FairSpec ==
    /\ Spec
    /\ \A p \in Procs :
          SF_vars(Acquire(p) \/ Write(p) \/ Read(p) \/ (Close(p) /\ p \in killed))

------------------------------------------------------------------------------
(* Properties *)

\* What is read is what was written, in order, without loss or duplication,
\* whichever readers and writers take part and when the counters wrap around.
Fifo ==
    /\ Count <= PIPESIZE
    /\ sent = got + Count
    /\ \A k \in 1 .. Count : data[(nread + k - 1) % PIPESIZE] = got + k

\* The page of the pipe is not touched after kfree: whoever is in a call, or asleep
\* in it, still has an end open.
NoUseAfterFree == freed => \A p \in Procs : pc[p] = "idle"

\* Whether p may sleep: a reader while the pipe is empty and open, a writer while
\* it is full and open.
MaySleep(p) == IF p \in Readers THEN Empty /\ writeopen ELSE Full /\ readopen

\* No one sleeps through the moment: when the lock is free, who is asleep may be.
\* On one CPU: a writer killed by another CPU between two bytes wakes no reader.
NoLostWakeup == ~SMP /\ lock = None => \A p \in asleep : MaySleep(p)

\* The counters follow the bytes written and read, and the buffer holds those that
\* are still to be read.
Counters ==
    /\ nread = got % Word /\ nwrite = sent % Word
    /\ got <= sent /\ sent <= got + PIPESIZE
    /\ \A k \in got .. sent - 1 : data[k % PIPESIZE] = k + 1

\* The lock is held by the process in the middle of a call, which is where its end
\* of the pipe lets it be, and who is in a call has its end open; a call starts at 0.
Locking ==
    /\ \A p \in Procs : lock = p <=> pc[p] \in {"wait", "read", "write"}
    /\ \A p \in Procs : pc[p] \in {"wait", "read"} => p \in Readers
    /\ \A p \in Procs : pc[p] = "write" => p \in Writers
    /\ \A p \in Procs : IF pc[p] = "idle" THEN i[p] = 0 ELSE p \in open

\* An end is closed when no process has it, the page is freed when both are.
Ends ==
    /\ ~readopen => open \cap Readers = {}
    /\ ~writeopen => open \cap Writers = {}
    /\ freed => ~readopen /\ ~writeopen

\* While the lock is held only the sleepers that its holder is going to wake may
\* sleep without a reason: for a writer that goes on the readers, for a reader past
\* its wait the writers.
HolderWakes ==
    \A p \in Procs :
       /\ pc[p] = "write" => \A q \in asleep : MaySleep(q) \/ (q \in Readers /\ readopen /\ p \notin killed)
       /\ pc[p] = "wait" => \A q \in asleep : MaySleep(q)
       /\ pc[p] = "read" => \A q \in asleep : q \in Writers /\ readopen

\* At every step of every call the counters and the buffer agree, the page is there,
\* and who sleeps has a reason to.
PipeInv ==
    /\ TypeOK /\ Fifo /\ NoUseAfterFree /\ NoLostWakeup
    /\ Counters /\ Locking /\ Ends /\ (~SMP => HolderWakes)

\* No call blocks for ever once the other end is closed: a writer on a full pipe
\* returns after the last reader closes, a reader on an empty one after the last
\* writer does.  A killed process gets out of its call and closes its ends.
BlockedReturn ==
    /\ \A p \in Writers : ~readopen /\ pc[p] # "idle" ~> pc[p] = "idle"
    /\ \A p \in Readers : ~writeopen /\ pc[p] # "idle" ~> pc[p] = "idle"
    /\ \A p \in Procs : p \in killed ~> p \notin open
==============================================================================
