-------------------------------- MODULE Proc --------------------------------
(***************************************************************************)
(* The process table of kernel/proc.c: fork, exit, wait, waitpid, kill,    *)
(* sleep and wakeup, and the scheduler's switches, on several CPUs.        *)
(*                                                                         *)
(* A step is the code from one acquire of a spinlock to the next.  Locks   *)
(* are held by CPUs, as lk->cpu says: wait_lock is lock 0 and p->lock is   *)
(* lock p.  A CPU runs the thread of process cpu[c], or its scheduler when *)
(* cpu[c] = 0.  The policy that picks a runnable process is left open      *)
(* here (module Eevdf has it); the locks the scheduler holds are not.      *)
(***************************************************************************)
EXTENDS Naturals, FiniteSets

CONSTANTS
    NPROC,         \* slots of the process table
    CPUs,
    None,          \* no CPU
    MaxPid,        \* bound on the pids given out
    KillPids,      \* arguments of kill
    WaitPids       \* arguments of waitpid

ASSUME ProcAssumption ==
    /\ NPROC \in Nat \ {0}
    /\ MaxPid \in Nat \ {0}
    /\ KillPids \subseteq Nat
    /\ WaitPids \subseteq Nat \ {0}
    /\ None \notin CPUs

VARIABLES
    state, pid, parent, killed, chan,   \* struct proc
    nextpid,
    lock,          \* the CPU that holds a lock
    cpu,           \* c->proc
    scan, best,    \* the scheduler loop of a CPU: next slot, best so far
    pc,            \* where the kernel thread of a process is
    idx,           \* its loop over the process table: next slot
    arg,           \* kill, waitpid: the pid looked for; wait: 0
    kids,          \* wait: a child was seen
    child          \* fork: the new process

table  == <<state, pid, parent, killed, chan, nextpid>>
sched  == <<cpu, scan, best>>
thread == <<pc, idx, arg, kids, child>>
vars   == <<table, lock, sched, thread>>

Slots     == 1 .. NPROC
initproc  == 1
wait_lock == 0

\* Where a thread takes the locks of the table one by one.
Scanning == {"alloc", "kill", "wait", "waitpid", "wake_init", "wake_parent"}

TypeOK ==
    /\ state \in [Slots -> {"UNUSED", "USED", "SLEEPING", "RUNNABLE", "RUNNING", "ZOMBIE"}]
    /\ pid \in [Slots -> 0 .. MaxPid]
    /\ parent \in [Slots -> 0 .. NPROC]
    /\ killed \in [Slots -> {0, 1}]
    /\ chan \in [Slots -> 0 .. NPROC]
    /\ nextpid \in 1 .. MaxPid + 1
    /\ lock \in [0 .. NPROC -> CPUs \cup {None}]
    /\ cpu \in [CPUs -> 0 .. NPROC]
    /\ scan \in [CPUs -> 1 .. NPROC + 1]
    /\ best \in [CPUs -> 0 .. NPROC]
    /\ pc \in [Slots -> Scanning \cup {"user", "fork_copy", "fork_parent", "fork_run",
                  "exit", "exit_lock", "sleep", "rewait", "sched"}]
    /\ idx \in [Slots -> 1 .. NPROC + 1]
    /\ arg \in [Slots -> Nat]
    /\ kids \in [Slots -> {0, 1}]
    /\ child \in [Slots -> 0 .. NPROC]

\* userinit: slot 1 is init, and runnable.
Init ==
    /\ state = [p \in Slots |-> IF p = initproc THEN "RUNNABLE" ELSE "UNUSED"]
    /\ pid = [p \in Slots |-> IF p = initproc THEN 1 ELSE 0]
    /\ parent = [p \in Slots |-> 0]
    /\ killed = [p \in Slots |-> 0]
    /\ chan = [p \in Slots |-> 0]
    /\ nextpid = 2
    /\ lock = [l \in 0 .. NPROC |-> None]
    /\ cpu = [c \in CPUs |-> 0]
    /\ scan = [c \in CPUs |-> 1]
    /\ best = [c \in CPUs |-> 0]
    /\ pc = [p \in Slots |-> "user"]
    /\ idx = [p \in Slots |-> 1]
    /\ arg = [p \in Slots |-> 0]
    /\ kids = [p \in Slots |-> 0]
    /\ child = [p \in Slots |-> 0]

Free(l) == lock[l] = None

HoldsNone(c) == \A l \in 0 .. NPROC : lock[l] # c

\* The thread of p is at label l, on CPU c.
At(c, p, l) == cpu[c] = p /\ pc[p] = l

Goto(p, l) == pc' = [pc EXCEPT ![p] = l]

\* Start a loop over the table at label l.
Loop(p, l) == Goto(p, l) /\ idx' = [idx EXCEPT ![p] = 1]

\* A system call returns; its local variables die.
Return(p) ==
    /\ Goto(p, "user")
    /\ idx' = [idx EXCEPT ![p] = 1]
    /\ arg' = [arg EXCEPT ![p] = 0]
    /\ kids' = [kids EXCEPT ![p] = 0]
    /\ child' = [child EXCEPT ![p] = 0]

\* A system call of p begins: usertrap has found it not killed.
Syscall(c, p) ==
    /\ At(c, p, "user")
    /\ Free(p)
    /\ killed[p] = 0

\* Mutant: p->killed is not cleared.
FreeprocKilled(i) ==
    /\ state' = [state EXCEPT ![i] = "UNUSED"]
    /\ pid' = [pid EXCEPT ![i] = 0]
    /\ parent' = [parent EXCEPT ![i] = 0]
    /\ killed' = killed
    /\ chan' = [chan EXCEPT ![i] = 0]
    /\ UNCHANGED nextpid

\* freeproc(i)
Freeproc(i) ==
    /\ state' = [state EXCEPT ![i] = "UNUSED"]
    /\ pid' = [pid EXCEPT ![i] = 0]
    /\ parent' = [parent EXCEPT ![i] = 0]
    /\ killed' = [killed EXCEPT ![i] = 0]
    /\ chan' = [chan EXCEPT ![i] = 0]
    /\ UNCHANGED nextpid

\* What wakeup and kkill do to a sleeper.
MakeRunnable(i) == state' = [state EXCEPT ![i] = "RUNNABLE"]

------------------------------------------------------------------------------
(* fork *)

Fork(c, p) ==
    /\ Syscall(c, p)
    /\ nextpid <= MaxPid
    /\ Loop(p, "alloc")
    /\ UNCHANGED <<table, lock, sched, arg, kids, child>>

\* allocproc: one slot.  It keeps the lock of the slot it takes.
AllocSlot(c, p) ==
    LET i == idx[p] IN
    /\ At(c, p, "alloc")
    /\ i <= NPROC
    /\ Free(i)
    /\ IF state[i] = "UNUSED" /\ nextpid <= MaxPid
         THEN /\ state' = [state EXCEPT ![i] = "USED"]
              /\ pid' = [pid EXCEPT ![i] = nextpid]
              /\ nextpid' = nextpid + 1
              /\ lock' = [lock EXCEPT ![i] = c]
              /\ child' = [child EXCEPT ![p] = i]
              /\ Loop(p, "fork_copy")
         ELSE /\ idx' = [idx EXCEPT ![p] = i + 1]
              /\ UNCHANGED <<state, pid, nextpid, lock, child, pc>>
    /\ UNCHANGED <<parent, killed, chan, sched, arg, kids>>

AllocNone(c, p) ==
    /\ At(c, p, "alloc")
    /\ idx[p] > NPROC
    /\ Return(p)
    /\ UNCHANGED <<table, lock, sched>>

\* No memory for the trapframe, the page table, the heap or the mappings.
ForkFail(c, p) ==
    /\ At(c, p, "fork_copy")
    /\ Freeproc(child[p])
    /\ lock' = [lock EXCEPT ![child[p]] = None]
    /\ Return(p)
    /\ UNCHANGED sched

\* Mutant: np->lock is kept while wait_lock is taken.
ForkCopiedLocked(c, p) ==
    /\ At(c, p, "fork_copy")
    /\ lock' = lock
    /\ Goto(p, "fork_parent")
    /\ UNCHANGED <<table, sched, idx, arg, kids, child>>

ForkCopied(c, p) ==
    /\ At(c, p, "fork_copy")
    /\ lock' = [lock EXCEPT ![child[p]] = None]
    /\ Goto(p, "fork_parent")
    /\ UNCHANGED <<table, sched, idx, arg, kids, child>>

ForkParent(c, p) ==
    /\ At(c, p, "fork_parent")
    /\ Free(wait_lock)
    /\ parent' = [parent EXCEPT ![child[p]] = p]
    /\ Goto(p, "fork_run")
    /\ UNCHANGED <<state, pid, killed, chan, nextpid, lock, sched, idx, arg, kids, child>>

ForkRun(c, p) ==
    /\ At(c, p, "fork_run")
    /\ Free(child[p])
    /\ state' = [state EXCEPT ![child[p]] = "RUNNABLE"]
    /\ Return(p)
    /\ UNCHANGED <<pid, parent, killed, chan, nextpid, lock, sched>>

------------------------------------------------------------------------------
(* exit *)

\* Mutant: usertrap does not look at p->killed.
ExitVoluntary(c, p) ==
    /\ At(c, p, "user")
    /\ p # initproc
    /\ killed[p] = 0
    /\ Goto(p, "exit")
    /\ UNCHANGED <<table, lock, sched, idx, arg, kids, child>>

\* kexit, called by the process or by usertrap when it is killed.  The panic
\* "init exiting" is not modelled: init does not exit.
Exit(c, p) ==
    /\ At(c, p, "user")
    /\ p # initproc
    /\ Goto(p, "exit")
    /\ UNCHANGED <<table, lock, sched, idx, arg, kids, child>>

\* reparent.  It wakes init once for each child it hands over; wait_lock is
\* held throughout and init can only sleep again with it, so once will do.
ExitReparent(c, p) ==
    /\ At(c, p, "exit")
    /\ Free(wait_lock)
    /\ lock' = [lock EXCEPT ![wait_lock] = c]
    /\ parent' = [i \in Slots |-> IF parent[i] = p THEN initproc ELSE parent[i]]
    /\ Loop(p, IF \E i \in Slots : parent[i] = p THEN "wake_init" ELSE "wake_parent")
    /\ UNCHANGED <<state, pid, killed, chan, nextpid, sched, arg, kids, child>>

\* Mutant: wakeup(p) instead of wakeup(p->parent).
WakeChanSelf(p) == IF pc[p] = "wake_init" THEN initproc ELSE p

\* The channel of the wakeup that p is in.
WakeChan(p) == IF pc[p] = "wake_init" THEN initproc ELSE parent[p]

\* wakeup: one slot.
WakeSlot(c, p) ==
    LET i == idx[p] IN
    /\ cpu[c] = p
    /\ pc[p] \in {"wake_init", "wake_parent"}
    /\ i <= NPROC
    /\ i # p => Free(i)
    /\ IF i # p /\ state[i] = "SLEEPING" /\ chan[i] = WakeChan(p)
         THEN MakeRunnable(i)
         ELSE UNCHANGED state
    /\ idx' = [idx EXCEPT ![p] = i + 1]
    /\ UNCHANGED <<pid, parent, killed, chan, nextpid, lock, sched, pc, arg, kids, child>>

WakeEnd(c, p) ==
    /\ cpu[c] = p
    /\ pc[p] \in {"wake_init", "wake_parent"}
    /\ idx[p] > NPROC
    /\ Loop(p, IF pc[p] = "wake_init" THEN "wake_parent" ELSE "exit_lock")
    /\ UNCHANGED <<table, lock, sched, arg, kids, child>>

ExitZombie(c, p) ==
    /\ At(c, p, "exit_lock")
    /\ Free(p)
    /\ state' = [state EXCEPT ![p] = "ZOMBIE"]
    /\ lock' = [lock EXCEPT ![p] = c, ![wait_lock] = None]
    /\ Goto(p, "sched")
    /\ UNCHANGED <<pid, parent, killed, chan, nextpid, sched, idx, arg, kids, child>>

------------------------------------------------------------------------------
(* wait and waitpid *)

Wait(c, p) ==
    /\ Syscall(c, p)
    /\ Free(wait_lock)
    /\ lock' = [lock EXCEPT ![wait_lock] = c]
    /\ \E w \in {0} \cup WaitPids :
         /\ arg' = [arg EXCEPT ![p] = w]
         /\ Loop(p, IF w = 0 THEN "wait" ELSE "waitpid")
    /\ kids' = [kids EXCEPT ![p] = 0]
    /\ UNCHANGED <<table, sched, child>>

\* The call returns and wait_lock is released.
WaitReturn(p) ==
    /\ lock' = [lock EXCEPT ![wait_lock] = None]
    /\ Return(p)

WaitNext(p, i, k) ==
    /\ idx' = [idx EXCEPT ![p] = i]
    /\ kids' = [kids EXCEPT ![p] = k]
    /\ UNCHANGED <<table, lock, pc, arg, child>>

\* kwait: one slot.
WaitSlot(c, p) ==
    LET i == idx[p] IN
    /\ At(c, p, "wait")
    /\ i <= NPROC
    /\ IF parent[i] # p
         THEN WaitNext(p, i + 1, kids[p])
         ELSE /\ Free(i)
              /\ IF state[i] = "ZOMBIE"
                   THEN WaitReturn(p) /\ Freeproc(i)
                   ELSE WaitNext(p, i + 1, 1)
    /\ UNCHANGED sched

\* The copyout of the status fails: the zombie stays.  init gives wait no
\* address (user/init.c).
WaitCopyFail(c, p) ==
    LET i == idx[p] IN
    /\ At(c, p, "wait")
    /\ p # initproc
    /\ i <= NPROC
    /\ parent[i] = p /\ Free(i) /\ state[i] = "ZOMBIE"
    /\ WaitReturn(p)
    /\ UNCHANGED <<table, sched>>

\* kwaitpid: one slot.
WaitpidSlot(c, p) ==
    LET i == idx[p] IN
    /\ At(c, p, "waitpid")
    /\ i <= NPROC
    /\ Free(i)
    /\ IF state[i] = "UNUSED" \/ pid[i] # arg[p] THEN WaitNext(p, i + 1, kids[p])
       ELSE IF parent[i] # p THEN WaitReturn(p) /\ UNCHANGED table
       ELSE IF state[i] = "ZOMBIE" THEN WaitReturn(p) /\ Freeproc(i)
       ELSE WaitNext(p, NPROC + 1, 1)
    /\ UNCHANGED sched

\* Nothing to wait for, or killed.
WaitGiveUp(c, p) ==
    /\ cpu[c] = p
    /\ pc[p] \in {"wait", "waitpid"}
    /\ idx[p] > NPROC
    /\ kids[p] = 0 \/ (Free(p) /\ killed[p] = 1)
    /\ WaitReturn(p)
    /\ UNCHANGED <<table, sched>>

\* Mutant: wait_lock is released before sleep takes p->lock.
WaitSleepEarly(c, p) ==
    /\ cpu[c] = p
    /\ pc[p] \in {"wait", "waitpid"}
    /\ idx[p] > NPROC
    /\ kids[p] = 1 /\ Free(p) /\ killed[p] = 0
    /\ Loop(p, "sleep")
    /\ kids' = [kids EXCEPT ![p] = 0]
    /\ lock' = [lock EXCEPT ![wait_lock] = None]
    /\ UNCHANGED <<table, sched, arg, child>>

WaitSleep(c, p) ==
    /\ cpu[c] = p
    /\ pc[p] \in {"wait", "waitpid"}
    /\ idx[p] > NPROC
    /\ kids[p] = 1 /\ Free(p) /\ killed[p] = 0
    /\ Loop(p, "sleep")
    /\ kids' = [kids EXCEPT ![p] = 0]
    /\ UNCHANGED <<table, lock, sched, arg, child>>

\* Mutant: sleep releases its locks before it switches.
SleepUnlocked(c, p) ==
    /\ At(c, p, "sleep")
    /\ Free(p)
    /\ lock' = [lock EXCEPT ![p] = None, ![wait_lock] = None]
    /\ chan' = [chan EXCEPT ![p] = p]
    /\ state' = [state EXCEPT ![p] = "SLEEPING"]
    /\ Goto(p, "sched")
    /\ UNCHANGED <<pid, parent, killed, nextpid, sched, idx, arg, kids, child>>

\* sleep(p, &wait_lock)
Sleep(c, p) ==
    /\ At(c, p, "sleep")
    /\ Free(p)
    /\ lock' = [lock EXCEPT ![p] = c, ![wait_lock] = None]
    /\ chan' = [chan EXCEPT ![p] = p]
    /\ state' = [state EXCEPT ![p] = "SLEEPING"]
    /\ Goto(p, "sched")
    /\ UNCHANGED <<pid, parent, killed, nextpid, sched, idx, arg, kids, child>>

\* sleep returns with wait_lock and the table is scanned again.
Rewait(c, p) ==
    /\ At(c, p, "rewait")
    /\ Free(wait_lock)
    /\ lock' = [lock EXCEPT ![wait_lock] = c]
    /\ Loop(p, IF arg[p] = 0 THEN "wait" ELSE "waitpid")
    /\ UNCHANGED <<table, sched, arg, kids, child>>

------------------------------------------------------------------------------
(* kill *)

Kill(c, p) ==
    /\ Syscall(c, p)
    /\ \E k \in KillPids : arg' = [arg EXCEPT ![p] = k]
    /\ Loop(p, "kill")
    /\ UNCHANGED <<table, lock, sched, kids, child>>

\* kkill: one slot.
KillSlot(c, p) ==
    LET i == idx[p] IN
    /\ At(c, p, "kill")
    /\ i <= NPROC
    /\ Free(i)
    /\ IF pid[i] = arg[p]
         THEN /\ killed' = [killed EXCEPT ![i] = 1]
              /\ IF state[i] = "SLEEPING" THEN MakeRunnable(i) ELSE UNCHANGED state
              /\ Return(p)
         ELSE /\ idx' = [idx EXCEPT ![p] = i + 1]
              /\ UNCHANGED <<killed, state, pc, arg, kids, child>>
    /\ UNCHANGED <<pid, parent, chan, nextpid, lock, sched>>

KillNone(c, p) ==
    /\ At(c, p, "kill")
    /\ idx[p] > NPROC
    /\ Return(p)
    /\ UNCHANGED <<table, lock, sched>>

------------------------------------------------------------------------------
(* The scheduler *)

\* scheduler: one slot.  The best process so far stays locked while the rest of
\* the table is locked slot by slot.  Whether p is eligible, and its deadline
\* earlier than the best one's, is left open.
SchedSlot(c) ==
    LET i == scan[c] IN
    /\ cpu[c] = 0
    /\ i <= NPROC
    /\ Free(i)
    /\ \/ UNCHANGED <<best, lock>>
       \/ /\ state[i] = "RUNNABLE"
          /\ best' = [best EXCEPT ![c] = i]
          /\ lock' = [l \in 0 .. NPROC |-> IF l = i THEN c
                                           ELSE IF l # 0 /\ l = best[c] THEN None ELSE lock[l]]
    /\ scan' = [scan EXCEPT ![c] = i + 1]
    /\ UNCHANGED <<table, cpu, thread>>

SchedNone(c) ==
    /\ cpu[c] = 0
    /\ scan[c] > NPROC
    /\ best[c] = 0
    /\ scan' = [scan EXCEPT ![c] = 1]
    /\ UNCHANGED <<table, lock, cpu, best, thread>>

\* swtch to the best process, which releases its own lock (in forkret, yield
\* or sleep).
Dispatch(c) ==
    LET p == best[c] IN
    /\ cpu[c] = 0
    /\ scan[c] > NPROC
    /\ p # 0
    /\ state' = [state EXCEPT ![p] = "RUNNING"]
    /\ chan' = [chan EXCEPT ![p] = 0]
    /\ cpu' = [cpu EXCEPT ![c] = p]
    /\ lock' = [lock EXCEPT ![p] = None]
    /\ best' = [best EXCEPT ![c] = 0]
    /\ scan' = [scan EXCEPT ![c] = 1]
    /\ UNCHANGED <<pid, parent, killed, nextpid, thread>>

\* sched: swtch to the CPU's scheduler, which releases p->lock.  A sleeper will
\* go on in sleep; the thread of a zombie is gone.
SwitchOut(c, p) ==
    /\ At(c, p, "sched")
    /\ cpu' = [cpu EXCEPT ![c] = 0]
    /\ lock' = [lock EXCEPT ![p] = None]
    /\ IF state[p] = "SLEEPING"
         THEN Goto(p, "rewait") /\ UNCHANGED <<idx, arg, kids, child>>
         ELSE Return(p)
    /\ UNCHANGED <<table, scan, best>>

\* A timer interrupt, with interrupts on, at the end of a slice.
Yield(c, p) ==
    /\ cpu[c] = p
    /\ HoldsNone(c)
    /\ Free(p)
    /\ state' = [state EXCEPT ![p] = "RUNNABLE"]
    /\ cpu' = [cpu EXCEPT ![c] = 0]
    /\ UNCHANGED <<pid, parent, killed, chan, nextpid, lock, scan, best, thread>>

------------------------------------------------------------------------------
Forking(c, p) ==
    \/ AllocSlot(c, p) \/ AllocNone(c, p) \/ ForkFail(c, p)
    \/ ForkCopied(c, p) \/ ForkParent(c, p) \/ ForkRun(c, p)

Exiting(c, p) ==
    ExitReparent(c, p) \/ WakeSlot(c, p) \/ WakeEnd(c, p) \/ ExitZombie(c, p)

Waiting(c, p) ==
    \/ WaitSlot(c, p) \/ WaitCopyFail(c, p) \/ WaitpidSlot(c, p) \/ WaitGiveUp(c, p)
    \/ WaitSleep(c, p) \/ Sleep(c, p) \/ Rewait(c, p)

Killing(c, p) == KillSlot(c, p) \/ KillNone(c, p)

\* The kernel code of the thread of p.
Thread(c, p) ==
    Forking(c, p) \/ Exiting(c, p) \/ Waiting(c, p) \/ Killing(c, p) \/ SwitchOut(c, p)

Scheduler(c) == SchedSlot(c) \/ SchedNone(c) \/ Dispatch(c)

Next ==
    \E c \in CPUs :
       \/ Scheduler(c)
       \/ \E p \in Slots : \/ Fork(c, p) \/ Exit(c, p) \/ Wait(c, p) \/ Kill(c, p)
                           \/ Thread(c, p)
                           \/ Yield(c, p)

Spec == Init /\ [][Next]_vars

\* Fairness: a CPU goes on with what it runs; no runnable process waits for ever
\* (Eevdf!NoStarvation); a slice is long enough for a thread to make a step; init
\* calls wait again and again (user/init.c), and a killed process traps.
Fairness ==
    /\ \A c \in CPUs : WF_vars(Scheduler(c))
    /\ \A p \in Slots : []<>(state[p] # "RUNNABLE")
    /\ \A p \in Slots : SF_vars(\E c \in CPUs : Thread(c, p))
    /\ \A p \in Slots : SF_vars(\E c \in CPUs : killed[p] = 1 /\ Exit(c, p))
    /\ SF_vars(\E c \in CPUs : Wait(c, initproc))

FairSpec == Spec /\ Fairness

------------------------------------------------------------------------------
(* Properties *)

Alive == {"SLEEPING", "RUNNABLE", "RUNNING"}

\* A kernel stack is used by one CPU: a process is on at most one CPU, a running
\* one is on one, and one that has given up its CPU (sched) keeps p->lock until
\* it is off its stack, so that nobody runs it elsewhere or frees it.
StackExclusive ==
    /\ \A c, d \in CPUs : cpu[c] # 0 /\ cpu[c] = cpu[d] => c = d
    /\ \A p \in Slots : state[p] = "RUNNING" => \E c \in CPUs : cpu[c] = p
    /\ \A c \in CPUs : cpu[c] # 0 =>
          \/ state[cpu[c]] = "RUNNING"
          \/ state[cpu[c]] \in {"SLEEPING", "ZOMBIE"} /\ lock[cpu[c]] = c

\* The parent p waits for the child i.
WaitsFor(p, i) == parent[i] = p /\ arg[p] \in {0, pid[i]}

\* kexit wakes the parent before it becomes a zombie, and kwait scans the table
\* before it sleeps; wait_lock keeps the two apart.  While nobody holds it, no
\* process sleeps in wait or waitpid with a zombie to collect.
NoLostExit ==
    Free(wait_lock) =>
       \A p, i \in Slots :
          state[p] = "SLEEPING" /\ WaitsFor(p, i) => state[i] # "ZOMBIE"

\* Every process but init has a parent that is alive to wait for it, whichever
\* of them exits first (reparent).
OrphansAdopted ==
    Free(wait_lock) =>
       \A i \in Slots \ {initproc} :
          state[i] \in Alive \cup {"ZOMBIE"} =>
             parent[i] # 0 /\ state[parent[i]] \in Alive

\* The labels between an acquire of wait_lock and its release.
WaitLocked == {"wake_init", "wake_parent", "exit_lock", "wait", "waitpid", "sleep"}

\* Where the code that CPU c runs says that c holds lock l.
Holds(c, l) ==
    LET p == cpu[c] IN
    IF p = 0 THEN l # 0 /\ l = best[c]
    ELSE \/ l = wait_lock /\ pc[p] \in WaitLocked
         \/ l = child[p] /\ pc[p] = "fork_copy"
         \/ l = p /\ pc[p] = "sched"

\* A CPU holds the locks it should and no other, no thread gives up its CPU with
\* one, and a scheduler keeps its choice runnable and looks only at later slots.
Locking ==
    /\ \A c \in CPUs, l \in 0 .. NPROC : lock[l] = c <=> Holds(c, l)
    /\ \A p \in Slots : pc[p] \in WaitLocked \cup {"fork_copy", "sched"} => \E c \in CPUs : cpu[c] = p
    /\ \A c \in CPUs : best[c] # 0 => cpu[c] = 0 /\ best[c] < scan[c] /\ state[best[c]] = "RUNNABLE"

\* What the state says of a thread: it runs, or is leaving its CPU.
Threads ==
    /\ \A c \in CPUs : cpu[c] # 0 =>
          state[cpu[c]] \in IF pc[cpu[c]] = "sched" THEN {"SLEEPING", "ZOMBIE"} ELSE {"RUNNING"}
    /\ \A p \in Slots : state[p] = "SLEEPING" => chan[p] = p

\* Pids are not given out twice, and a free slot has none.
Pids ==
    /\ \A i \in Slots : pid[i] < nextpid /\ (state[i] = "UNUSED" => pid[i] = 0)
    /\ \A i, j \in Slots : pid[i] = pid[j] /\ pid[i] # 0 => i = j

\* A process under construction belongs to one fork.
Forks ==
    /\ \A p \in Slots : pc[p] \in {"fork_copy", "fork_parent", "fork_run"} =>
          /\ child[p] \in Slots /\ state[child[p]] = "USED"
          /\ pc[p] = "fork_run" => parent[child[p]] = p
          /\ \A q \in Slots \ {p} :
                pc[q] \in {"fork_copy", "fork_parent", "fork_run"} => child[q] # child[p]

\* init does not exit; an exiting process has no children left; every process has
\* a living parent, also while wait_lock is held.
Parents ==
    /\ state[initproc] \in Alive
    /\ \A p \in Slots :
          /\ pc[p] \in {"exit", "wake_init", "wake_parent", "exit_lock"} => p # initproc
          /\ pc[p] \in {"wake_init", "wake_parent", "exit_lock"} => \A i \in Slots : parent[i] # p
    /\ \A i \in Slots \ {initproc} :
          state[i] \in Alive \cup {"ZOMBIE"} => parent[i] # 0 /\ state[parent[i]] \in Alive

\* How far a wait, and a wakeup in kexit, have come: a waiting process has no zombie
\* among the slots it has passed, an exiting one has woken its parent, and the one
\* zombie that a sleeper may have is one that init is about to be woken for.
Waiters ==
    /\ \A p \in Slots :
          /\ pc[p] = "waitpid" => arg[p] # 0
          /\ pc[p] \in {"wait", "waitpid", "sleep"} =>
                \A i \in Slots : (i < idx[p] \/ pc[p] = "sleep") /\ WaitsFor(p, i) => state[i] # "ZOMBIE"
          /\ pc[p] = "exit_lock" \/ (pc[p] = "wake_parent" /\ parent[p] < idx[p]) =>
                state[parent[p]] # "SLEEPING"
    /\ \A p, i \in Slots :
          state[p] = "SLEEPING" /\ WaitsFor(p, i) /\ state[i] = "ZOMBIE" =>
             p = initproc /\ \E q \in Slots : pc[q] = "wake_init" /\ idx[q] <= initproc

\* The table is well formed, what p->lock protects across swtch is exclusive, locks
\* are held where the code says, and every process has someone to wait for it.
ProcInv ==
    /\ TypeOK /\ StackExclusive /\ OrphansAdopted
    /\ Locking /\ Threads /\ Pids /\ Forks /\ Parents /\ Waiters

\* kkill marks the process with the given pid and no other, also when slots are
\* freed and reused while it scans the table.
KillHitsTarget == \A i \in Slots : killed[i] = 1 => pid[i] \in KillPids

\* The lock that CPU c spins for in its next step, if any.
Wants(c) ==
    LET p == cpu[c] IN
    IF p = 0 THEN {scan[c]} \cap Slots
    ELSE CASE pc[p] \in {"fork_parent", "exit", "rewait"} -> {wait_lock}
           [] pc[p] = "fork_run" -> {child[p]}
           [] pc[p] \in {"exit_lock", "sleep"} -> {p}
           [] pc[p] \in {"wake_init", "wake_parent"} -> ({idx[p]} \cap Slots) \ {p}
           [] pc[p] = "wait" -> {i \in {idx[p]} \cap Slots : parent[i] = p}
           [] pc[p] \in {"alloc", "kill", "waitpid"} -> {idx[p]} \cap Slots
           [] OTHER -> {}

\* Spinlocks never deadlock: in no set of CPUs does each spin for a lock that
\* one of the set holds, although the scheduler, kexit and kwait hold a lock
\* while they take others.
NoSpinDeadlock ==
    \A S \in (SUBSET CPUs) \ {{}} :
       \E c \in S : \A l \in Wants(c) : lock[l] \notin S

\* A killed process exits: kkill wakes it, wait gives up, usertrap calls kexit.
KilledExits ==
    \A p \in Slots \ {initproc} : killed[p] = 1 ~> state[p] \in {"ZOMBIE", "UNUSED"}

\* A zombie that init has, its own child or one it adopted, is collected.
OrphansReaped ==
    \A i \in Slots : state[i] = "ZOMBIE" /\ parent[i] = initproc ~> state[i] = "UNUSED"
==============================================================================
