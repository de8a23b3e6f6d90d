----------------------------- MODULE ProcProofs -----------------------------
(***************************************************************************)
(* The process table keeps ProcInv, no exit is missed by a sleeping        *)
(* parent, kill marks only its target and spinlocks never deadlock, for    *)
(* any number of processes and CPUs.                                       *)
(***************************************************************************)
EXTENDS Proc, Integers, TLAPS

\* StackExclusive without what Locking and Threads say.
OnCpu ==
    /\ \A c, d \in CPUs : cpu[c] # 0 /\ cpu[c] = cpu[d] => c = d
    /\ \A p \in Slots : state[p] = "RUNNING" => \E c \in CPUs : cpu[c] = p

\* KillHitsTarget with what a kill looks for.
Marks ==
    /\ \A p \in Slots : pc[p] = "kill" => arg[p] \in KillPids
    /\ 0 \notin KillPids => KillHitsTarget

Inductive ==
    TypeOK /\ OnCpu /\ Locking /\ Threads /\ Pids /\ Forks /\ Parents /\ Waiters /\ Marks

------------------------------------------------------------------------------
(* Types *)

Labels == Scanning \cup {"user", "fork_copy", "fork_parent", "fork_run",
                         "exit", "exit_lock", "sleep", "rewait", "sched"}

States == {"UNUSED", "USED", "SLEEPING", "RUNNABLE", "RUNNING", "ZOMBIE"}

TableType ==
    /\ state \in [Slots -> States] /\ pid \in [Slots -> 0 .. MaxPid]
    /\ parent \in [Slots -> 0 .. NPROC] /\ killed \in [Slots -> {0, 1}]
    /\ chan \in [Slots -> 0 .. NPROC] /\ nextpid \in 1 .. MaxPid + 1

LockType == lock \in [0 .. NPROC -> CPUs \cup {None}]

SchedType ==
    /\ cpu \in [CPUs -> 0 .. NPROC] /\ scan \in [CPUs -> 1 .. NPROC + 1]
    /\ best \in [CPUs -> 0 .. NPROC]

ThreadType ==
    /\ pc \in [Slots -> Labels] /\ idx \in [Slots -> 1 .. NPROC + 1]
    /\ arg \in [Slots -> Nat] /\ kids \in [Slots -> {0, 1}] /\ child \in [Slots -> 0 .. NPROC]

LEMMA TypeSplit == TypeOK <=> TableType /\ LockType /\ SchedType /\ ThreadType
BY Zenon DEF TypeOK, TableType, LockType, SchedType, ThreadType, Labels, States

LEMMA TypeSplitNext == TypeOK' <=> TableType' /\ LockType' /\ SchedType' /\ ThreadType'
BY Zenon DEF TypeOK, TableType, LockType, SchedType, ThreadType, Labels, States

LEMMA Numbers ==
    /\ NPROC \in Nat /\ NPROC >= 1 /\ MaxPid \in Nat /\ Slots \subseteq Nat
    /\ initproc = 1 /\ initproc \in Slots /\ wait_lock = 0 /\ 0 \notin Slots
    /\ 0 \in 0 .. NPROC /\ Slots \subseteq 0 .. NPROC /\ None \notin CPUs
    /\ \A l \in 0 .. NPROC : l # 0 => l \in Slots
BY ProcAssumption DEF Slots, initproc, wait_lock

\* A step of the thread of p leaves the other threads alone.
Only(p) ==
    \A q \in Slots \ {p} : pc'[q] = pc[q] /\ idx'[q] = idx[q] /\ arg'[q] = arg[q] /\ child'[q] = child[q]

LEMMA GotoIs ==
    ASSUME ThreadType, NEW p \in Slots, NEW l \in Labels, Goto(p, l), UNCHANGED <<idx, arg, kids, child>>
    PROVE  ThreadType' /\ pc'[p] = l /\ idx'[p] = idx[p] /\ Only(p)
BY Zenon DEF ThreadType, Goto, Only

LEMMA LoopIs ==
    ASSUME ThreadType, NEW p \in Slots, NEW l \in Labels, Loop(p, l), UNCHANGED <<arg, kids, child>>
    PROVE  ThreadType' /\ pc'[p] = l /\ idx'[p] = 1 /\ Only(p)
<1>1. 1 \in 1 .. NPROC + 1
  BY Numbers
<1> QED
  BY <1>1, Zenon DEF ThreadType, Goto, Loop, Only

LEMMA ReturnIs ==
    ASSUME ThreadType, NEW p \in Slots, Return(p)
    PROVE  ThreadType' /\ pc'[p] = "user" /\ Only(p)
<1>1. 1 \in 1 .. NPROC + 1 /\ 0 \in 0 .. NPROC /\ 0 \in Nat /\ "user" \in Labels
  BY Numbers DEF Labels
<1> QED
  BY <1>1, Zenon DEF ThreadType, Goto, Return, Only

\* What freeproc leaves alone.
LEMMA FreeprocIs ==
    ASSUME TableType, NEW i \in Slots, Freeproc(i)
    PROVE  /\ TableType' /\ nextpid' = nextpid
           /\ state'[i] = "UNUSED" /\ pid'[i] = 0 /\ parent'[i] = 0 /\ killed'[i] = 0
           /\ \A j \in Slots \ {i} : /\ state'[j] = state[j] /\ pid'[j] = pid[j] /\ parent'[j] = parent[j]
                                     /\ killed'[j] = killed[j] /\ chan'[j] = chan[j]
<1>1. 0 \in 0 .. MaxPid /\ 0 \in 0 .. NPROC /\ "UNUSED" \in States
  BY Numbers DEF States
<1> QED
  BY <1>1, Zenon DEF TableType, Freeproc

------------------------------------------------------------------------------
(* What a step must respect for each part of the invariant *)

ForkLabels == {"fork_copy", "fork_parent", "fork_run"}
ExitLabels == {"wake_init", "wake_parent", "exit_lock"}
WaitLabels == {"wait", "waitpid", "sleep"}

\* The part of Waiters that is about the thread of p.
WaitOK(p) ==
    /\ pc[p] = "waitpid" => arg[p] # 0
    /\ pc[p] \in WaitLabels =>
          \A i \in Slots : (i < idx[p] \/ pc[p] = "sleep") /\ WaitsFor(p, i) => state[i] # "ZOMBIE"
    /\ pc[p] = "exit_lock" \/ (pc[p] = "wake_parent" /\ parent[p] < idx[p]) =>
          state[parent[p]] # "SLEEPING"

\* A zombie that its sleeping parent p has not been woken for.
Missed(p, i) == state[p] = "SLEEPING" /\ WaitsFor(p, i) /\ state[i] = "ZOMBIE"

WakingInit == \E q \in Slots : pc[q] = "wake_init" /\ idx[q] <= initproc

LEMMA WaitersIs ==
    Waiters <=> /\ \A p \in Slots : WaitOK(p)
                /\ \A p, i \in Slots : Missed(p, i) => p = initproc /\ WakingInit
BY Zenon DEF Waiters, WaitOK, WaitLabels, Missed, WakingInit

LEMMA WaitersNext ==
    Waiters' <=> /\ \A p \in Slots : WaitOK(p)'
                 /\ \A p, i \in Slots : Missed(p, i)' => p = initproc /\ WakingInit'
BY Zenon DEF Waiters, WaitOK, WaitLabels, Missed, WakingInit, initproc

LEMMA IdxType ==
    ASSUME Inductive, NEW p \in Slots
    PROVE  idx[p] \in 1 .. NPROC + 1 /\ idx[p] \in Nat /\ 1 <= idx[p]
<1>1. ThreadType
  BY TypeSplit, Zenon DEF Inductive
<1>2. idx[p] \in 1 .. NPROC + 1
  BY <1>1, Zenon DEF ThreadType
<1> QED
  BY <1>2, Numbers

LEMMA Before == \A i, j \in Slots : j < i + 1 => j < i \/ j = i
BY Numbers DEF Slots

LEMMA Running ==
    ASSUME Inductive, NEW c \in CPUs, NEW p \in Slots, cpu[c] = p, pc[p] # "sched"
    PROVE  state[p] = "RUNNING"
BY Numbers, Zenon DEF Inductive, Threads

\* The thread of a lock's owner is on a CPU, and wait_lock has one owner.
LEMMA LockOwner ==
    ASSUME Inductive, NEW p \in Slots, pc[p] \in WaitLocked \cup {"fork_copy", "sched"}
    PROVE  /\ state[p] \in {"RUNNING", "SLEEPING", "ZOMBIE"} /\ (pc[p] # "sched" => state[p] = "RUNNING")
           /\ \E c \in CPUs : cpu[c] = p /\ (pc[p] \in WaitLocked => lock[0] = c)
<1>1. PICK c \in CPUs : cpu[c] = p
  BY Zenon DEF Inductive, Locking
<1>2. state[p] \in {"RUNNING", "SLEEPING", "ZOMBIE"} /\ (pc[p] # "sched" => state[p] = "RUNNING")
  BY <1>1, Numbers, Zenon DEF Inductive, Threads
<1>3. pc[p] \in WaitLocked => lock[0] = c
  BY <1>1, Numbers, Zenon DEF Inductive, Locking, Holds
<1> QED
  BY <1>1, <1>2, <1>3, Zenon

LEMMA WaitLockOnce ==
    ASSUME Inductive, NEW p \in Slots, pc[p] \in WaitLocked
    PROVE  lock[0] # None /\ \A q \in Slots : pc[q] \in WaitLocked => q = p
<1>1. PICK c \in CPUs : cpu[c] = p /\ lock[0] = c
  BY LockOwner
<1>2. ASSUME NEW q \in Slots, pc[q] \in WaitLocked PROVE q = p
  <2>1. PICK d \in CPUs : cpu[d] = q /\ lock[0] = d
    BY <1>2, LockOwner
  <2> QED
    BY <1>1, <2>1, Zenon
<1> QED
  BY <1>1, <1>2, Numbers, Zenon

LEMMA HasParent ==
    ASSUME Inductive, NEW p \in Slots, pc[p] \in ExitLabels
    PROVE  parent[p] \in Slots /\ p # initproc /\ state[p] = "RUNNING"
<1>1. pc[p] \in WaitLocked /\ pc[p] # "sched"
  BY Zenon DEF ExitLabels, WaitLocked
<1>2. state[p] = "RUNNING"
  BY <1>1, LockOwner, Zenon
<1>3. p # initproc
  BY Zenon DEF Inductive, Parents, ExitLabels
<1>4. parent[p] # 0
  BY <1>2, <1>3, Zenon DEF Inductive, Parents, Alive
<1>5. parent[p] \in 0 .. NPROC
  BY Zenon DEF Inductive, TypeOK
<1> QED
  BY <1>2, <1>3, <1>4, <1>5, Numbers, Zenon

LEMMA PidsKept ==
    ASSUME Inductive, UNCHANGED <<pid, nextpid>>, \A i \in Slots : state'[i] = "UNUSED" => state[i] = "UNUSED"
    PROVE  Pids'
BY Zenon DEF Inductive, Pids, Slots

LEMMA PidsFreed ==
    ASSUME TableType, Pids, NEW i \in Slots, Freeproc(i)
    PROVE  Pids'
<1>1. /\ nextpid' = nextpid /\ pid'[i] = 0
      /\ \A j \in Slots \ {i} : state'[j] = state[j] /\ pid'[j] = pid[j]
  BY FreeprocIs, Zenon
<1>2. nextpid \in Nat /\ 0 < nextpid
  BY Numbers DEF TableType
<1> QED
  BY <1>1, <1>2 DEF Pids, Slots

LEMMA ForksKept ==
    ASSUME Inductive,
           \A q \in Slots : pc'[q] \in ForkLabels =>
              /\ pc[q] \in ForkLabels /\ child'[q] = child[q] /\ state'[child[q]] = "USED"
              /\ pc'[q] = "fork_run" => parent'[child[q]] = q
    PROVE  Forks'
BY DEF Inductive, Forks, ForkLabels, Slots

LEMMA ParentsKept ==
    ASSUME Inductive, UNCHANGED parent,
           \A q \in Slots : pc'[q] = "exit" => q # initproc,
           \A q \in Slots : pc'[q] \in ExitLabels => pc[q] \in ExitLabels,
           \A i \in Slots : state[i] \in Alive =>
              state'[i] \in Alive \/ (i # initproc /\ \A j \in Slots : parent[j] # i),
           \A i \in Slots : state'[i] \in Alive \cup {"ZOMBIE"} =>
              state[i] \in Alive \cup {"ZOMBIE"} \/ (parent[i] # 0 /\ state[parent[i]] \in Alive)
    PROVE  Parents'
<1>1. \A i \in Slots : parent[i] # 0 => parent[i] \in Slots
  BY Numbers, Zenon DEF Inductive, TypeOK
<1>2. state'[initproc] \in Alive
  BY Numbers, Zenon DEF Inductive, Parents
<1>3. \A p \in Slots :
         /\ pc'[p] \in {"exit", "wake_init", "wake_parent", "exit_lock"} => p # initproc
         /\ pc'[p] \in {"wake_init", "wake_parent", "exit_lock"} => \A i \in Slots : parent'[i] # p
  BY Zenon DEF Inductive, Parents, ExitLabels
<1>4. \A i \in Slots \ {initproc} :
         state'[i] \in Alive \cup {"ZOMBIE"} => parent'[i] # 0 /\ state'[parent'[i]] \in Alive
  <2> SUFFICES ASSUME NEW i \in Slots \ {initproc}, state'[i] \in Alive \cup {"ZOMBIE"}
               PROVE  parent'[i] # 0 /\ state'[parent'[i]] \in Alive
    BY Zenon
  <2>1. parent[i] # 0 /\ state[parent[i]] \in Alive
    BY Zenon DEF Inductive, Parents
  <2> QED
    BY <1>1, <2>1, Zenon
<1> QED
  BY <1>2, <1>3, <1>4, Zenon DEF Parents, initproc

LEMMA MarksKept ==
    ASSUME Inductive,
           \A q \in Slots : pc'[q] = "kill" => arg'[q] \in KillPids,
           \A i \in Slots : killed'[i] = 1 => killed[i] = 1 /\ pid'[i] = pid[i]
    PROVE  Marks'
BY Zenon DEF Inductive, Marks, KillHitsTarget, Slots

\* The thread of q stands where it stood, in so far as Waiters looks at it.
SameWait(q) ==
    pc'[q] \in WaitLabels \cup {"exit_lock", "wake_parent"} =>
       pc'[q] = pc[q] /\ idx'[q] = idx[q] /\ arg'[q] = arg[q] /\ parent'[q] = parent[q]

LEMMA WaitersKept ==
    ASSUME Inductive,
           \A i \in Slots : state'[i] = "ZOMBIE" => state[i] = "ZOMBIE" /\ parent'[i] = parent[i] /\ pid'[i] = pid[i],
           \A i \in Slots : state'[i] = "SLEEPING" => state[i] = "SLEEPING" /\ arg'[i] = arg[i],
           \A q \in Slots : SameWait(q) \/ WaitOK(q)',
           WakingInit => WakingInit' \/ state'[initproc] # "SLEEPING"
    PROVE  Waiters'
<1>1. ASSUME NEW q \in Slots, SameWait(q) PROVE WaitOK(q)'
  <2>1. WaitOK(q)
    BY WaitersIs, Zenon DEF Inductive
  <2>2. pc[q] \in ExitLabels => parent[q] \in Slots
    BY HasParent, Zenon
  <2> QED
    BY <1>1, <2>1, <2>2 DEF SameWait, WaitOK, WaitLabels, ExitLabels, WaitsFor
<1>2. ASSUME NEW p \in Slots, NEW i \in Slots, Missed(p, i)' PROVE p = initproc /\ WakingInit'
  <2>1. Missed(p, i)
    BY <1>2, Zenon DEF Missed, WaitsFor
  <2> QED
    BY <1>2, <2>1, WaitersIs, Zenon DEF Inductive, Missed
<1> QED
  BY <1>1, <1>2, WaitersNext, Zenon

\* Whom the scheduler may run, and the locks: a step of the thread of p on CPU c that
\* does not change who is on a CPU.
LEMMA ControlKept ==
    ASSUME Inductive, NEW c \in CPUs, NEW p \in Slots, cpu[c] = p, UNCHANGED <<cpu, best, scan>>,
           pc[p] # "sched", pc'[p] # "sched", Only(p),
           \A d \in CPUs : cpu[d] # 0 => state'[cpu[d]] = state[cpu[d]],
           \A q \in Slots : state'[q] = "RUNNING" => state[q] = "RUNNING",
           \A q \in Slots : state[q] = "RUNNABLE" => state'[q] = "RUNNABLE",
           \A q \in Slots : state'[q] = "SLEEPING" => state[q] = "SLEEPING" /\ chan'[q] = chan[q],
           \A d \in CPUs \ {c}, l \in 0 .. NPROC : lock'[l] = d <=> lock[l] = d,
           \A l \in 0 .. NPROC : lock'[l] = c <=> Holds(c, l)'
    PROVE  OnCpu' /\ Threads' /\ Locking'
<1>1. /\ \A d \in CPUs : cpu[d] \in 0 .. NPROC /\ best[d] \in 0 .. NPROC
      /\ \A d \in CPUs : cpu[d] # 0 => cpu[d] \in Slots
      /\ \A d \in CPUs : best[d] # 0 => best[d] \in Slots
  BY Numbers, ZenonT(30) DEF Inductive, TypeOK
<1>2. \A d \in CPUs \ {c} : cpu[d] # p
  BY Numbers DEF Inductive, OnCpu
<1>3. OnCpu'
  BY DEF Inductive, OnCpu
<1>4. Threads'
  BY <1>1, <1>2 DEF Inductive, Threads, Only
<1>5. \A d \in CPUs \ {c}, l \in 0 .. NPROC : Holds(d, l)' <=> Holds(d, l)
  BY <1>1, <1>2 DEF Holds, Only, wait_lock
<1>6. \A d \in CPUs, l \in 0 .. NPROC : lock'[l] = d <=> Holds(d, l)'
  BY <1>5 DEF Inductive, Locking
<1>7. \A q \in Slots : pc'[q] \in WaitLocked \cup {"fork_copy", "sched"} => \E d \in CPUs : cpu'[d] = q
  BY DEF Inductive, Locking, Only
<1>8. \A d \in CPUs : best'[d] # 0 => cpu'[d] = 0 /\ best'[d] < scan'[d] /\ state'[best'[d]] = "RUNNABLE"
  BY <1>1, Zenon DEF Inductive, Locking
<1> QED
  BY <1>3, <1>4, <1>6, <1>7, <1>8, Zenon DEF Locking

\* A step that changes nothing but the thread of p and wait_lock.
ThreadMove(c, p) ==
    /\ cpu[c] = p /\ UNCHANGED <<table, sched>> /\ ThreadType' /\ Only(p)
    /\ pc[p] \notin ForkLabels \cup {"sched"} /\ pc'[p] \notin ForkLabels \cup {"sched"}
    /\ \/ lock' = lock /\ (pc[p] \in WaitLocked <=> pc'[p] \in WaitLocked)
       \/ lock[0] = None /\ lock' = [lock EXCEPT ![0] = c] /\ pc'[p] \in WaitLocked
       \/ pc[p] \in WaitLocked /\ lock' = [lock EXCEPT ![0] = None] /\ pc'[p] \notin WaitLocked
    /\ pc'[p] = "exit" => p # initproc
    /\ pc'[p] \in ExitLabels => pc[p] \in ExitLabels
    /\ pc'[p] = "kill" => arg'[p] \in KillPids
    /\ WaitOK(p)'
    /\ pc[p] = "wake_init" => idx[p] > initproc

LEMMA ThreadMoveInv ==
    ASSUME Inductive, NEW c \in CPUs, NEW p \in Slots, ThreadMove(c, p)
    PROVE  Inductive'
<1>1. /\ UNCHANGED <<state, pid, parent, killed, chan, nextpid>> /\ UNCHANGED <<cpu, scan, best>>
      /\ Only(p) /\ cpu[c] = p
  BY Zenon DEF ThreadMove, table, sched
<1>2. LockType /\ ThreadType' /\ state[p] = "RUNNING" /\ p # 0
  BY TypeSplit, Running, Numbers, Zenon DEF Inductive, ThreadMove
<1>3. /\ \A l \in 0 .. NPROC : lock[l] = c <=> l = 0 /\ pc[p] \in WaitLocked
      /\ \A l \in 0 .. NPROC : Holds(c, l)' <=> l = 0 /\ pc'[p] \in WaitLocked
  BY <1>1, <1>2 DEF Inductive, Locking, Holds, ThreadMove, ForkLabels, wait_lock
<1>4. /\ LockType'
      /\ \A d \in CPUs \ {c}, l \in 0 .. NPROC : lock'[l] = d <=> lock[l] = d
      /\ \A l \in 0 .. NPROC : lock'[l] = c <=> l = 0 /\ pc'[p] \in WaitLocked
  <2>1. 0 \in 0 .. NPROC /\ None \notin CPUs
    BY Numbers, Zenon
  <2>2. CASE lock' = lock /\ (pc[p] \in WaitLocked <=> pc'[p] \in WaitLocked)
    BY <1>2, <1>3, <2>2, Zenon DEF LockType
  <2>3. CASE lock[0] = None /\ lock' = [lock EXCEPT ![0] = c] /\ pc'[p] \in WaitLocked
    BY <1>2, <1>3, <2>1, <2>3, Zenon DEF LockType
  <2>4. CASE pc[p] \in WaitLocked /\ lock' = [lock EXCEPT ![0] = None] /\ pc'[p] \notin WaitLocked
    BY <1>2, <1>3, <2>1, <2>4 DEF LockType
  <2> QED
    BY <2>2, <2>3, <2>4, Zenon DEF ThreadMove
<1>5. TypeOK'
  <2>1. TableType /\ SchedType
    BY TypeSplit, Zenon DEF Inductive
  <2>2. TableType' /\ SchedType'
    BY <1>1, <2>1, Zenon DEF TableType, SchedType
  <2> QED
    BY <1>2, <1>4, <2>2, TypeSplitNext, Zenon
<1>6. OnCpu' /\ Threads' /\ Locking'
  <2>1. pc[p] # "sched" /\ pc'[p] # "sched"
    BY Zenon DEF ThreadMove
  <2>2. \A l \in 0 .. NPROC : lock'[l] = c <=> Holds(c, l)'
    BY <1>3, <1>4, Zenon
  <2> QED
    BY <1>1, <1>4, <2>1, <2>2, ControlKept, Zenon
<1>7. Pids'
  BY <1>1, PidsKept, Zenon
<1>8. Forks'
  BY <1>1, ForksKept, SMTT(30) DEF ThreadMove, Only, Inductive, Forks, ForkLabels
<1>9. Parents'
  BY <1>1, ParentsKept DEF ThreadMove, Only, Inductive, Parents
<1>10. Waiters'
  <2>1. \A q \in Slots : SameWait(q) \/ WaitOK(q)'
    BY <1>1, Zenon DEF ThreadMove, Only, SameWait
  <2>2. \A i \in Slots : state'[i] = "SLEEPING" => arg'[i] = arg[i]
    BY <1>1, <1>2, Zenon DEF Only
  <2>3. WakingInit => WakingInit'
    <3>1. ASSUME NEW q \in Slots, pc[q] = "wake_init", idx[q] <= initproc
          PROVE  pc'[q] = "wake_init" /\ idx'[q] <= initproc
      <4>1. q # p
        <5>1. idx[p] > initproc => ~(idx[p] <= initproc)
          BY IdxType, Numbers
        <5> QED
          BY <3>1, <5>1, Zenon DEF ThreadMove
      <4> QED
        BY <1>1, <3>1, <4>1, Zenon DEF Only
    <3> QED
      BY <3>1, Zenon DEF WakingInit, initproc
  <2> QED
    BY <1>1, <2>1, <2>2, <2>3, WaitersKept, Zenon
<1>11. Marks'
  BY <1>1, MarksKept, Zenon DEF ThreadMove, Only, Inductive, Marks
<1> QED
  BY <1>5, <1>6, <1>7, <1>8, <1>9, <1>10, <1>11, Zenon DEF Inductive

------------------------------------------------------------------------------
(* Steps that change one thread, and wait_lock at most *)

LEMMA NextIs ==
    ASSUME ThreadType, NEW p \in Slots, NEW n \in 1 .. NPROC + 1, NEW k \in {0, 1},
           idx' = [idx EXCEPT ![p] = n], kids' = [kids EXCEPT ![p] = k], UNCHANGED <<pc, arg, child>>
    PROVE  ThreadType' /\ pc'[p] = pc[p] /\ idx'[p] = n /\ arg'[p] = arg[p] /\ Only(p)
BY Zenon DEF ThreadType, Only

LEMMA IdxNext ==
    ASSUME Inductive, NEW p \in Slots, idx[p] <= NPROC
    PROVE  idx[p] \in Slots /\ idx[p] + 1 \in 1 .. NPROC + 1
BY IdxType, Numbers DEF Slots

\* A thread that holds no lock and is not about to take wait_lock.
LEMMA QuietMove ==
    ASSUME Inductive, NEW c \in CPUs, NEW p \in Slots, cpu[c] = p, UNCHANGED <<table, lock, sched>>,
           ThreadType', Only(p), pc[p] \in {"user", "alloc", "kill"}, pc'[p] \in {"user", "alloc", "kill", "exit"},
           pc'[p] = "exit" => p # initproc, pc'[p] = "kill" => arg'[p] \in KillPids
    PROVE  Inductive'
<1>1. WaitOK(p)'
  BY Zenon DEF WaitOK, WaitLabels
<1>2. ThreadMove(c, p)
  BY <1>1, Zenon DEF ThreadMove, ForkLabels, WaitLocked, ExitLabels
<1> QED
  BY <1>2, ThreadMoveInv, Zenon

LEMMA QuietInv ==
    ASSUME Inductive, NEW c \in CPUs, NEW p \in Slots,
           Fork(c, p) \/ AllocNone(c, p) \/ Exit(c, p) \/ Kill(c, p) \/ KillNone(c, p)
    PROVE  Inductive'
<1> USE TypeSplit DEF Inductive
<1>1. CASE Fork(c, p)
  <2>1. ThreadType' /\ pc'[p] = "alloc" /\ Only(p)
    <3>1. "alloc" \in Labels
      BY Zenon DEF Labels, Scanning
    <3> QED
      BY <1>1, <3>1, LoopIs, Zenon DEF Fork
  <2> QED
    BY <1>1, <2>1, QuietMove, Zenon DEF Fork, Syscall, At
<1>2. CASE AllocNone(c, p)
  <2>1. ThreadType' /\ pc'[p] = "user" /\ Only(p)
    BY <1>2, ReturnIs, Zenon DEF AllocNone
  <2> QED
    BY <1>2, <2>1, QuietMove, Zenon DEF AllocNone, At
<1>3. CASE Exit(c, p)
  <2>1. ThreadType' /\ pc'[p] = "exit" /\ Only(p)
    <3>1. "exit" \in Labels
      BY Zenon DEF Labels
    <3> QED
      BY <1>3, <3>1, GotoIs, Zenon DEF Exit
  <2> QED
    BY <1>3, <2>1, QuietMove, Zenon DEF Exit, At
<1>4. CASE Kill(c, p)
  <2>1. PICK k \in KillPids : arg' = [arg EXCEPT ![p] = k]
    BY <1>4, Zenon DEF Kill
  <2>2. k \in Nat /\ 1 \in 1 .. NPROC + 1 /\ "kill" \in Labels
    BY ProcAssumption, Numbers DEF Labels, Scanning
  <2>3. ThreadType' /\ pc'[p] = "kill" /\ arg'[p] = k /\ Only(p)
    BY <1>4, <2>1, <2>2, Zenon DEF Kill, Loop, Goto, ThreadType, Only
  <2> QED
    BY <1>4, <2>3, QuietMove, Zenon DEF Kill, Syscall, At
<1>5. CASE KillNone(c, p)
  <2>1. ThreadType' /\ pc'[p] = "user" /\ Only(p)
    BY <1>5, ReturnIs, Zenon DEF KillNone
  <2> QED
    BY <1>5, <2>1, QuietMove, Zenon DEF KillNone, At
<1> QED
  BY <1>1, <1>2, <1>3, <1>4, <1>5, Zenon

\* A slot of the table that allocproc or kkill passes.
LEMMA PassInv ==
    ASSUME Inductive, NEW c \in CPUs, NEW p \in Slots, cpu[c] = p, pc[p] \in {"alloc", "kill"},
           idx[p] <= NPROC, idx' = [idx EXCEPT ![p] = idx[p] + 1],
           UNCHANGED <<table, lock, sched, pc, arg, kids, child>>
    PROVE  Inductive'
<1>1. ThreadType' /\ Only(p)
  BY IdxNext, TypeSplit, Zenon DEF Inductive, ThreadType, Only
<1> QED
  BY <1>1, QuietMove, Zenon DEF Inductive, Marks

LEMMA WakeEndInv ==
    ASSUME Inductive, NEW c \in CPUs, NEW p \in Slots, WakeEnd(c, p)
    PROVE  Inductive'
<1> DEFINE l == IF pc[p] = "wake_init" THEN "wake_parent" ELSE "exit_lock"
<1>1. /\ cpu[c] = p /\ pc[p] \in {"wake_init", "wake_parent"} /\ idx[p] > NPROC
      /\ Loop(p, l) /\ UNCHANGED <<table, lock, sched>> /\ UNCHANGED <<arg, kids, child>>
  BY Zenon DEF WakeEnd
<1>2. l \in Labels /\ l \in {"wake_parent", "exit_lock"} /\ (l = "exit_lock" => pc[p] = "wake_parent")
  BY <1>1, Zenon DEF Labels, Scanning
<1> HIDE DEF l
<1>3. ThreadType' /\ pc'[p] = l /\ idx'[p] = 1 /\ Only(p)
  BY <1>1, <1>2, LoopIs, TypeSplit, Zenon DEF Inductive
<1>4. parent[p] \in Slots /\ parent'[p] = parent[p] /\ state' = state
  BY <1>1, HasParent, Zenon DEF table, ExitLabels
<1>5. idx[p] \in Nat /\ idx[p] > initproc /\ parent[p] < idx[p] /\ ~(parent[p] < 1)
  BY <1>1, <1>4, IdxType, Numbers DEF Slots
<1>6. WaitOK(p)'
  <2>1. WaitOK(p)
    BY WaitersIs, Zenon DEF Inductive
  <2> QED
    BY <1>1, <1>2, <1>3, <1>4, <1>5, <2>1, Zenon DEF WaitOK, WaitLabels
<1>7. ThreadMove(c, p)
  BY <1>1, <1>2, <1>3, <1>5, <1>6, Zenon DEF ThreadMove, ForkLabels, WaitLocked, ExitLabels
<1> QED
  BY <1>7, ThreadMoveInv, Zenon

LEMMA WaitBeginInv ==
    ASSUME Inductive, NEW c \in CPUs, NEW p \in Slots, Wait(c, p)
    PROVE  Inductive'
<1>1. /\ cpu[c] = p /\ pc[p] = "user" /\ lock[0] = None /\ lock' = [lock EXCEPT ![0] = c]
      /\ kids' = [kids EXCEPT ![p] = 0] /\ UNCHANGED <<table, sched>> /\ UNCHANGED child
  BY Zenon DEF Wait, Syscall, At, Free, wait_lock
<1>2. PICK w \in {0} \cup WaitPids :
        arg' = [arg EXCEPT ![p] = w] /\ Loop(p, IF w = 0 THEN "wait" ELSE "waitpid")
  BY Zenon DEF Wait
<1>3. w \in Nat /\ 1 \in 1 .. NPROC + 1 /\ "wait" \in Labels /\ "waitpid" \in Labels
  BY ProcAssumption, Numbers DEF Labels, Scanning
<1>4. /\ ThreadType' /\ Only(p) /\ idx'[p] = 1 /\ arg'[p] = w
      /\ pc'[p] \in {"wait", "waitpid"} /\ (pc'[p] = "waitpid" => w # 0)
  BY <1>1, <1>2, <1>3, TypeSplit, Zenon DEF Loop, Goto, Inductive, ThreadType, Only
<1>5. WaitOK(p)'
  BY <1>4, Numbers DEF WaitOK, Slots
<1>6. ThreadMove(c, p)
  BY <1>1, <1>4, <1>5, Zenon DEF ThreadMove, ForkLabels, WaitLocked, ExitLabels
<1> QED
  BY <1>6, ThreadMoveInv, Zenon

LEMMA RewaitInv ==
    ASSUME Inductive, NEW c \in CPUs, NEW p \in Slots, Rewait(c, p)
    PROVE  Inductive'
<1> DEFINE l == IF arg[p] = 0 THEN "wait" ELSE "waitpid"
<1>1. /\ cpu[c] = p /\ pc[p] = "rewait" /\ lock[0] = None /\ lock' = [lock EXCEPT ![0] = c]
      /\ Loop(p, l) /\ UNCHANGED <<table, sched>> /\ UNCHANGED <<arg, kids, child>>
  BY Zenon DEF Rewait, At, Free, wait_lock
<1>2. l \in Labels /\ l \in {"wait", "waitpid"} /\ (l = "waitpid" => arg[p] # 0)
  BY Zenon DEF Labels, Scanning
<1> HIDE DEF l
<1>3. ThreadType' /\ pc'[p] = l /\ idx'[p] = 1 /\ Only(p)
  BY <1>1, <1>2, LoopIs, TypeSplit, Zenon DEF Inductive
<1>4. WaitOK(p)'
  BY <1>1, <1>2, <1>3, Numbers DEF WaitOK, Slots
<1>5. ThreadMove(c, p)
  BY <1>1, <1>2, <1>3, <1>4, Zenon DEF ThreadMove, ForkLabels, WaitLocked, ExitLabels
<1> QED
  BY <1>5, ThreadMoveInv

LEMMA WaitReturnInv ==
    ASSUME Inductive, NEW c \in CPUs, NEW p \in Slots, cpu[c] = p, pc[p] \in {"wait", "waitpid"},
           WaitReturn(p), UNCHANGED <<table, sched>>
    PROVE  Inductive'
<1>1. lock' = [lock EXCEPT ![0] = None] /\ Return(p)
  BY Zenon DEF WaitReturn, wait_lock
<1>2. ThreadType' /\ pc'[p] = "user" /\ Only(p)
  BY <1>1, ReturnIs, TypeSplit, Zenon DEF Inductive
<1>3. WaitOK(p)'
  BY <1>2, Zenon DEF WaitOK, WaitLabels
<1>4. ThreadMove(c, p)
  BY <1>1, <1>2, <1>3, Zenon DEF ThreadMove, ForkLabels, WaitLocked, ExitLabels
<1> QED
  BY <1>4, ThreadMoveInv, Zenon

\* The scan of wait or waitpid goes on at slot n, having found no zombie before it.
LEMMA WaitNextInv ==
    ASSUME Inductive, NEW c \in CPUs, NEW p \in Slots, cpu[c] = p, pc[p] \in {"wait", "waitpid"},
           NEW n \in 1 .. NPROC + 1, NEW k \in {0, 1}, WaitNext(p, n, k), UNCHANGED sched,
           \A i \in Slots : i < n /\ WaitsFor(p, i) => state[i] # "ZOMBIE"
    PROVE  Inductive'
<1>1. /\ idx' = [idx EXCEPT ![p] = n] /\ kids' = [kids EXCEPT ![p] = k]
      /\ UNCHANGED <<table, lock>> /\ UNCHANGED <<pc, arg, child>>
  BY Zenon DEF WaitNext
<1>2. ThreadType' /\ pc'[p] = pc[p] /\ idx'[p] = n /\ arg'[p] = arg[p] /\ Only(p)
  BY <1>1, NextIs, TypeSplit, ZenonT(30) DEF Inductive
<1>3. UNCHANGED <<state, pid, parent>>
  BY <1>1, Zenon DEF table
<1>4. WaitOK(p)'
  <2>1. pc[p] = "waitpid" => arg[p] # 0
    BY Zenon DEF Inductive, Waiters
  <2> QED
    BY <1>2, <1>3, <2>1, Zenon DEF WaitOK, WaitsFor
<1>5. ThreadMove(c, p)
  BY <1>1, <1>2, <1>4, Zenon DEF ThreadMove, ForkLabels, WaitLocked, ExitLabels
<1> QED
  BY <1>5, ThreadMoveInv, Zenon

LEMMA WaitSleepInv ==
    ASSUME Inductive, NEW c \in CPUs, NEW p \in Slots, WaitSleep(c, p)
    PROVE  Inductive'
<1>1. /\ cpu[c] = p /\ pc[p] \in {"wait", "waitpid"} /\ idx[p] > NPROC
      /\ pc' = [pc EXCEPT ![p] = "sleep"] /\ idx' = [idx EXCEPT ![p] = 1]
      /\ kids' = [kids EXCEPT ![p] = 0] /\ UNCHANGED <<table, lock, sched>> /\ UNCHANGED <<arg, child>>
  BY Zenon DEF WaitSleep, Loop, Goto
<1>2. 1 \in 1 .. NPROC + 1 /\ "sleep" \in Labels
  BY Numbers DEF Labels
<1>3. ThreadType' /\ Only(p) /\ pc'[p] = "sleep" /\ arg'[p] = arg[p]
  BY <1>1, <1>2, TypeSplit, Zenon DEF Inductive, ThreadType, Only
<1>4. UNCHANGED <<state, pid, parent>>
  BY <1>1, Zenon DEF table
<1>5. WaitOK(p)'
  <2>1. \A i \in Slots : i < idx[p]
    BY <1>1, IdxType, Numbers DEF Slots
  <2>2. WaitOK(p)
    BY WaitersIs DEF Inductive
  <2> QED
    BY <1>1, <1>3, <1>4, <2>1, <2>2, Zenon DEF WaitOK, WaitLabels, WaitsFor
<1>6. ThreadMove(c, p)
  BY <1>1, <1>3, <1>5, Zenon DEF ThreadMove, ForkLabels, WaitLocked, ExitLabels
<1> QED
  BY <1>6, ThreadMoveInv

------------------------------------------------------------------------------
(* Steps that change the table *)

\* CPU c takes lock m, or releases it.
Takes(c, m) ==
    /\ LockType' /\ \A d \in CPUs \ {c}, l \in 0 .. NPROC : lock'[l] = d <=> lock[l] = d
    /\ \A l \in 0 .. NPROC : lock'[l] = c <=> lock[l] = c \/ l = m

Drops(c, m) ==
    /\ LockType' /\ \A d \in CPUs \ {c}, l \in 0 .. NPROC : lock'[l] = d <=> lock[l] = d
    /\ \A l \in 0 .. NPROC : lock'[l] = c <=> lock[l] = c /\ l # m

LEMMA LockGain ==
    ASSUME LockType, NEW c \in CPUs, NEW m \in 0 .. NPROC, lock[m] = None, lock' = [lock EXCEPT ![m] = c]
    PROVE  Takes(c, m)
BY Numbers, Zenon DEF LockType, Takes

LEMMA LockDrop ==
    ASSUME LockType, NEW c \in CPUs, NEW m \in 0 .. NPROC, lock[m] = c, lock' = [lock EXCEPT ![m] = None]
    PROVE  Drops(c, m)
BY Numbers, Zenon DEF LockType, Drops

\* The locks of a CPU that runs the thread of p.
LEMMA HeldBy ==
    ASSUME Inductive, NEW c \in CPUs, NEW p \in Slots, cpu[c] = p
    PROVE  \A l \in 0 .. NPROC : lock[l] = c <=>
              (l = 0 /\ pc[p] \in WaitLocked) \/ (l = child[p] /\ pc[p] = "fork_copy") \/ (l = p /\ pc[p] = "sched")
<1>1. p # 0
  BY Numbers, Zenon
<1> QED
  BY <1>1 DEF Inductive, Locking, Holds, wait_lock

LEMMA HeldNext ==
    ASSUME NEW c \in CPUs, NEW p \in Slots, cpu'[c] = p
    PROVE  \A l \in 0 .. NPROC : Holds(c, l)' <=>
              (l = 0 /\ pc'[p] \in WaitLocked) \/ (l = child'[p] /\ pc'[p] = "fork_copy") \/ (l = p /\ pc'[p] = "sched")
<1>1. p # 0
  BY Numbers, Zenon
<1> QED
  BY <1>1, Zenon DEF Holds, wait_lock

\* A process that no CPU runs: its lock is free, or it has no thread that could run.
LEMMA OffCpu ==
    ASSUME Inductive, NEW i \in Slots,
           state[i] \in {"UNUSED", "USED", "RUNNABLE"} \/ (state[i] \in {"SLEEPING", "ZOMBIE"} /\ lock[i] = None)
    PROVE  (\A d \in CPUs : cpu[d] # i) /\ pc[i] \notin WaitLocked \cup {"fork_copy", "sched"}
<1>1. ASSUME NEW d \in CPUs, cpu[d] = i PROVE FALSE
  <2>1. i # 0 /\ None # d /\ i \in 0 .. NPROC
    BY Numbers, Zenon
  <2>2. pc[i] = "sched" /\ lock[i] = None
    BY <1>1, <2>1, Zenon DEF Inductive, Threads
  <2>3. lock[i] = d
    BY <1>1, <2>1, <2>2, HeldBy
  <2> QED
    BY <2>1, <2>2, <2>3, Zenon
<1> QED
  BY <1>1, Zenon DEF Inductive, Locking

LEMMA AllocTakeInv ==
    ASSUME Inductive, NEW c \in CPUs, NEW p \in Slots, AllocSlot(c, p),
           state[idx[p]] = "UNUSED", nextpid <= MaxPid
    PROVE  Inductive'
<1> DEFINE i == idx[p]
<1>1. /\ cpu[c] = p /\ pc[p] = "alloc" /\ i \in Slots /\ i \in 0 .. NPROC /\ lock[i] = None /\ state[i] = "UNUSED"
      /\ state' = [state EXCEPT ![i] = "USED"] /\ pid' = [pid EXCEPT ![i] = nextpid] /\ nextpid' = nextpid + 1
      /\ lock' = [lock EXCEPT ![i] = c] /\ child' = [child EXCEPT ![p] = i] /\ Loop(p, "fork_copy")
      /\ UNCHANGED <<parent, killed, chan>> /\ UNCHANGED <<cpu, scan, best>> /\ UNCHANGED <<arg, kids>>
  BY IdxNext, Numbers, Zenon DEF AllocSlot, At, Free, sched
<1> HIDE DEF i
<1>2. TableType /\ LockType /\ SchedType /\ ThreadType
  BY TypeSplit, Zenon DEF Inductive
<1>3. ThreadType' /\ Only(p) /\ pc'[p] = "fork_copy" /\ child'[p] = i
  <2>1. 1 \in 1 .. NPROC + 1 /\ "fork_copy" \in Labels
    BY Numbers DEF Labels
  <2> QED
    BY <1>1, <1>2, <2>1, Zenon DEF ThreadType, Loop, Goto, Only
<1>4. /\ TableType' /\ state'[i] = "USED" /\ pid'[i] = nextpid
      /\ \A j \in Slots \ {i} : state'[j] = state[j] /\ pid'[j] = pid[j]
  <2>1. nextpid \in 0 .. MaxPid /\ nextpid + 1 \in 1 .. MaxPid + 1 /\ "USED" \in States
    BY <1>2, Numbers DEF TableType, States
  <2> QED
    BY <1>1, <1>2, <2>1, Zenon DEF TableType
<1>5. /\ LockType' /\ \A d \in CPUs \ {c}, l \in 0 .. NPROC : lock'[l] = d <=> lock[l] = d
      /\ \A l \in 0 .. NPROC : lock'[l] = c <=> lock[l] = c \/ l = i
  <2>1. Takes(c, i)
    BY <1>1, <1>2, LockGain, Zenon
  <2> QED
    BY <2>1, Zenon DEF Takes
<1>6. TypeOK'
  <2>1. SchedType'
    BY <1>1, <1>2, Zenon DEF SchedType
  <2> QED
    BY <1>3, <1>4, <1>5, <2>1, TypeSplitNext, Zenon
<1>7. (\A d \in CPUs : cpu[d] # i) /\ pc[i] \notin WaitLocked \cup {"fork_copy", "sched"}
  BY <1>1, OffCpu, Zenon
<1>8. OnCpu' /\ Threads' /\ Locking'
  <2>1. \A l \in 0 .. NPROC : lock'[l] = c <=> Holds(c, l)'
    <3>1. \A l \in 0 .. NPROC : lock[l] # c
      BY <1>1, HeldBy DEF WaitLocked
    <3>2. \A l \in 0 .. NPROC : Holds(c, l)' <=> l = i
      BY <1>1, <1>3, HeldNext DEF WaitLocked
    <3> QED
      BY <1>5, <3>1, <3>2, Zenon
  <2>2. pc[p] # "sched" /\ pc'[p] # "sched"
    BY <1>1, <1>3, Zenon
  <2>3. \A d \in CPUs : cpu[d] # 0 => state'[cpu[d]] = state[cpu[d]]
    BY <1>2, <1>4, <1>7, Numbers, Zenon DEF SchedType
  <2>4. \A q \in Slots : /\ state'[q] = "RUNNING" => state[q] = "RUNNING"
                         /\ state[q] = "RUNNABLE" => state'[q] = "RUNNABLE"
                         /\ state'[q] = "SLEEPING" => state[q] = "SLEEPING" /\ chan'[q] = chan[q]
    BY <1>1, <1>4, Zenon
  <2> QED
    BY <1>1, <1>3, <1>5, <2>1, <2>2, <2>3, <2>4, ControlKept, Zenon
<1>9. Pids'
  <2>1. nextpid \in Nat /\ nextpid > 0 /\ \A j \in Slots : pid[j] \in Nat /\ pid[j] < nextpid
    BY <1>2, Numbers DEF Inductive, Pids, TableType
  <2> QED
    BY <1>1, <1>4, <2>1 DEF Inductive, Pids, Slots
<1>10. Forks'
  <2>1. \A q \in Slots \ {p} : pc[q] \in ForkLabels => child[q] # i /\ child[q] \in Slots /\ state'[child[q]] = "USED"
    BY <1>1, <1>4 DEF Inductive, Forks, ForkLabels
  <2> QED
    BY <1>1, <1>3, <1>4, <2>1, SMTT(30) DEF Inductive, Forks, ForkLabels, Only, Slots
<1>11. Parents'
  <2>1. \A q \in Slots : pc'[q] = "exit" => q # initproc
    BY <1>3, Zenon DEF Inductive, Parents, Only
  <2>2. \A q \in Slots : pc'[q] \in ExitLabels => pc[q] \in ExitLabels
    BY <1>3, Zenon DEF Only, ExitLabels
  <2>3. \A j \in Slots : /\ state[j] \in Alive => state'[j] \in Alive
                         /\ state'[j] \in Alive \cup {"ZOMBIE"} => state[j] \in Alive \cup {"ZOMBIE"}
    BY <1>1, <1>4, Zenon DEF Alive
  <2> QED
    BY <1>1, <2>1, <2>2, <2>3, ParentsKept, Zenon
<1>12. Waiters'
  <2>1. \A q \in Slots : SameWait(q)
    BY <1>1, <1>3, Zenon DEF SameWait, WaitLabels, Only
  <2>2. \A j \in Slots : state'[j] = "ZOMBIE" => state[j] = "ZOMBIE" /\ parent'[j] = parent[j] /\ pid'[j] = pid[j]
    BY <1>1, <1>4, Zenon
  <2>3. \A j \in Slots : state'[j] = "SLEEPING" => state[j] = "SLEEPING" /\ arg'[j] = arg[j]
    BY <1>1, <1>4, Zenon
  <2>4. WakingInit => WakingInit'
    BY <1>1, <1>3, Zenon DEF WakingInit, Only, initproc, Slots
  <2> QED
    BY <2>1, <2>2, <2>3, <2>4, WaitersKept, Zenon
<1>13. Marks'
  BY <1>1, <1>3, <1>4 DEF Inductive, Marks, KillHitsTarget, Pids, Only, Slots
<1> QED
  BY <1>6, <1>8, <1>9, <1>10, <1>11, <1>12, <1>13, Zenon DEF Inductive

\* freeproc(i) by the thread of p: of the process a fork could not complete, or of a
\* zombie that a wait has found.
LEMMA FreedInv ==
    ASSUME Inductive, NEW c \in CPUs, NEW p \in Slots, cpu[c] = p, pc[p] \in {"fork_copy", "wait", "waitpid"},
           NEW i \in Slots, Freeproc(i), Return(p), UNCHANGED sched,
           lock' = [lock EXCEPT ![IF pc[p] = "fork_copy" THEN child[p] ELSE 0] = None],
           (pc[p] = "fork_copy" /\ i = child[p]) \/ (pc[p] # "fork_copy" /\ state[i] = "ZOMBIE" /\ lock[i] = None)
    PROVE  Inductive'
<1>1. TableType /\ LockType /\ SchedType /\ ThreadType /\ state[p] = "RUNNING"
  BY TypeSplit, Running, Zenon DEF Inductive
<1>2. ThreadType' /\ pc'[p] = "user" /\ Only(p)
  BY <1>1, ReturnIs, Zenon
<1>3. /\ TableType' /\ nextpid' = nextpid
      /\ state'[i] = "UNUSED" /\ pid'[i] = 0 /\ parent'[i] = 0 /\ killed'[i] = 0
      /\ \A j \in Slots \ {i} : /\ state'[j] = state[j] /\ pid'[j] = pid[j] /\ parent'[j] = parent[j]
                                /\ killed'[j] = killed[j] /\ chan'[j] = chan[j]
  BY <1>1, FreeprocIs, Zenon
<1>4. /\ i # p /\ (state[i] = "USED" => pc[p] = "fork_copy" /\ i = child[p])
      /\ state[i] = "USED" \/ (state[i] = "ZOMBIE" /\ lock[i] = None)
  BY <1>1, Zenon DEF Inductive, Forks
<1>5. (\A d \in CPUs : cpu[d] # i) /\ pc[i] \notin WaitLocked \cup {"fork_copy", "sched"}
  BY <1>4, OffCpu, Zenon
<1>6. UNCHANGED <<cpu, scan, best>>
  BY Zenon DEF sched
<1>7. /\ LockType' /\ \A d \in CPUs \ {c}, l \in 0 .. NPROC : lock'[l] = d <=> lock[l] = d
      /\ \A l \in 0 .. NPROC : lock'[l] = c <=> Holds(c, l)'
  <2> DEFINE m == IF pc[p] = "fork_copy" THEN child[p] ELSE 0
  <2>1. m \in 0 .. NPROC /\ \A l \in 0 .. NPROC : lock[l] = c <=> l = m
    <3>1. \A l \in 0 .. NPROC : lock[l] = c <=> l = m
      BY HeldBy DEF WaitLocked
    <3>2. m \in 0 .. NPROC
      BY <1>1, Numbers, Zenon DEF ThreadType
    <3> QED
      BY <3>1, <3>2, Zenon
  <2>2. lock' = [lock EXCEPT ![m] = None]
    BY Zenon
  <2> HIDE DEF m
  <2>3. Drops(c, m)
    <3>1. m \in 0 .. NPROC /\ lock[m] = c
      BY <2>1, Zenon
    <3> QED
      BY <1>1, <2>2, <3>1, LockDrop, Zenon
  <2>4. \A l \in 0 .. NPROC : ~Holds(c, l)'
    BY <1>2, <1>6, HeldNext, Zenon DEF WaitLocked
  <2> QED
    BY <2>1, <2>3, <2>4, Zenon DEF Drops
<1>8. TypeOK'
  BY <1>1, <1>2, <1>3, <1>6, <1>7, TypeSplitNext, Zenon DEF SchedType
<1>9. OnCpu' /\ Threads' /\ Locking'
  <2>1. pc[p] # "sched" /\ pc'[p] # "sched"
    BY <1>2, Zenon
  <2>2. \A d \in CPUs : cpu[d] # 0 => state'[cpu[d]] = state[cpu[d]]
    BY <1>1, <1>3, <1>5, Numbers, Zenon DEF SchedType
  <2>3. \A q \in Slots : /\ state'[q] = "RUNNING" => state[q] = "RUNNING"
                         /\ state[q] = "RUNNABLE" => state'[q] = "RUNNABLE"
                         /\ state'[q] = "SLEEPING" => state[q] = "SLEEPING" /\ chan'[q] = chan[q]
    BY <1>3, <1>4, Zenon
  <2> QED
    BY <1>2, <1>6, <1>7, <2>1, <2>2, <2>3, ControlKept, Zenon
<1>10. Pids'
  BY <1>1, PidsFreed, Zenon DEF Inductive
<1>11. Forks'
  <2>1. \A q \in Slots \ {p} : pc[q] \in ForkLabels => child[q] # i /\ child[q] \in Slots /\ state[child[q]] = "USED"
    BY <1>4 DEF Inductive, Forks, ForkLabels
  <2>2. \A q \in Slots \ {p} : pc[q] = "fork_run" => parent[child[q]] = q
    BY Zenon DEF Inductive, Forks
  <2> QED
    BY <1>2, <1>3, <2>1, <2>2, ForksKept, SMTT(30) DEF ForkLabels, Only
<1>12. Parents'
  <2>1. state'[initproc] \in Alive /\ i # initproc
    BY <1>3, <1>4, Numbers, ZenonT(30) DEF Inductive, Parents, Alive
  <2>2. \A q \in Slots :
           /\ pc'[q] \in {"exit", "wake_init", "wake_parent", "exit_lock"} => q # initproc
           /\ pc'[q] \in {"wake_init", "wake_parent", "exit_lock"} => \A j \in Slots : parent'[j] # q
    BY <1>2, <1>3, Numbers DEF Inductive, Parents, Only
  <2>3. ASSUME NEW j \in Slots \ {initproc}, state'[j] \in Alive \cup {"ZOMBIE"}
        PROVE  parent'[j] # 0 /\ state'[parent'[j]] \in Alive
    <3>1. j # i
      BY <1>3, <2>3, Zenon DEF Alive
    <3>2. parent[j] # 0 /\ state[parent[j]] \in Alive
      BY <1>3, <2>3, <3>1, Zenon DEF Inductive, Parents
    <3>3. parent[j] \in Slots /\ parent[j] # i
      BY <1>1, <1>4, <3>2, Numbers, Zenon DEF TableType, Alive
    <3> QED
      BY <1>3, <3>1, <3>2, <3>3
  <2> QED
    BY <2>1, <2>2, <2>3, Zenon DEF Parents, initproc
<1>13. Waiters'
  <2>1. \A q \in Slots : SameWait(q)
    BY <1>2, <1>3, <1>5 DEF SameWait, WaitLabels, WaitLocked, Only
  <2>2. \A j \in Slots : state'[j] = "ZOMBIE" => state[j] = "ZOMBIE" /\ parent'[j] = parent[j] /\ pid'[j] = pid[j]
    BY <1>3, Zenon
  <2>3. \A j \in Slots : state'[j] = "SLEEPING" => state[j] = "SLEEPING" /\ arg'[j] = arg[j]
    BY <1>1, <1>2, <1>3 DEF Only
  <2>4. WakingInit => WakingInit'
    BY <1>2, Zenon DEF WakingInit, Only, initproc
  <2> QED
    BY <2>1, <2>2, <2>3, <2>4, WaitersKept, Zenon
<1>14. Marks'
  <2>1. \A q \in Slots : pc'[q] = "kill" => arg'[q] \in KillPids
    BY <1>2, Zenon DEF Inductive, Marks, Only
  <2>2. \A j \in Slots : killed'[j] = 1 => killed[j] = 1 /\ pid'[j] = pid[j]
    BY <1>3
  <2> QED
    BY <2>1, <2>2, MarksKept, Zenon
<1> QED
  BY <1>8, <1>9, <1>10, <1>11, <1>12, <1>13, <1>14, Zenon DEF Inductive

LEMMA ForkFailInv ==
    ASSUME Inductive, NEW c \in CPUs, NEW p \in Slots, ForkFail(c, p)
    PROVE  Inductive'
<1>1. /\ cpu[c] = p /\ pc[p] = "fork_copy" /\ Freeproc(child[p]) /\ Return(p) /\ UNCHANGED sched
      /\ lock' = [lock EXCEPT ![IF pc[p] = "fork_copy" THEN child[p] ELSE 0] = None]
  BY Zenon DEF ForkFail, At
<1>2. child[p] \in Slots
  BY <1>1, Zenon DEF Inductive, Forks
<1> QED
  BY <1>1, <1>2, FreedInv, Zenon

\* The scan of wait or waitpid finds a zombie.
LEMMA ReapInv ==
    ASSUME Inductive, NEW c \in CPUs, NEW p \in Slots, cpu[c] = p, pc[p] \in {"wait", "waitpid"},
           NEW i \in Slots, state[i] = "ZOMBIE", lock[i] = None, WaitReturn(p), Freeproc(i), UNCHANGED sched
    PROVE  Inductive'
<1>1. Return(p) /\ lock' = [lock EXCEPT ![IF pc[p] = "fork_copy" THEN child[p] ELSE 0] = None]
  BY Zenon DEF WaitReturn, wait_lock
<1> QED
  BY <1>1, FreedInv, Zenon

LEMMA WaitSlotInv ==
    ASSUME Inductive, NEW c \in CPUs, NEW p \in Slots, WaitSlot(c, p)
    PROVE  Inductive'
<1> DEFINE i == idx[p]
<1>1. cpu[c] = p /\ pc[p] = "wait" /\ i \in Slots /\ i + 1 \in 1 .. NPROC + 1 /\ UNCHANGED sched
  BY IdxNext, Zenon DEF WaitSlot, At
<1>2. kids[p] \in {0, 1}
  BY Zenon DEF Inductive, TypeOK
<1>3. \A j \in Slots : j < i /\ WaitsFor(p, j) => state[j] # "ZOMBIE"
  BY <1>1, Zenon DEF Inductive, Waiters
<1>4. ASSUME WaitsFor(p, i) => state[i] # "ZOMBIE"
      PROVE  \A j \in Slots : j < i + 1 /\ WaitsFor(p, j) => state[j] # "ZOMBIE"
  <2>1. \A j \in Slots : j < i + 1 => j < i \/ j = i
    BY <1>1, Before, Zenon
  <2> QED
    BY <1>3, <1>4, <2>1, Zenon
<1>5. CASE parent[i] # p
  <2>1. WaitNext(p, i + 1, kids[p])
    BY <1>5, Zenon DEF WaitSlot
  <2>2. ~WaitsFor(p, i)
    BY <1>5, Zenon DEF WaitsFor
  <2> HIDE DEF i
  <2> QED
    BY <1>1, <1>2, <1>4, <2>1, <2>2, WaitNextInv, Zenon
<1>6. CASE parent[i] = p /\ state[i] = "ZOMBIE"
  <2>1. lock[i] = None /\ WaitReturn(p) /\ Freeproc(i)
    BY <1>6, Zenon DEF WaitSlot, Free
  <2> HIDE DEF i
  <2> QED
    BY <1>1, <1>6, <2>1, ReapInv, Zenon
<1>7. CASE parent[i] = p /\ state[i] # "ZOMBIE"
  <2>1. WaitNext(p, i + 1, 1)
    BY <1>7, Zenon DEF WaitSlot
  <2> HIDE DEF i
  <2> QED
    BY <1>1, <1>4, <1>7, <2>1, WaitNextInv, Zenon
<1> QED
  BY <1>5, <1>6, <1>7, Zenon

LEMMA WaitpidSlotInv ==
    ASSUME Inductive, NEW c \in CPUs, NEW p \in Slots, WaitpidSlot(c, p)
    PROVE  Inductive'
<1> DEFINE i == idx[p]
<1>1. /\ cpu[c] = p /\ pc[p] = "waitpid" /\ i \in Slots /\ i + 1 \in 1 .. NPROC + 1 /\ lock[i] = None
      /\ UNCHANGED sched
  BY IdxNext, Zenon DEF WaitpidSlot, At, Free
<1>2. kids[p] \in {0, 1} /\ arg[p] # 0
  BY <1>1, Zenon DEF Inductive, TypeOK, Waiters
<1>3. \A j \in Slots : j < i /\ WaitsFor(p, j) => state[j] # "ZOMBIE"
  BY <1>1, Zenon DEF Inductive, Waiters
<1>4. CASE state[i] = "UNUSED" \/ pid[i] # arg[p]
  <2>1. WaitNext(p, i + 1, kids[p])
    BY <1>4, Zenon DEF WaitpidSlot
  <2>2. WaitsFor(p, i) => state[i] # "ZOMBIE"
    BY <1>2, <1>4, Zenon DEF WaitsFor
  <2>3. \A j \in Slots : j < i + 1 /\ WaitsFor(p, j) => state[j] # "ZOMBIE"
    <3>1. \A j \in Slots : j < i + 1 => j < i \/ j = i
      BY <1>1, Before, Zenon
    <3> QED
      BY <1>3, <2>2, <3>1, Zenon
  <2> HIDE DEF i
  <2> QED
    BY <1>1, <1>2, <2>1, <2>3, WaitNextInv, Zenon
<1>5. CASE ~(state[i] = "UNUSED" \/ pid[i] # arg[p]) /\ parent[i] # p
  <2>1. WaitReturn(p) /\ UNCHANGED table
    BY <1>5, Zenon DEF WaitpidSlot
  <2> QED
    BY <1>1, <2>1, WaitReturnInv, Zenon
<1>6. CASE ~(state[i] = "UNUSED" \/ pid[i] # arg[p]) /\ parent[i] = p /\ state[i] = "ZOMBIE"
  <2>1. WaitReturn(p) /\ Freeproc(i)
    BY <1>6, Zenon DEF WaitpidSlot
  <2> HIDE DEF i
  <2> QED
    BY <1>1, <1>6, <2>1, ReapInv, Zenon
<1>7. CASE ~(state[i] = "UNUSED" \/ pid[i] # arg[p]) /\ parent[i] = p /\ state[i] # "ZOMBIE"
  <2>1. WaitNext(p, NPROC + 1, 1)
    BY <1>7, Zenon DEF WaitpidSlot
  <2>2. \A j \in Slots : WaitsFor(p, j) => j = i
    BY <1>1, <1>2, <1>7, Zenon DEF Inductive, Pids, WaitsFor
  <2>3. NPROC + 1 \in 1 .. NPROC + 1
    BY Numbers
  <2> HIDE DEF i
  <2> QED
    BY <1>1, <1>7, <2>1, <2>2, <2>3, WaitNextInv, Zenon
<1> QED
  BY <1>4, <1>5, <1>6, <1>7, Zenon

LEMMA WaitEndInv ==
    ASSUME Inductive, NEW c \in CPUs, NEW p \in Slots, WaitCopyFail(c, p) \/ WaitGiveUp(c, p)
    PROVE  Inductive'
<1>1. cpu[c] = p /\ pc[p] \in {"wait", "waitpid"} /\ WaitReturn(p) /\ UNCHANGED <<table, sched>>
  BY Zenon DEF WaitCopyFail, WaitGiveUp, At
<1> QED
  BY <1>1, WaitReturnInv, Zenon

LEMMA AllocSlotInv ==
    ASSUME Inductive, NEW c \in CPUs, NEW p \in Slots, AllocSlot(c, p)
    PROVE  Inductive'
<1>1. CASE state[idx[p]] = "UNUSED" /\ nextpid <= MaxPid
  BY <1>1, AllocTakeInv, Zenon
<1>2. CASE ~(state[idx[p]] = "UNUSED" /\ nextpid <= MaxPid)
  <2>1. /\ cpu[c] = p /\ pc[p] = "alloc" /\ idx[p] <= NPROC /\ idx' = [idx EXCEPT ![p] = idx[p] + 1]
        /\ UNCHANGED <<state, pid, nextpid, lock, child, pc>> /\ UNCHANGED <<parent, killed, chan, sched, arg, kids>>
    BY <1>2, Zenon DEF AllocSlot, At
  <2> QED
    BY <2>1, PassInv, Zenon DEF table
<1> QED
  BY <1>1, <1>2, Zenon

LEMMA ForkCopiedInv ==
    ASSUME Inductive, NEW c \in CPUs, NEW p \in Slots, ForkCopied(c, p)
    PROVE  Inductive'
<1>1. /\ cpu[c] = p /\ pc[p] = "fork_copy" /\ lock' = [lock EXCEPT ![child[p]] = None] /\ Goto(p, "fork_parent")
      /\ UNCHANGED <<state, pid, parent, killed, chan, nextpid>> /\ UNCHANGED <<cpu, scan, best>>
      /\ UNCHANGED <<idx, arg, kids, child>>
  BY Zenon DEF ForkCopied, At, table, sched
<1>2. TableType /\ LockType /\ SchedType /\ ThreadType /\ child[p] \in Slots /\ child[p] \in 0 .. NPROC
  BY <1>1, TypeSplit, Numbers, Zenon DEF Inductive, Forks
<1>3. ThreadType' /\ pc'[p] = "fork_parent" /\ Only(p)
  BY <1>1, <1>2, GotoIs, Zenon DEF Labels
<1>4. /\ LockType' /\ \A d \in CPUs \ {c}, l \in 0 .. NPROC : lock'[l] = d <=> lock[l] = d
      /\ \A l \in 0 .. NPROC : lock'[l] = c <=> Holds(c, l)'
  <2>1. \A l \in 0 .. NPROC : lock[l] = c <=> l = child[p]
    BY <1>1, HeldBy DEF WaitLocked
  <2>2. Drops(c, child[p])
    <3>1. lock[child[p]] = c /\ lock' = [lock EXCEPT ![child[p]] = None]
      BY <1>1, <1>2, <2>1, Zenon
    <3> QED
      BY <1>2, <3>1, LockDrop, Zenon
  <2>3. \A l \in 0 .. NPROC : ~Holds(c, l)'
    BY <1>1, <1>3, HeldNext, Zenon DEF WaitLocked
  <2> QED
    BY <2>1, <2>2, <2>3, Zenon DEF Drops
<1>5. TypeOK'
  BY <1>1, <1>2, <1>3, <1>4, TypeSplitNext, Zenon DEF SchedType, TableType
<1>6. OnCpu' /\ Threads' /\ Locking'
  <2>1. pc[p] # "sched" /\ pc'[p] # "sched"
    BY <1>1, <1>3, Zenon
  <2> QED
    BY <1>1, <1>3, <1>4, <2>1, ControlKept, Zenon
<1>7. Pids'
  BY <1>1, PidsKept, ZenonT(30)
<1>8. Forks'
  BY <1>1, <1>3 DEF Inductive, Forks, Only
<1>9. Parents'
  BY <1>1, <1>3, ParentsKept, Zenon DEF Only, Inductive, Parents, ExitLabels
<1>10. Waiters'
  <2>1. \A q \in Slots : SameWait(q)
    BY <1>1, <1>3, Zenon DEF SameWait, WaitLabels, Only
  <2>2. WakingInit => WakingInit'
    BY <1>1, <1>3, Zenon DEF WakingInit, Only, initproc
  <2> QED
    BY <1>1, <2>1, <2>2, WaitersKept, Zenon
<1>11. Marks'
  BY <1>1, <1>3, MarksKept, Zenon DEF Only, Inductive, Marks
<1> QED
  BY <1>5, <1>6, <1>7, <1>8, <1>9, <1>10, <1>11, Zenon DEF Inductive

\* Nobody is between an acquire and a release of wait_lock.
LEMMA WaitLockFree ==
    ASSUME Inductive, lock[0] = None
    PROVE  \A q \in Slots : pc[q] \notin WaitLocked
BY WaitLockOnce, Zenon

LEMMA ForkParentInv ==
    ASSUME Inductive, NEW c \in CPUs, NEW p \in Slots, ForkParent(c, p)
    PROVE  Inductive'
<1>1. /\ cpu[c] = p /\ pc[p] = "fork_parent" /\ lock[0] = None /\ Goto(p, "fork_run")
      /\ parent' = [parent EXCEPT ![child[p]] = p]
      /\ UNCHANGED <<state, pid, killed, chan, nextpid>> /\ UNCHANGED <<cpu, scan, best>> /\ UNCHANGED lock
      /\ UNCHANGED <<idx, arg, kids, child>>
  BY Zenon DEF ForkParent, At, sched, Free, wait_lock
<1>2. /\ TableType /\ LockType /\ SchedType /\ ThreadType
      /\ child[p] \in Slots /\ state[child[p]] = "USED" /\ p \in 0 .. NPROC
  BY <1>1, TypeSplit, Numbers, Zenon DEF Inductive, Forks
<1>3. ThreadType' /\ pc'[p] = "fork_run" /\ Only(p)
  BY <1>1, <1>2, GotoIs, Zenon DEF Labels
<1>4. TableType' /\ parent'[child[p]] = p /\ \A j \in Slots \ {child[p]} : parent'[j] = parent[j]
  BY <1>1, <1>2, Zenon DEF TableType
<1>5. TypeOK'
  BY <1>1, <1>2, <1>3, <1>4, TypeSplitNext, Zenon DEF SchedType, LockType
<1>6. OnCpu' /\ Threads' /\ Locking'
  <2>1. pc[p] # "sched" /\ pc'[p] # "sched"
    BY <1>1, <1>3, Zenon
  <2>2. \A l \in 0 .. NPROC : lock[l] # c
    BY <1>1, HeldBy DEF WaitLocked
  <2>3. \A l \in 0 .. NPROC : ~Holds(c, l)'
    BY <1>1, <1>3, HeldNext, Zenon DEF WaitLocked
  <2> QED
    BY <1>1, <1>3, <2>1, <2>2, <2>3, ControlKept, Zenon
<1>7. Pids'
  BY <1>1, PidsKept, Zenon
<1>8. Forks'
  BY <1>1, <1>2, <1>3, <1>4 DEF Inductive, Forks, Only
<1>9. \A q \in Slots : pc'[q] \notin WaitLocked
  BY <1>1, <1>3, WaitLockFree, Zenon DEF Only, WaitLocked
<1>10. Parents'
  <2>1. \A i \in Slots : state[i] \in Alive \cup {"ZOMBIE"} => parent'[i] = parent[i]
    BY <1>2, <1>4, Zenon DEF Alive
  <2>2. \A q \in Slots : pc'[q] = "exit" => q # initproc
    BY <1>3, Zenon DEF Only, Inductive, Parents
  <2> QED
    BY <1>1, <1>9, <2>1, <2>2, Zenon DEF Inductive, Parents, WaitLocked, initproc
<1>11. Waiters'
  <2>1. \A q \in Slots : SameWait(q)
    BY <1>9, Zenon DEF SameWait, WaitLabels, WaitLocked
  <2>2. \A i \in Slots : state'[i] = "ZOMBIE" => parent'[i] = parent[i]
    BY <1>1, <1>2, <1>4, Zenon
  <2>3. ~WakingInit
    BY <1>1, WaitLockFree, Zenon DEF WakingInit, WaitLocked
  <2> QED
    BY <1>1, <2>1, <2>2, <2>3, WaitersKept, Zenon
<1>12. Marks'
  BY <1>1, <1>3, MarksKept, Zenon DEF Only, Inductive, Marks
<1> QED
  BY <1>5, <1>6, <1>7, <1>8, <1>10, <1>11, <1>12 DEF Inductive

LEMMA ForkRunInv ==
    ASSUME Inductive, NEW c \in CPUs, NEW p \in Slots, ForkRun(c, p)
    PROVE  Inductive'
<1> DEFINE i == child[p]
<1>1. /\ cpu[c] = p /\ pc[p] = "fork_run" /\ Return(p) /\ state' = [state EXCEPT ![i] = "RUNNABLE"]
      /\ UNCHANGED <<pid, parent, killed, chan, nextpid>> /\ UNCHANGED <<cpu, scan, best>> /\ UNCHANGED lock
  BY Zenon DEF ForkRun, At, sched
<1>2. /\ TableType /\ LockType /\ SchedType /\ ThreadType /\ state[p] = "RUNNING"
      /\ i \in Slots /\ state[i] = "USED" /\ parent[i] = p /\ i # p
      /\ \A q \in Slots \ {p} : pc[q] \in ForkLabels => child[q] # i
  BY <1>1, TypeSplit, Running, Zenon DEF Inductive, Forks, ForkLabels
<1> HIDE DEF i
<1>3. ThreadType' /\ pc'[p] = "user" /\ Only(p)
  BY <1>1, <1>2, ReturnIs, Zenon
<1>4. TableType' /\ state'[i] = "RUNNABLE" /\ \A j \in Slots \ {i} : state'[j] = state[j]
  BY <1>1, <1>2, Zenon DEF TableType, States
<1>5. TypeOK'
  BY <1>1, <1>2, <1>3, <1>4, TypeSplitNext, Zenon DEF SchedType, LockType
<1>6. OnCpu' /\ Threads' /\ Locking'
  <2>1. pc[p] # "sched" /\ pc'[p] # "sched"
    BY <1>1, <1>3, Zenon
  <2>2. \A l \in 0 .. NPROC : lock[l] # c
    BY <1>1, HeldBy DEF WaitLocked
  <2>3. \A l \in 0 .. NPROC : ~Holds(c, l)'
    BY <1>1, <1>3, HeldNext, Zenon DEF WaitLocked
  <2>4. \A d \in CPUs : cpu[d] # i
    BY <1>2, OffCpu, Zenon
  <2>5. \A d \in CPUs : cpu[d] # 0 => state'[cpu[d]] = state[cpu[d]]
    BY <1>2, <1>4, <2>4, Numbers, Zenon DEF SchedType
  <2>6. \A q \in Slots : /\ state'[q] = "RUNNING" => state[q] = "RUNNING"
                         /\ state[q] = "RUNNABLE" => state'[q] = "RUNNABLE"
                         /\ state'[q] = "SLEEPING" => state[q] = "SLEEPING" /\ chan'[q] = chan[q]
    BY <1>1, <1>2, <1>4, Zenon
  <2> QED
    BY <1>1, <1>3, <2>1, <2>2, <2>3, <2>5, <2>6, ControlKept
<1>7. Pids'
  BY <1>1, <1>4, PidsKept, ZenonT(30)
<1>8. Forks'
  <2>1. \A q \in Slots \ {p} : pc[q] \in ForkLabels => child[q] \in Slots /\ state[child[q]] = "USED"
    BY Zenon DEF Inductive, Forks, ForkLabels
  <2>2. \A q \in Slots \ {p} : pc[q] = "fork_run" => parent[child[q]] = q
    BY Zenon DEF Inductive, Forks
  <2> QED
    BY <1>1, <1>2, <1>3, <1>4, <2>1, <2>2, ForksKept, SMTT(30) DEF ForkLabels, Only
<1>9. Parents'
  <2>1. \A q \in Slots : pc'[q] = "exit" => q # initproc
    BY <1>3, Zenon DEF Only, Inductive, Parents
  <2>2. \A q \in Slots : pc'[q] \in ExitLabels => pc[q] \in ExitLabels
    BY <1>3, Zenon DEF Only, ExitLabels
  <2>3. \A j \in Slots : state[j] \in Alive => state'[j] \in Alive
    BY <1>2, <1>4, Zenon DEF Alive
  <2>4. \A j \in Slots : state'[j] \in Alive \cup {"ZOMBIE"} =>
           state[j] \in Alive \cup {"ZOMBIE"} \/ (parent[j] # 0 /\ state[parent[j]] \in Alive)
    BY <1>2, <1>4, Numbers, Zenon DEF Alive
  <2> QED
    BY <1>1, <2>1, <2>2, <2>3, <2>4, ParentsKept, Zenon
<1>10. Waiters'
  <2>1. \A q \in Slots : SameWait(q)
    BY <1>1, <1>3, Zenon DEF SameWait, WaitLabels, Only
  <2>2. \A j \in Slots : state'[j] = "ZOMBIE" => state[j] = "ZOMBIE"
    BY <1>4, Zenon
  <2>3. \A j \in Slots : state'[j] = "SLEEPING" => state[j] = "SLEEPING" /\ arg'[j] = arg[j]
    BY <1>2, <1>3, <1>4, Zenon DEF Only
  <2>4. WakingInit => WakingInit'
    BY <1>1, <1>3, Zenon DEF WakingInit, Only, initproc
  <2> QED
    BY <1>1, <2>1, <2>2, <2>3, <2>4, WaitersKept, Zenon
<1>11. Marks'
  BY <1>1, <1>3, MarksKept, Zenon DEF Only, Inductive, Marks
<1> QED
  BY <1>5, <1>6, <1>7, <1>8, <1>9, <1>10, <1>11 DEF Inductive

LEMMA ExitReparentInv ==
    ASSUME Inductive, NEW c \in CPUs, NEW p \in Slots, ExitReparent(c, p)
    PROVE  Inductive'
<1> DEFINE l0 == IF \E i \in Slots : parent[i] = p THEN "wake_init" ELSE "wake_parent"
<1>1. /\ cpu[c] = p /\ pc[p] = "exit" /\ lock[0] = None /\ lock' = [lock EXCEPT ![0] = c] /\ Loop(p, l0)
      /\ parent' = [i \in Slots |-> IF parent[i] = p THEN initproc ELSE parent[i]]
      /\ UNCHANGED <<state, pid, killed, chan, nextpid>> /\ UNCHANGED <<cpu, scan, best>>
      /\ UNCHANGED <<arg, kids, child>>
  BY Zenon DEF ExitReparent, At, sched, Free, wait_lock
<1>2. l0 \in {"wake_init", "wake_parent"} /\ l0 \in Labels /\ ((\E i \in Slots : parent[i] = p) => l0 = "wake_init")
  BY Zenon DEF Labels, Scanning
<1> HIDE DEF l0
<1>3. TableType /\ LockType /\ SchedType /\ ThreadType /\ state[p] = "RUNNING" /\ p # initproc
  BY <1>1, TypeSplit, Running, Zenon DEF Inductive, Parents
<1>4. ThreadType' /\ pc'[p] = l0 /\ idx'[p] = 1 /\ Only(p)
  BY <1>1, <1>2, <1>3, LoopIs, Zenon
<1>5. TableType' /\ \A i \in Slots : parent'[i] = IF parent[i] = p THEN initproc ELSE parent[i]
  BY <1>1, <1>3, Numbers, Zenon DEF TableType
<1>6. \A q \in Slots : pc[q] \notin WaitLocked
  BY <1>1, WaitLockFree, Zenon
<1>7. /\ LockType' /\ \A d \in CPUs \ {c}, l \in 0 .. NPROC : lock'[l] = d <=> lock[l] = d
      /\ \A l \in 0 .. NPROC : lock'[l] = c <=> Holds(c, l)'
  <2>1. Takes(c, 0)
    <3>1. 0 \in 0 .. NPROC /\ lock[0] = None /\ lock' = [lock EXCEPT ![0] = c]
      BY <1>1, Numbers, Zenon
    <3> QED
      BY <1>3, <3>1, LockGain, Zenon
  <2>2. \A l \in 0 .. NPROC : lock[l] # c
    BY <1>1, HeldBy DEF WaitLocked
  <2>3. \A l \in 0 .. NPROC : Holds(c, l)' <=> l = 0
    BY <1>1, <1>2, <1>4, HeldNext DEF WaitLocked
  <2> QED
    BY <2>1, <2>2, <2>3, Zenon DEF Takes
<1>8. TypeOK'
  BY <1>1, <1>3, <1>4, <1>5, <1>7, TypeSplitNext, Zenon DEF SchedType
<1>9. OnCpu' /\ Threads' /\ Locking'
  <2>1. pc[p] # "sched" /\ pc'[p] # "sched"
    BY <1>1, <1>2, <1>4, Zenon
  <2> QED
    BY <1>1, <1>4, <1>7, <2>1, ControlKept, Zenon
<1>10. Pids'
  BY <1>1, PidsKept, Zenon
<1>11. Forks'
  <2>1. \A q \in Slots \ {p} : pc[q] \in ForkLabels => child[q] \in Slots /\ state[child[q]] = "USED"
    BY DEF Inductive, Forks, ForkLabels
  <2>2. \A q \in Slots \ {p} : pc[q] = "fork_run" => parent[child[q]] = q
    BY DEF Inductive, Forks
  <2> QED
    BY <1>1, <1>2, <1>4, <1>5, <2>1, <2>2, ForksKept, SMTT(30) DEF ForkLabels, Only
<1>12. \A i \in Slots \ {initproc} : state[i] \in Alive \cup {"ZOMBIE"} => parent'[i] # 0 /\ state[parent'[i]] \in Alive
  BY <1>5, Numbers DEF Inductive, Parents
<1>13. Parents'
  <2>1. \A q \in Slots : pc'[q] \in ExitLabels => q = p
    BY <1>4, <1>6, Zenon DEF Only, WaitLocked, ExitLabels
  <2>2. \A q \in Slots : pc'[q] = "exit" => q # initproc
    BY <1>2, <1>4, Zenon DEF Only, Inductive, Parents
  <2>3. \A i \in Slots : parent'[i] # p
    BY <1>3, <1>5, Zenon
  <2>4. \A q \in Slots :
           /\ pc'[q] \in {"exit", "wake_init", "wake_parent", "exit_lock"} => q # initproc
           /\ pc'[q] \in {"wake_init", "wake_parent", "exit_lock"} => \A i \in Slots : parent'[i] # q
    BY <1>3, <2>1, <2>2, <2>3, Zenon DEF ExitLabels
  <2> QED
    BY <1>1, <1>12, <2>4, Zenon DEF Inductive, Parents, initproc
<1>14. Waiters'
  <2>1. ASSUME NEW q \in Slots PROVE WaitOK(q)'
    <3>1. CASE q # p
      BY <1>4, <1>6, <3>1, Zenon DEF Only, WaitOK, WaitLocked, WaitLabels
    <3>2. CASE q = p
      <4>1. parent'[p] # 0 /\ parent'[p] \in 0 .. NPROC
        BY <1>3, <1>5, <1>12, Zenon DEF Alive, TableType
      <4>2. ~(parent'[p] < 1)
        BY <4>1, Numbers
      <4> QED
        BY <1>2, <1>4, <3>2, <4>2, Zenon DEF WaitOK, WaitLabels
    <3> QED
      BY <3>1, <3>2, Zenon
  <2>2. ~WakingInit
    BY <1>6, Zenon DEF WakingInit, WaitLocked
  <2>3. ASSUME NEW q \in Slots, NEW i \in Slots, Missed(q, i)' PROVE q = initproc /\ WakingInit'
    <3>1. state[q] = "SLEEPING" /\ parent'[i] = q /\ arg[q] \in {0, pid[i]} /\ state[i] = "ZOMBIE"
      BY <1>1, <2>3, Zenon DEF Missed, WaitsFor
    <3>2. ~Missed(q, i)
      BY <2>2, WaitersIs, Zenon DEF Inductive
    <3>3. parent[i] = p /\ q = initproc
      BY <1>5, <3>1, <3>2, Zenon DEF Missed, WaitsFor
    <3>4. pc'[p] = "wake_init" /\ idx'[p] <= initproc
      BY <1>2, <1>4, <3>3, Numbers
    <3> QED
      BY <3>3, <3>4, Zenon DEF WakingInit, initproc
  <2> QED
    BY <2>1, <2>3, WaitersNext, Zenon
<1>15. Marks'
  <2>1. \A q \in Slots : pc'[q] = "kill" => arg'[q] \in KillPids
    BY <1>1, <1>2, <1>4, Zenon DEF Inductive, Marks, Only
  <2> QED
    BY <1>1, <2>1, MarksKept, Zenon
<1> QED
  BY <1>8, <1>9, <1>10, <1>11, <1>13, <1>14, <1>15 DEF Inductive

\* A slot i whose lock is free is woken, or is not.
Wakes(i) == state' = state \/ (state[i] = "SLEEPING" /\ lock[i] = None /\ MakeRunnable(i))

LEMMA WakesIs ==
    ASSUME Inductive, NEW i \in Slots, Wakes(i)
    PROVE  /\ state' \in [Slots -> States]
           /\ \A q \in Slots : state'[q] = state[q] \/ (q = i /\ state[q] = "SLEEPING" /\ state'[q] = "RUNNABLE")
           /\ \A d \in CPUs : cpu[d] # 0 => state'[cpu[d]] = state[cpu[d]]
<1>1. TableType /\ SchedType
  BY TypeSplit, Zenon DEF Inductive
<1>2. CASE state' = state
  BY <1>1, <1>2, Zenon DEF TableType
<1>3. CASE state[i] = "SLEEPING" /\ lock[i] = None /\ MakeRunnable(i)
  <2>1. \A d \in CPUs : cpu[d] # i
    BY <1>3, OffCpu, Zenon
  <2>2. /\ state' \in [Slots -> States] /\ state'[i] = "RUNNABLE"
        /\ \A q \in Slots \ {i} : state'[q] = state[q]
    BY <1>1, <1>3, Zenon DEF TableType, MakeRunnable, States
  <2> QED
    BY <1>1, <1>3, <2>1, <2>2, Numbers, Zenon DEF SchedType
<1> QED
  BY <1>2, <1>3, Zenon DEF Wakes

\* The rest of a step of wakeup or kkill that may wake the process in slot i.
LEMMA WakeStep ==
    ASSUME Inductive, NEW c \in CPUs, NEW p \in Slots, NEW i \in Slots, cpu[c] = p, Wakes(i),
           UNCHANGED <<pid, parent, chan, nextpid>>, UNCHANGED <<cpu, scan, best>>, UNCHANGED lock,
           killed' \in [Slots -> {0, 1}], ThreadType', Only(p), pc[p] # "sched",
           \/ pc[p] \in {"wake_init", "wake_parent"} /\ pc'[p] = pc[p]
           \/ pc[p] = "kill" /\ pc'[p] = "user"
    PROVE  TypeOK' /\ OnCpu' /\ Threads' /\ Locking' /\ Pids' /\ Forks' /\ Parents'
<1>1. TableType /\ LockType /\ SchedType
  BY TypeSplit, Zenon DEF Inductive
<1>2. /\ state' \in [Slots -> States]
      /\ \A q \in Slots : state'[q] = state[q] \/ (q = i /\ state[q] = "SLEEPING" /\ state'[q] = "RUNNABLE")
      /\ \A d \in CPUs : cpu[d] # 0 => state'[cpu[d]] = state[cpu[d]]
  BY WakesIs, Zenon
<1>3. TypeOK'
  BY <1>1, <1>2, TypeSplitNext, Zenon DEF TableType, LockType, SchedType
<1>4. OnCpu' /\ Threads' /\ Locking'
  <2>1. \A l \in 0 .. NPROC : lock'[l] = c <=> Holds(c, l)'
    <3>1. \A l \in 0 .. NPROC : lock[l] = c <=> l = 0 /\ pc[p] \in WaitLocked
      BY HeldBy
    <3>2. \A l \in 0 .. NPROC : Holds(c, l)' <=> l = 0 /\ pc'[p] \in WaitLocked
      BY HeldNext, Zenon
    <3> QED
      BY <3>1, <3>2, Zenon DEF WaitLocked
  <2>2. pc[p] # "sched" /\ pc'[p] # "sched"
    BY Zenon
  <2>3. \A q \in Slots : /\ state'[q] = "RUNNING" => state[q] = "RUNNING"
                         /\ state[q] = "RUNNABLE" => state'[q] = "RUNNABLE"
                         /\ state'[q] = "SLEEPING" => state[q] = "SLEEPING" /\ chan'[q] = chan[q]
    BY <1>2, Zenon
  <2> QED
    BY <1>2, <2>1, <2>2, <2>3, ControlKept, Zenon
<1>5. Pids'
  <2>1. \A q \in Slots : state'[q] = "UNUSED" => state[q] = "UNUSED"
    BY <1>2, Zenon
  <2> QED
    BY <2>1, PidsKept, Zenon
<1>6. Forks'
  <2>1. \A q \in Slots : pc[q] \in ForkLabels => child[q] \in Slots /\ state[child[q]] = "USED"
    BY Zenon DEF Inductive, Forks, ForkLabels
  <2>2. \A q \in Slots : pc[q] = "fork_run" => parent[child[q]] = q
    BY Zenon DEF Inductive, Forks
  <2> QED
    BY <1>2, <2>1, <2>2, ForksKept, SMTT(30) DEF ForkLabels, Only
<1>7. Parents'
  <2>1. \A q \in Slots : pc'[q] = "exit" => q # initproc
    BY Zenon DEF Only, Inductive, Parents
  <2>2. \A q \in Slots : pc'[q] \in ExitLabels => pc[q] \in ExitLabels
    BY Zenon DEF Only, ExitLabels
  <2>3. \A j \in Slots : /\ state[j] \in Alive => state'[j] \in Alive
                         /\ state'[j] \in Alive \cup {"ZOMBIE"} => state[j] \in Alive \cup {"ZOMBIE"}
    BY <1>2, Zenon DEF Alive
  <2> QED
    BY <2>1, <2>2, <2>3, ParentsKept, Zenon
<1> QED
  BY <1>3, <1>4, <1>5, <1>6, <1>7, Zenon

LEMMA WakeSlotInv ==
    ASSUME Inductive, NEW c \in CPUs, NEW p \in Slots, WakeSlot(c, p)
    PROVE  Inductive'
<1> DEFINE i == idx[p]
           hit == i # p /\ state[i] = "SLEEPING" /\ chan[i] = WakeChan(p)
<1>1. /\ cpu[c] = p /\ pc[p] \in {"wake_init", "wake_parent"} /\ i \in Slots /\ i + 1 \in 1 .. NPROC + 1
      /\ (i # p => lock[i] = None) /\ (IF hit THEN MakeRunnable(i) ELSE UNCHANGED state)
      /\ idx' = [idx EXCEPT ![p] = i + 1]
      /\ UNCHANGED <<pid, parent, chan, nextpid>> /\ UNCHANGED <<cpu, scan, best>> /\ UNCHANGED lock
      /\ UNCHANGED killed /\ UNCHANGED <<pc, arg, kids, child>>
  BY IdxNext, Zenon DEF WakeSlot, Free, sched
<1>2. Wakes(i) /\ (hit => MakeRunnable(i))
  BY <1>1, Zenon DEF Wakes
<1> HIDE DEF hit
<1>3. TableType /\ ThreadType /\ pc[p] \in WaitLocked /\ pc[p] # "sched"
  BY <1>1, TypeSplit, Zenon DEF Inductive, WaitLocked
<1>4. ThreadType' /\ pc'[p] = pc[p] /\ idx'[p] = i + 1 /\ Only(p)
  BY <1>1, <1>3, Zenon DEF ThreadType, Only
<1>5. TypeOK' /\ OnCpu' /\ Threads' /\ Locking' /\ Pids' /\ Forks' /\ Parents'
  <2>1. killed' \in [Slots -> {0, 1}]
    BY <1>1, <1>3, Zenon DEF TableType
  <2> HIDE DEF i
  <2> QED
    BY <1>1, <1>2, <1>3, <1>4, <2>1, WakeStep, Zenon
<1>6. \A q \in Slots : state'[q] = state[q] \/ (state[q] = "SLEEPING" /\ state'[q] = "RUNNABLE")
  BY <1>1, <1>2, WakesIs, Zenon
<1>7. state[p] = "RUNNING" /\ p # initproc /\ parent[p] \in Slots
  BY <1>1, HasParent, Zenon DEF ExitLabels
<1>8. i = WakeChan(p) => state'[i] # "SLEEPING"
  <2>1. CASE i = WakeChan(p) /\ state[i] = "SLEEPING"
    <3>1. hit
      BY <1>1, <1>7, <2>1, Zenon DEF hit, Inductive, Threads
    <3>2. state'[i] = "RUNNABLE"
      BY <1>1, <1>2, <1>3, <3>1, Zenon DEF MakeRunnable, TableType
    <3> QED
      BY <3>2, Zenon
  <2> QED
    BY <1>1, <1>6, <2>1, Zenon
<1>9. Waiters'
  <2>1. \A q \in Slots \ {p} : SameWait(q)
    BY <1>1, <1>4, Zenon DEF SameWait, Only
  <2>2. WaitOK(p)'
    <3>1. WaitOK(p)
      BY WaitersIs DEF Inductive
    <3>2. parent[p] < i + 1 => parent[p] < i \/ parent[p] = i
      BY <1>1, <1>7, Before, Zenon
    <3>3. pc[p] = "wake_parent" => WakeChan(p) = parent[p]
      BY Zenon DEF WakeChan
    <3>4. pc[p] = "wake_parent" /\ parent[p] < i + 1 => state'[parent[p]] # "SLEEPING"
      BY <1>6, <1>7, <1>8, <3>1, <3>2, <3>3, Zenon DEF WaitOK
    <3> QED
      BY <1>1, <1>4, <3>4, Zenon DEF WaitOK, WaitLabels
  <2>3. \A j \in Slots : /\ state'[j] = "ZOMBIE" => state[j] = "ZOMBIE" /\ parent'[j] = parent[j] /\ pid'[j] = pid[j]
                         /\ state'[j] = "SLEEPING" => state[j] = "SLEEPING" /\ arg'[j] = arg[j]
    BY <1>1, <1>6, Zenon
  <2>4. WakingInit => state'[initproc] # "SLEEPING"
    <3>1. ASSUME NEW q \in Slots, pc[q] = "wake_init", idx[q] <= initproc PROVE state'[initproc] # "SLEEPING"
      <4>1. q = p
        BY <1>3, <3>1, WaitLockOnce, ZenonT(30) DEF WaitLocked
      <4>2. i = initproc
        BY <1>1, <3>1, <4>1, Numbers DEF Slots
      <4>3. WakeChan(p) = initproc
        BY <3>1, <4>1, Zenon DEF WakeChan
      <4> QED
        BY <1>8, <4>2, <4>3, Zenon
    <3> QED
      BY <3>1, Zenon DEF WakingInit
  <2> QED
    BY <2>1, <2>2, <2>3, <2>4, WaitersKept, Zenon
<1>10. Marks'
  <2>1. \A q \in Slots : pc'[q] = "kill" => arg'[q] \in KillPids
    BY <1>1, Zenon DEF Inductive, Marks
  <2> QED
    BY <1>1, <2>1, MarksKept, Zenon
<1> QED
  BY <1>5, <1>9, <1>10, Zenon DEF Inductive

LEMMA KillSlotInv ==
    ASSUME Inductive, NEW c \in CPUs, NEW p \in Slots, KillSlot(c, p)
    PROVE  Inductive'
<1> DEFINE i == idx[p]
<1>1. /\ cpu[c] = p /\ pc[p] = "kill" /\ idx[p] <= NPROC /\ i \in Slots /\ lock[i] = None
      /\ UNCHANGED <<pid, parent, chan, nextpid>> /\ UNCHANGED sched /\ UNCHANGED lock
  BY IdxNext, Zenon DEF KillSlot, At, Free
<1>2. CASE pid[i] # arg[p]
  <2>1. idx' = [idx EXCEPT ![p] = idx[p] + 1] /\ UNCHANGED <<killed, state>> /\ UNCHANGED <<pc, arg, kids, child>>
    BY <1>2, Zenon DEF KillSlot
  <2> QED
    BY <1>1, <2>1, PassInv, Zenon DEF table
<1>3. CASE pid[i] = arg[p]
  <2>1. killed' = [killed EXCEPT ![i] = 1] /\ Wakes(i) /\ Return(p)
    BY <1>1, <1>3, Zenon DEF KillSlot, Wakes
  <2>2. TableType /\ ThreadType /\ state[p] = "RUNNING" /\ UNCHANGED <<cpu, scan, best>>
    BY <1>1, TypeSplit, Running, Zenon DEF Inductive, sched
  <2> HIDE DEF i
  <2>3. ThreadType' /\ pc'[p] = "user" /\ Only(p)
    BY <2>1, <2>2, ReturnIs, Zenon
  <2>4. killed' \in [Slots -> {0, 1}] /\ \A j \in Slots \ {i} : killed'[j] = killed[j]
    BY <1>1, <2>1, <2>2, Zenon DEF TableType
  <2>5. TypeOK' /\ OnCpu' /\ Threads' /\ Locking' /\ Pids' /\ Forks' /\ Parents'
    BY <1>1, <2>1, <2>2, <2>3, <2>4, WakeStep, Zenon
  <2>6. \A q \in Slots : state'[q] = state[q] \/ (state[q] = "SLEEPING" /\ state'[q] = "RUNNABLE")
    BY <1>1, <2>1, WakesIs, Zenon
  <2>7. Waiters'
    <3>1. \A q \in Slots : SameWait(q)
      BY <1>1, <2>3, Zenon DEF SameWait, WaitLabels, Only
    <3>2. \A j \in Slots : /\ state'[j] = "ZOMBIE" => state[j] = "ZOMBIE" /\ parent'[j] = parent[j] /\ pid'[j] = pid[j]
                           /\ state'[j] = "SLEEPING" => state[j] = "SLEEPING" /\ arg'[j] = arg[j]
      BY <1>1, <2>2, <2>3, <2>6, ZenonT(30) DEF Only
    <3>3. WakingInit => WakingInit'
      BY <1>1, <2>3, Zenon DEF WakingInit, Only, initproc
    <3> QED
      BY <3>1, <3>2, <3>3, WaitersKept, Zenon
  <2>8. Marks'
    BY <1>1, <1>3, <2>3, <2>4 DEF Inductive, Marks, KillHitsTarget, Only, Slots
  <2> QED
    BY <2>5, <2>7, <2>8 DEF Inductive
<1> QED
  BY <1>2, <1>3, Zenon

------------------------------------------------------------------------------
(* Steps of a CPU: the scheduler, and threads that leave it *)

LockLabels == WaitLocked \cup {"fork_copy", "sched"}

\* What a step of CPU c must respect when it changes what the CPU runs.
LEMMA CpuKept ==
    ASSUME Inductive, NEW c \in CPUs,
           \A d \in CPUs \ {c} : cpu'[d] = cpu[d] /\ scan'[d] = scan[d] /\ best'[d] = best[d],
           \A d \in CPUs \ {c} : cpu[d] # 0 =>
              /\ cpu[d] # cpu'[c] /\ state'[cpu[d]] = state[cpu[d]]
              /\ pc'[cpu[d]] = pc[cpu[d]] /\ child'[cpu[d]] = child[cpu[d]],
           \A d \in CPUs \ {c} : best[d] # 0 => state'[best[d]] = "RUNNABLE",
           cpu'[c] # 0 => state'[cpu'[c]] \in IF pc'[cpu'[c]] = "sched" THEN {"SLEEPING", "ZOMBIE"} ELSE {"RUNNING"},
           best'[c] # 0 => cpu'[c] = 0 /\ best'[c] < scan'[c] /\ state'[best'[c]] = "RUNNABLE",
           \A q \in Slots : state'[q] = "RUNNING" => cpu'[c] = q \/ (state[q] = "RUNNING" /\ cpu[c] # q),
           \A q \in Slots : pc'[q] \in LockLabels => cpu'[c] = q \/ (pc[q] \in LockLabels /\ cpu[c] # q),
           \A q \in Slots : state'[q] = "SLEEPING" => chan'[q] = q,
           \A d \in CPUs \ {c}, l \in 0 .. NPROC : lock'[l] = d <=> lock[l] = d,
           \A l \in 0 .. NPROC : lock'[l] = c <=> Holds(c, l)'
    PROVE  OnCpu' /\ Threads' /\ Locking'
<1>1. OnCpu'
  <2>1. \A a, b \in CPUs : cpu'[a] # 0 /\ cpu'[a] = cpu'[b] => a = b
    BY SMTT(30) DEF Inductive, OnCpu
  <2>2. \A q \in Slots : state'[q] = "RUNNING" => \E d \in CPUs : cpu'[d] = q
    BY SMTT(30) DEF Inductive, OnCpu
  <2> QED
    BY <2>1, <2>2, Zenon DEF OnCpu
<1>2. Threads'
  BY SMTT(30) DEF Inductive, Threads
<1>3. \A d \in CPUs \ {c}, l \in 0 .. NPROC : Holds(d, l)' <=> Holds(d, l)
  BY SMTT(30) DEF Holds, wait_lock
<1>4. \A d \in CPUs, l \in 0 .. NPROC : lock'[l] = d <=> Holds(d, l)'
  BY <1>3, SMTT(30) DEF Inductive, Locking
<1>5. \A q \in Slots : pc'[q] \in LockLabels => \E d \in CPUs : cpu'[d] = q
  BY SMTT(30) DEF Inductive, Locking, LockLabels
<1>6. \A d \in CPUs : best'[d] # 0 => cpu'[d] = 0 /\ best'[d] < scan'[d] /\ state'[best'[d]] = "RUNNABLE"
  BY DEF Inductive, Locking
<1> QED
  BY <1>1, <1>2, <1>4, <1>5, <1>6, Zenon DEF Locking, LockLabels

\* The thread of p takes p->lock, releases wait_lock and goes to sched.
LEMMA LeaveStep ==
    ASSUME Inductive, NEW c \in CPUs, NEW p \in Slots, cpu[c] = p, pc[p] \in {"exit_lock", "sleep"}, lock[p] = None,
           lock' = [lock EXCEPT ![p] = c, ![wait_lock] = None], NEW s \in {"SLEEPING", "ZOMBIE"},
           state' = [state EXCEPT ![p] = s], chan' \in [Slots -> 0 .. NPROC],
           \A q \in Slots : chan'[q] = chan[q] \/ (q = p /\ chan'[q] = p), s = "SLEEPING" => chan'[p] = p,
           Goto(p, "sched"), UNCHANGED <<idx, arg, kids, child>>, UNCHANGED <<pid, parent, killed, nextpid>>,
           UNCHANGED sched
    PROVE  /\ TypeOK' /\ OnCpu' /\ Threads' /\ Locking' /\ Pids' /\ Forks' /\ Marks'
           /\ \A q \in Slots \ {p} : state'[q] = state[q] /\ pc'[q] = pc[q] /\ pc[q] \notin WaitLocked
           /\ state'[p] = s /\ pc'[p] = "sched" /\ state[p] = "RUNNING"
<1>1. TableType /\ LockType /\ SchedType /\ ThreadType /\ UNCHANGED <<cpu, scan, best>>
  BY TypeSplit, Zenon DEF Inductive, sched
<1>2. state[p] = "RUNNING" /\ pc[p] \in WaitLocked /\ p # 0 /\ p \in 0 .. NPROC /\ 0 \in 0 .. NPROC /\ wait_lock = 0
  BY Running, Numbers, Zenon DEF WaitLocked
<1>3. ThreadType' /\ pc'[p] = "sched" /\ Only(p)
  BY <1>1, GotoIs, Zenon DEF Labels
<1>4. TableType' /\ state'[p] = s /\ \A q \in Slots \ {p} : state'[q] = state[q]
  BY <1>1, Zenon DEF TableType, States
<1>5. \A q \in Slots \ {p} : pc[q] \notin WaitLocked
  BY <1>2, WaitLockOnce, Zenon
<1>6. /\ LockType' /\ \A d \in CPUs \ {c}, l \in 0 .. NPROC : lock'[l] = d <=> lock[l] = d
      /\ \A l \in 0 .. NPROC : lock'[l] = c <=> Holds(c, l)'
  <2>1. \A l \in 0 .. NPROC : lock[l] = c <=> l = 0
    BY <1>2, HeldBy
  <2>2. \A l \in 0 .. NPROC : Holds(c, l)' <=> l = p
    BY <1>1, <1>3, HeldNext DEF WaitLocked
  <2>3. /\ LockType' /\ lock'[p] = c /\ lock'[0] = None
        /\ \A l \in 0 .. NPROC : l # p /\ l # 0 => lock'[l] = lock[l]
    BY <1>1, <1>2, Zenon DEF LockType
  <2>4. None \notin CPUs
    BY Numbers, Zenon
  <2> QED
    BY <1>2, <2>1, <2>2, <2>3, <2>4, ZenonT(30)
<1>7. TypeOK'
  BY <1>1, <1>3, <1>4, <1>6, TypeSplitNext, Zenon DEF SchedType
<1>8. OnCpu' /\ Threads' /\ Locking'
  <2>1. \A d \in CPUs \ {c} : cpu'[d] = cpu[d] /\ scan'[d] = scan[d] /\ best'[d] = best[d]
    BY <1>1, Zenon
  <2>2. \A d \in CPUs \ {c} : cpu[d] # 0 => cpu[d] \in Slots /\ cpu[d] # p
    BY <1>1, <1>2, Numbers, Zenon DEF Inductive, OnCpu, SchedType
  <2>3. \A d \in CPUs \ {c} : cpu[d] # 0 =>
           /\ cpu[d] # cpu'[c] /\ state'[cpu[d]] = state[cpu[d]]
           /\ pc'[cpu[d]] = pc[cpu[d]] /\ child'[cpu[d]] = child[cpu[d]]
    BY <1>1, <1>3, <1>4, <2>2, Zenon DEF Only
  <2>4. \A d \in CPUs : best[d] # 0 => best[d] \in Slots /\ cpu[d] = 0 /\ best[d] < scan[d] /\ state[best[d]] = "RUNNABLE"
    BY <1>1, Numbers, Zenon DEF SchedType, Inductive, Locking
  <2>5. \A d \in CPUs \ {c} : best[d] # 0 => state'[best[d]] = "RUNNABLE"
    BY <1>2, <1>4, <2>4, Zenon
  <2>6. cpu'[c] = p /\ best'[c] = 0
    BY <1>1, <1>2, <2>4, Zenon
  <2>7. \A q \in Slots : state'[q] = "RUNNING" => cpu'[c] = q \/ (state[q] = "RUNNING" /\ cpu[c] # q)
    BY <1>4, Zenon
  <2>8. \A q \in Slots : pc'[q] \in LockLabels => cpu'[c] = q \/ (pc[q] \in LockLabels /\ cpu[c] # q)
    BY <1>3, <2>6, Zenon DEF Only
  <2>9. \A q \in Slots : state'[q] = "SLEEPING" => chan'[q] = q
    BY <1>4, Zenon DEF Inductive, Threads
  <2>10. cpu'[c] # 0 => state'[cpu'[c]] \in IF pc'[cpu'[c]] = "sched" THEN {"SLEEPING", "ZOMBIE"} ELSE {"RUNNING"}
    BY <1>3, <1>4, <2>6, Zenon
  <2> QED
    BY <1>6, <2>1, <2>3, <2>5, <2>6, <2>7, <2>8, <2>9, <2>10, CpuKept, Zenon
<1>9. Pids'
  <2>1. \A q \in Slots : state'[q] = "UNUSED" => state[q] = "UNUSED"
    BY <1>4, Zenon
  <2> QED
    BY <2>1, PidsKept, Zenon
<1>10. Forks'
  <2>1. \A q \in Slots : pc[q] \in ForkLabels => child[q] \in Slots /\ state[child[q]] = "USED"
    BY Zenon DEF Inductive, Forks, ForkLabels
  <2>2. \A q \in Slots : pc[q] = "fork_run" => parent[child[q]] = q
    BY Zenon DEF Inductive, Forks
  <2> QED
    BY <1>2, <1>3, <1>4, <2>1, <2>2, ForksKept, SMTT(30) DEF ForkLabels, Only
<1>11. Marks'
  <2>1. \A q \in Slots : pc'[q] = "kill" => arg'[q] \in KillPids
    BY <1>3, Zenon DEF Inductive, Marks, Only
  <2> QED
    BY <2>1, MarksKept, Zenon
<1> QED
  BY <1>2, <1>3, <1>4, <1>5, <1>7, <1>8, <1>9, <1>10, <1>11, ZenonT(30) DEF Only

LEMMA ExitZombieInv ==
    ASSUME Inductive, NEW c \in CPUs, NEW p \in Slots, ExitZombie(c, p)
    PROVE  Inductive'
<1>1. /\ cpu[c] = p /\ pc[p] = "exit_lock" /\ lock[p] = None /\ state' = [state EXCEPT ![p] = "ZOMBIE"]
      /\ lock' = [lock EXCEPT ![p] = c, ![wait_lock] = None] /\ Goto(p, "sched")
      /\ UNCHANGED <<idx, arg, kids, child>> /\ UNCHANGED <<pid, parent, killed, nextpid>> /\ UNCHANGED sched
      /\ UNCHANGED chan
  BY Zenon DEF ExitZombie, At, Free
<1>2. /\ TypeOK' /\ OnCpu' /\ Threads' /\ Locking' /\ Pids' /\ Forks' /\ Marks'
      /\ \A q \in Slots \ {p} : state'[q] = state[q] /\ pc'[q] = pc[q] /\ pc[q] \notin WaitLocked
      /\ state'[p] = "ZOMBIE" /\ pc'[p] = "sched" /\ state[p] = "RUNNING"
  <2>1. chan' \in [Slots -> 0 .. NPROC]
    BY <1>1, Zenon DEF Inductive, TypeOK
  <2>2. pc[p] \in {"exit_lock", "sleep"}
    BY <1>1, Zenon
  <2> QED
    BY <1>1, <2>1, <2>2, LeaveStep, ZenonT(30)
<1>3. p # initproc /\ parent[p] \in Slots /\ \A i \in Slots : parent[i] # p
  BY <1>1, HasParent, Zenon DEF Inductive, Parents, ExitLabels
<1>4. Parents'
  <2>1. \A q \in Slots : pc'[q] = "exit" => q # initproc
    BY <1>2, Zenon DEF Inductive, Parents
  <2>2. \A q \in Slots : pc'[q] \in ExitLabels => pc[q] \in ExitLabels
    BY <1>2, Zenon DEF ExitLabels
  <2>3. \A i \in Slots : state[i] \in Alive => state'[i] \in Alive \/ (i # initproc /\ \A j \in Slots : parent[j] # i)
    BY <1>2, <1>3, Zenon
  <2>4. \A i \in Slots : state'[i] \in Alive \cup {"ZOMBIE"} => state[i] \in Alive \cup {"ZOMBIE"}
    BY <1>2, Zenon DEF Alive
  <2> QED
    BY <1>1, <2>1, <2>2, <2>3, <2>4, ParentsKept, Zenon
<1>5. Waiters'
  <2>1. \A q \in Slots : WaitOK(q)'
    BY <1>2, Zenon DEF WaitOK, WaitLabels, WaitLocked
  <2>2. ~WakingInit
    BY <1>1, <1>2, Zenon DEF WakingInit, WaitLocked
  <2>3. state[parent[p]] # "SLEEPING"
    BY <1>1, Zenon DEF Inductive, Waiters
  <2>4. ASSUME NEW q \in Slots, NEW i \in Slots, Missed(q, i)' PROVE FALSE
    <3>1. q # p /\ state[q] = "SLEEPING" /\ parent[i] = q /\ arg[q] \in {0, pid[i]} /\ state'[i] = "ZOMBIE"
      BY <1>1, <1>2, <2>4 DEF Missed, WaitsFor
    <3>2. i # p
      BY <2>3, <3>1, Zenon
    <3>3. Missed(q, i)
      BY <1>2, <3>1, <3>2, Zenon DEF Missed, WaitsFor
    <3> QED
      BY <2>2, <3>3, WaitersIs, Zenon DEF Inductive
  <2> QED
    BY <2>1, <2>4, WaitersNext, Zenon
<1> QED
  BY <1>2, <1>4, <1>5, Zenon DEF Inductive

LEMMA SleepInv ==
    ASSUME Inductive, NEW c \in CPUs, NEW p \in Slots, Sleep(c, p)
    PROVE  Inductive'
<1>1. /\ cpu[c] = p /\ pc[p] = "sleep" /\ lock[p] = None /\ state' = [state EXCEPT ![p] = "SLEEPING"]
      /\ lock' = [lock EXCEPT ![p] = c, ![wait_lock] = None] /\ Goto(p, "sched")
      /\ UNCHANGED <<idx, arg, kids, child>> /\ UNCHANGED <<pid, parent, killed, nextpid>> /\ UNCHANGED sched
      /\ chan' = [chan EXCEPT ![p] = p]
  BY Zenon DEF Sleep, At, Free
<1>2. /\ TypeOK' /\ OnCpu' /\ Threads' /\ Locking' /\ Pids' /\ Forks' /\ Marks'
      /\ \A q \in Slots \ {p} : state'[q] = state[q] /\ pc'[q] = pc[q] /\ pc[q] \notin WaitLocked
      /\ state'[p] = "SLEEPING" /\ pc'[p] = "sched" /\ state[p] = "RUNNING"
  <2>1. /\ chan' \in [Slots -> 0 .. NPROC] /\ chan'[p] = p
        /\ \A q \in Slots : chan'[q] = chan[q] \/ (q = p /\ chan'[q] = p)
    BY <1>1, Numbers, Zenon DEF Inductive, TypeOK
  <2>2. pc[p] \in {"exit_lock", "sleep"}
    BY <1>1, Zenon
  <2> QED
    BY <1>1, <2>1, <2>2, LeaveStep, ZenonT(30)
<1>3. Parents'
  <2>1. \A q \in Slots : pc'[q] = "exit" => q # initproc
    BY <1>2, Zenon DEF Inductive, Parents
  <2>2. \A q \in Slots : pc'[q] \in ExitLabels => pc[q] \in ExitLabels
    BY <1>2, Zenon DEF ExitLabels
  <2>3. \A i \in Slots : /\ state[i] \in Alive => state'[i] \in Alive
                         /\ state'[i] \in Alive \cup {"ZOMBIE"} => state[i] \in Alive \cup {"ZOMBIE"}
    BY <1>2, Zenon DEF Alive
  <2> QED
    BY <1>1, <2>1, <2>2, <2>3, ParentsKept, Zenon
<1>4. Waiters'
  <2>1. \A q \in Slots : WaitOK(q)'
    BY <1>2, Zenon DEF WaitOK, WaitLabels, WaitLocked
  <2>2. ~WakingInit
    BY <1>1, <1>2, Zenon DEF WakingInit, WaitLocked
  <2>3. \A i \in Slots : WaitsFor(p, i) => state[i] # "ZOMBIE"
    BY <1>1, Zenon DEF Inductive, Waiters
  <2>4. ASSUME NEW q \in Slots, NEW i \in Slots, Missed(q, i)' PROVE FALSE
    <3>1. WaitsFor(q, i) /\ state'[i] = "ZOMBIE" /\ state'[q] = "SLEEPING"
      BY <1>1, <2>4, Zenon DEF Missed, WaitsFor
    <3>2. i # p /\ state[i] = "ZOMBIE" /\ q # p
      BY <1>2, <2>3, <3>1, Zenon
    <3>3. Missed(q, i)
      BY <1>2, <3>1, <3>2, Zenon DEF Missed
    <3> QED
      BY <2>2, <3>3, WaitersIs DEF Inductive
  <2> QED
    BY <2>1, <2>4, WaitersNext
<1> QED
  BY <1>2, <1>3, <1>4, Zenon DEF Inductive

\* The scheduler changes no thread, and of a process only that it runs.
LEMMA RestKept ==
    ASSUME Inductive, UNCHANGED <<pid, parent, killed, nextpid>>, UNCHANGED <<pc, idx, arg, kids, child>>,
           \A q \in Slots : state'[q] = state[q] \/ (state[q] \in {"RUNNABLE", "RUNNING"}
                                                     /\ state'[q] \in {"RUNNABLE", "RUNNING"})
    PROVE  Pids' /\ Forks' /\ Parents' /\ Waiters' /\ Marks'
<1>1. Pids'
  BY PidsKept, Zenon
<1>2. Forks'
  <2>1. \A q \in Slots : pc[q] \in ForkLabels => child[q] \in Slots /\ state[child[q]] = "USED"
    BY Zenon DEF Inductive, Forks, ForkLabels
  <2>2. \A q \in Slots : pc[q] = "fork_run" => parent[child[q]] = q
    BY Zenon DEF Inductive, Forks
  <2> QED
    BY <2>1, <2>2, ForksKept, Zenon DEF ForkLabels
<1>3. Parents'
  <2>1. \A q \in Slots : pc'[q] = "exit" => q # initproc
    BY Zenon DEF Inductive, Parents
  <2>2. \A i \in Slots : /\ state[i] \in Alive => state'[i] \in Alive
                         /\ state'[i] \in Alive \cup {"ZOMBIE"} => state[i] \in Alive \cup {"ZOMBIE"}
    BY Zenon DEF Alive
  <2> QED
    BY <2>1, <2>2, ParentsKept, Zenon
<1>4. Waiters'
  <2>1. \A q \in Slots : SameWait(q)
    BY Zenon DEF SameWait
  <2>2. WakingInit => WakingInit'
    BY Zenon DEF WakingInit, initproc
  <2> QED
    BY <2>1, <2>2, WaitersKept, Zenon
<1>5. Marks'
  BY MarksKept, Zenon DEF Inductive, Marks
<1> QED
  BY <1>1, <1>2, <1>3, <1>4, <1>5, Zenon

\* What the invariant says of the CPUs other than c, and of a scheduler on c.
LEMMA CpuFacts ==
    ASSUME Inductive, NEW c \in CPUs
    PROVE  /\ \A d \in CPUs : cpu[d] # 0 => cpu[d] \in Slots /\ best[d] = 0
           /\ \A d \in CPUs \ {c} : cpu[d] # 0 => cpu[d] # cpu[c]
           /\ \A d \in CPUs : best[d] # 0 =>
                 best[d] \in Slots /\ cpu[d] = 0 /\ best[d] < scan[d] /\ state[best[d]] = "RUNNABLE"
           /\ cpu[c] = 0 => \A l \in 0 .. NPROC : lock[l] = c <=> l # 0 /\ l = best[c]
           /\ \A q \in Slots : pc[q] \in LockLabels => state[q] \notin {"UNUSED", "USED", "RUNNABLE"}
<1>1. SchedType
  BY TypeSplit, Zenon DEF Inductive
<1>2. \A d \in CPUs : best[d] # 0 =>
         best[d] \in Slots /\ cpu[d] = 0 /\ best[d] < scan[d] /\ state[best[d]] = "RUNNABLE"
  BY <1>1, Numbers, Zenon DEF SchedType, Inductive, Locking
<1>3. \A d \in CPUs : cpu[d] # 0 => cpu[d] \in Slots /\ best[d] = 0
  BY <1>1, <1>2, Numbers, Zenon DEF SchedType
<1>4. \A d \in CPUs \ {c} : cpu[d] # 0 => cpu[d] # cpu[c]
  BY Zenon DEF Inductive, OnCpu
<1>5. cpu[c] = 0 => \A l \in 0 .. NPROC : lock[l] = c <=> l # 0 /\ l = best[c]
  BY Zenon DEF Inductive, Locking, Holds
<1>6. \A q \in Slots : pc[q] \in LockLabels => state[q] \notin {"UNUSED", "USED", "RUNNABLE"}
  BY LockOwner, Zenon DEF LockLabels
<1> QED
  BY <1>2, <1>3, <1>4, <1>5, <1>6, Zenon

LEMMA SchedSlotInv ==
    ASSUME Inductive, NEW c \in CPUs, SchedSlot(c) \/ SchedNone(c)
    PROVE  Inductive'
<1>1. /\ cpu[c] = 0 /\ UNCHANGED <<state, pid, parent, killed, chan, nextpid>> /\ UNCHANGED cpu
      /\ UNCHANGED <<pc, idx, arg, kids, child>>
  BY Zenon DEF SchedSlot, SchedNone, table, thread
<1>2. TableType /\ LockType /\ SchedType /\ ThreadType
  BY TypeSplit, Zenon DEF Inductive
<1>3. /\ SchedType' /\ LockType'
      /\ \A d \in CPUs \ {c} : scan'[d] = scan[d] /\ best'[d] = best[d]
      /\ best'[c] # 0 => best'[c] < scan'[c] /\ state[best'[c]] = "RUNNABLE"
      /\ \A d \in CPUs \ {c}, l \in 0 .. NPROC : lock'[l] = d <=> lock[l] = d
      /\ \A l \in 0 .. NPROC : lock'[l] = c <=> l # 0 /\ l = best'[c]
  <2> DEFINE i == scan[c]
  <2>1. /\ \A l \in 0 .. NPROC : lock[l] = c <=> l # 0 /\ l = best[c]
        /\ best[c] # 0 => best[c] \in Slots /\ best[c] < i /\ state[best[c]] = "RUNNABLE"
    BY <1>1, CpuFacts, Zenon
  <2>2. i \in Nat /\ best[c] \in Nat /\ None \notin CPUs /\ 1 \in 1 .. NPROC + 1
        /\ (i <= NPROC => i \in Slots /\ i \in 0 .. NPROC /\ i # 0 /\ i + 1 \in 1 .. NPROC + 1)
    BY <1>2, Numbers DEF SchedType, Slots
  <2>3. CASE SchedNone(c)
    BY <1>2, <2>1, <2>2, <2>3, Zenon DEF SchedNone, SchedType, LockType
  <2>4. CASE SchedSlot(c) /\ UNCHANGED <<best, lock>>
    <3>1. scan' = [scan EXCEPT ![c] = i + 1] /\ i <= NPROC
      BY <2>4, Zenon DEF SchedSlot
    <3>2. SchedType' /\ scan'[c] = i + 1 /\ \A d \in CPUs \ {c} : scan'[d] = scan[d]
      BY <1>1, <1>2, <2>2, <2>4, <3>1, ZenonT(30) DEF SchedType
    <3>3. best'[c] # 0 => best'[c] < scan'[c]
      BY <2>1, <2>2, <2>4, <3>2, SMTT(30)
    <3> QED
      BY <1>2, <2>1, <2>4, <3>2, <3>3, Zenon DEF LockType
  <2>5. CASE SchedSlot(c) /\ ~UNCHANGED <<best, lock>>
    <3>1. /\ scan' = [scan EXCEPT ![c] = i + 1] /\ i <= NPROC /\ lock[i] = None /\ state[i] = "RUNNABLE"
          /\ best' = [best EXCEPT ![c] = i]
          /\ lock' = [l \in 0 .. NPROC |-> IF l = i THEN c
                                           ELSE IF l # 0 /\ l = best[c] THEN None ELSE lock[l]]
      BY <2>5, Zenon DEF SchedSlot, Free
    <3>2. /\ SchedType' /\ scan'[c] = i + 1 /\ best'[c] = i
          /\ \A d \in CPUs \ {c} : scan'[d] = scan[d] /\ best'[d] = best[d]
      BY <1>1, <1>2, <2>2, <3>1, Zenon DEF SchedType
    <3>3. /\ LockType' /\ \A d \in CPUs \ {c}, l \in 0 .. NPROC : lock'[l] = d <=> lock[l] = d
          /\ \A l \in 0 .. NPROC : lock'[l] = c <=> l # 0 /\ l = i
      BY <1>2, <2>1, <2>2, <3>1, Zenon DEF LockType
    <3> QED
      BY <2>2, <3>1, <3>2, <3>3
  <2> QED
    BY <2>3, <2>4, <2>5, Zenon
<1>4. TypeOK'
  BY <1>1, <1>2, <1>3, TypeSplitNext, Zenon DEF TableType, ThreadType
<1>5. OnCpu' /\ Threads' /\ Locking'
  <2>1. \A d \in CPUs \ {c} : cpu'[d] = cpu[d] /\ scan'[d] = scan[d] /\ best'[d] = best[d]
    BY <1>1, <1>3, Zenon
  <2>2. \A d \in CPUs \ {c} : cpu[d] # 0 =>
           /\ cpu[d] # cpu'[c] /\ state'[cpu[d]] = state[cpu[d]]
           /\ pc'[cpu[d]] = pc[cpu[d]] /\ child'[cpu[d]] = child[cpu[d]]
    BY <1>1, Zenon
  <2>3. \A d \in CPUs \ {c} : best[d] # 0 => state'[best[d]] = "RUNNABLE"
    BY <1>1, CpuFacts, Zenon
  <2>4. cpu'[c] = 0 /\ \A q \in Slots : cpu[c] # q
    BY <1>1, Numbers, Zenon
  <2>5. \A q \in Slots : state'[q] = "SLEEPING" => chan'[q] = q
    BY <1>1, Zenon DEF Inductive, Threads
  <2>6. \A l \in 0 .. NPROC : lock'[l] = c <=> Holds(c, l)'
    BY <1>3, <2>4, Zenon DEF Holds
  <2> QED
    BY <1>1, <1>3, <2>1, <2>2, <2>3, <2>4, <2>5, <2>6, CpuKept, Zenon
<1>6. Pids' /\ Forks' /\ Parents' /\ Waiters' /\ Marks'
  BY <1>1, RestKept, Zenon
<1> QED
  BY <1>4, <1>5, <1>6, Zenon DEF Inductive

LEMMA DispatchInv ==
    ASSUME Inductive, NEW c \in CPUs, Dispatch(c)
    PROVE  Inductive'
<1> DEFINE p == best[c]
<1>1. /\ cpu[c] = 0 /\ p # 0 /\ state' = [state EXCEPT ![p] = "RUNNING"] /\ chan' = [chan EXCEPT ![p] = 0]
      /\ cpu' = [cpu EXCEPT ![c] = p] /\ lock' = [lock EXCEPT ![p] = None]
      /\ best' = [best EXCEPT ![c] = 0] /\ scan' = [scan EXCEPT ![c] = 1]
      /\ UNCHANGED <<pid, parent, killed, nextpid>> /\ UNCHANGED <<pc, idx, arg, kids, child>>
  BY Zenon DEF Dispatch, thread
<1>2. TableType /\ LockType /\ SchedType /\ ThreadType
  BY TypeSplit, Zenon DEF Inductive
<1>3. /\ p \in Slots /\ state[p] = "RUNNABLE" /\ \A l \in 0 .. NPROC : lock[l] = c <=> l # 0 /\ l = p
      /\ pc[p] \notin LockLabels
  BY <1>1, CpuFacts
<1>4. \A d \in CPUs : cpu[d] # p /\ (best[d] = p => d = c)
  <2>1. \A d \in CPUs : cpu[d] # p
    BY <1>3, OffCpu, Zenon
  <2>2. \A d \in CPUs : best[d] = p => lock[p] = d
    BY <1>1, <1>3, Numbers, CpuFacts, Zenon
  <2> QED
    BY <1>1, <1>3, <2>1, <2>2, Numbers, Zenon
<1> HIDE DEF p
<1>5. /\ TableType' /\ state'[p] = "RUNNING"
      /\ \A q \in Slots \ {p} : state'[q] = state[q] /\ chan'[q] = chan[q]
  BY <1>1, <1>2, <1>3, Numbers, Zenon DEF TableType, States
<1>6. /\ SchedType' /\ cpu'[c] = p /\ best'[c] = 0
      /\ \A d \in CPUs \ {c} : cpu'[d] = cpu[d] /\ scan'[d] = scan[d] /\ best'[d] = best[d]
  <2>1. p \in 0 .. NPROC /\ 0 \in 0 .. NPROC /\ 1 \in 1 .. NPROC + 1
    BY <1>3, Numbers
  <2> QED
    BY <1>1, <1>2, <2>1, Zenon DEF SchedType
<1>7. /\ LockType' /\ \A d \in CPUs \ {c}, l \in 0 .. NPROC : lock'[l] = d <=> lock[l] = d
      /\ \A l \in 0 .. NPROC : lock'[l] # c
  <2>1. p \in 0 .. NPROC /\ lock[p] = c
    BY <1>1, <1>3, Numbers, Zenon
  <2>2. Drops(c, p)
    <3>1. LockType /\ p \in 0 .. NPROC /\ lock[p] = c /\ lock' = [lock EXCEPT ![p] = None]
      BY <1>1, <1>2, <2>1, Zenon
    <3> QED
      BY <3>1, LockDrop, Zenon
  <2> QED
    BY <1>3, <2>2, Zenon DEF Drops
<1>8. TypeOK'
  BY <1>1, <1>2, <1>5, <1>6, <1>7, TypeSplitNext, SMTT(30) DEF ThreadType
<1>9. OnCpu' /\ Threads' /\ Locking'
  <2>1. \A d \in CPUs \ {c} : cpu[d] # 0 =>
           /\ cpu[d] # cpu'[c] /\ state'[cpu[d]] = state[cpu[d]]
           /\ pc'[cpu[d]] = pc[cpu[d]] /\ child'[cpu[d]] = child[cpu[d]]
    BY <1>1, <1>4, <1>5, <1>6, CpuFacts
  <2>2. \A d \in CPUs \ {c} : best[d] # 0 => state'[best[d]] = "RUNNABLE"
    BY <1>4, <1>5, CpuFacts, Zenon
  <2>3. \A q \in Slots : cpu[c] # q
    BY <1>1, Numbers, Zenon
  <2>4. \A q \in Slots : state'[q] = "RUNNING" => cpu'[c] = q \/ (state[q] = "RUNNING" /\ cpu[c] # q)
    BY <1>5, <1>6, <2>3, Zenon
  <2>5. \A q \in Slots : state'[q] = "SLEEPING" => chan'[q] = q
    BY <1>5, Zenon DEF Inductive, Threads
  <2>6. \A l \in 0 .. NPROC : lock'[l] = c <=> Holds(c, l)'
    BY <1>1, <1>3, <1>6, <1>7, HeldNext, Zenon DEF LockLabels
  <2>7. cpu'[c] # 0 => state'[cpu'[c]] \in IF pc'[cpu'[c]] = "sched" THEN {"SLEEPING", "ZOMBIE"} ELSE {"RUNNING"}
    BY <1>1, <1>3, <1>5, <1>6 DEF LockLabels
  <2> QED
    BY <1>1, <1>6, <1>7, <2>1, <2>2, <2>3, <2>4, <2>5, <2>6, <2>7, CpuKept, SMTT(30)
<1>10. Pids' /\ Forks' /\ Parents' /\ Waiters' /\ Marks'
  BY <1>1, <1>3, <1>5, RestKept, ZenonT(30)
<1> QED
  BY <1>8, <1>9, <1>10, Zenon DEF Inductive

\* CPU c leaves the thread of p, which holds no lock any more.
LEMMA GoneStep ==
    ASSUME Inductive, NEW c \in CPUs, NEW p \in Slots, cpu[c] = p, cpu' = [cpu EXCEPT ![c] = 0],
           UNCHANGED <<scan, best>>, LockType', ThreadType', pc'[p] \notin LockLabels, Only(p),
           \A d \in CPUs \ {c}, l \in 0 .. NPROC : lock'[l] = d <=> lock[l] = d,
           \A l \in 0 .. NPROC : lock'[l] # c,
           UNCHANGED <<pid, parent, killed, chan, nextpid>>, state'[p] \in {"SLEEPING", "ZOMBIE", "RUNNABLE"},
           state' \in [Slots -> States], \A q \in Slots \ {p} : state'[q] = state[q],
           state'[p] = state[p] \/ state'[p] = "RUNNABLE"
    PROVE  TypeOK' /\ OnCpu' /\ Threads' /\ Locking'
<1>1. TableType /\ SchedType /\ p # 0 /\ 0 \in 0 .. NPROC
  BY TypeSplit, Numbers, Zenon DEF Inductive
<1>2. TableType' /\ SchedType' /\ cpu'[c] = 0 /\ \A d \in CPUs \ {c} : cpu'[d] = cpu[d]
  BY <1>1, Zenon DEF TableType, SchedType
<1>3. TypeOK'
  BY <1>2, TypeSplitNext, Zenon
<1>4. best[c] = 0 /\ best'[c] = 0 /\ \A d \in CPUs \ {c} : cpu[d] # 0 => cpu[d] \in Slots /\ cpu[d] # p
  BY <1>1, CpuFacts, Zenon
<1>5. \A d \in CPUs \ {c} : cpu[d] # 0 =>
         /\ cpu[d] # cpu'[c] /\ state'[cpu[d]] = state[cpu[d]]
         /\ pc'[cpu[d]] = pc[cpu[d]] /\ child'[cpu[d]] = child[cpu[d]]
  BY <1>2, <1>4, Zenon DEF Only
<1>6. \A d \in CPUs \ {c} : best[d] # 0 => state'[best[d]] = "RUNNABLE"
  <2>1. \A d \in CPUs : best[d] # 0 => best[d] \in Slots /\ state[best[d]] = "RUNNABLE"
    BY CpuFacts, Zenon
  <2> QED
    BY <2>1, ZenonT(30)
<1>7. \A q \in Slots : /\ state'[q] = "RUNNING" => state[q] = "RUNNING" /\ cpu[c] # q
                       /\ pc'[q] \in LockLabels => pc[q] \in LockLabels /\ cpu[c] # q
                       /\ state'[q] = "SLEEPING" => chan'[q] = q
  <2>1. \A q \in Slots : q # p => state'[q] = state[q] /\ pc'[q] = pc[q] /\ chan'[q] = chan[q] /\ cpu[c] # q
    BY Zenon DEF Only
  <2>2. /\ \A q \in Slots : state[q] = "SLEEPING" => chan[q] = q
        /\ state[p] # "RUNNABLE" => state'[p] = "RUNNABLE" \/ state'[p] = state[p]
    BY Zenon DEF Inductive, Threads
  <2>3. \A q \in Slots : state'[q] = "RUNNING" => state[q] = "RUNNING" /\ cpu[c] # q
    BY <2>1, <2>2
  <2>4. \A q \in Slots : pc'[q] \in LockLabels => pc[q] \in LockLabels /\ cpu[c] # q
    BY <2>1, Zenon
  <2>5. \A q \in Slots : state'[q] = "SLEEPING" => chan'[q] = q
    BY <2>1, <2>2, SMTT(30)
  <2> QED
    BY <2>3, <2>4, <2>5, Zenon
<1>8. \A l \in 0 .. NPROC : lock'[l] = c <=> Holds(c, l)'
  BY <1>2, <1>4, Zenon DEF Holds
<1>9. \A d \in CPUs \ {c} : cpu'[d] = cpu[d] /\ scan'[d] = scan[d] /\ best'[d] = best[d]
  BY <1>2, Zenon
<1> QED
  BY <1>2, <1>3, <1>4, <1>5, <1>6, <1>7, <1>8, <1>9, CpuKept, SMTT(30)

LEMMA SwitchOutInv ==
    ASSUME Inductive, NEW c \in CPUs, NEW p \in Slots, SwitchOut(c, p)
    PROVE  Inductive'
<1>1. /\ cpu[c] = p /\ pc[p] = "sched" /\ cpu' = [cpu EXCEPT ![c] = 0] /\ lock' = [lock EXCEPT ![p] = None]
      /\ UNCHANGED <<state, pid, parent, killed, chan, nextpid>> /\ UNCHANGED <<scan, best>>
  BY Zenon DEF SwitchOut, At, table
<1>2. TableType /\ LockType /\ ThreadType /\ state[p] \in {"SLEEPING", "ZOMBIE"} /\ p \in 0 .. NPROC
  BY <1>1, TypeSplit, LockOwner, Numbers, ZenonT(30) DEF Inductive, Threads
<1>3. /\ ThreadType' /\ pc'[p] \in {"rewait", "user"} /\ Only(p)
      /\ state[p] = "SLEEPING" => arg'[p] = arg[p]
  <2>1. CASE state[p] = "SLEEPING"
    BY <1>2, <2>1, GotoIs, Zenon DEF SwitchOut, Labels
  <2>2. CASE state[p] # "SLEEPING"
    BY <1>2, <2>2, ReturnIs, Zenon DEF SwitchOut
  <2> QED
    BY <2>1, <2>2, Zenon
<1>4. /\ LockType' /\ \A d \in CPUs \ {c}, l \in 0 .. NPROC : lock'[l] = d <=> lock[l] = d
      /\ \A l \in 0 .. NPROC : lock'[l] # c
  <2>1. \A l \in 0 .. NPROC : lock[l] = c <=> l = p
    BY <1>1, HeldBy DEF WaitLocked
  <2>2. Drops(c, p)
    <3>1. LockType /\ p \in 0 .. NPROC /\ lock[p] = c /\ lock' = [lock EXCEPT ![p] = None]
      BY <1>1, <1>2, <2>1, Zenon
    <3> QED
      BY <3>1, LockDrop, Zenon
  <2> QED
    BY <2>1, <2>2, Zenon DEF Drops
<1>5. TypeOK' /\ OnCpu' /\ Threads' /\ Locking'
  <2>1. pc'[p] \notin LockLabels
    BY <1>3, Zenon DEF LockLabels, WaitLocked
  <2>2. state' \in [Slots -> States] /\ state'[p] \in {"SLEEPING", "ZOMBIE", "RUNNABLE"}
    BY <1>1, <1>2, Zenon DEF TableType
  <2> QED
    BY <1>1, <1>3, <1>4, <2>1, <2>2, GoneStep, Zenon
<1>6. Pids'
  BY <1>1, PidsKept, ZenonT(30)
<1>7. Forks'
  <2>1. \A q \in Slots : pc'[q] \in ForkLabels => pc'[q] = pc[q] /\ child'[q] = child[q]
    BY <1>3, Zenon DEF ForkLabels, Only
  <2>2. \A q \in Slots : pc[q] \in ForkLabels =>
           state'[child[q]] = "USED" /\ (pc[q] = "fork_run" => parent'[child[q]] = q)
    BY <1>1, Zenon DEF Inductive, Forks, ForkLabels
  <2> QED
    BY <2>1, <2>2, ForksKept, Zenon
<1>8. Parents'
  <2>1. \A q \in Slots : /\ pc'[q] = "exit" => q # initproc
                         /\ pc'[q] \in ExitLabels => pc[q] \in ExitLabels
    BY <1>3, Zenon DEF Inductive, Parents, ExitLabels, Only
  <2> QED
    BY <1>1, <2>1, ParentsKept, Zenon
<1>9. Waiters'
  <2>1. \A q \in Slots : SameWait(q)
    BY <1>1, <1>3, Zenon DEF SameWait, WaitLabels, Only
  <2>2. \A j \in Slots : state'[j] = "SLEEPING" => arg'[j] = arg[j]
    BY <1>1, <1>3, Zenon DEF Only
  <2>3. WakingInit => WakingInit'
    BY <1>1, <1>3, Zenon DEF WakingInit, Only, initproc
  <2> QED
    BY <1>1, <2>1, <2>2, <2>3, WaitersKept, Zenon
<1>10. Marks'
  <2>1. \A q \in Slots : pc'[q] = "kill" => arg'[q] \in KillPids
    BY <1>3, Zenon DEF Inductive, Marks, Only
  <2> QED
    BY <1>1, <2>1, MarksKept, Zenon
<1> QED
  BY <1>5, <1>6, <1>7, <1>8, <1>9, <1>10, Zenon DEF Inductive

LEMMA YieldInv ==
    ASSUME Inductive, NEW c \in CPUs, NEW p \in Slots, Yield(c, p)
    PROVE  Inductive'
<1>1. /\ cpu[c] = p /\ cpu' = [cpu EXCEPT ![c] = 0] /\ state' = [state EXCEPT ![p] = "RUNNABLE"]
      /\ (\A l \in 0 .. NPROC : lock[l] # c) /\ UNCHANGED lock /\ UNCHANGED <<scan, best>>
      /\ UNCHANGED <<pid, parent, killed, chan, nextpid>> /\ UNCHANGED <<pc, idx, arg, kids, child>>
  BY Zenon DEF Yield, HoldsNone, thread
<1>2. TableType /\ LockType /\ ThreadType /\ p \in 0 .. NPROC /\ 0 \in 0 .. NPROC /\ child[p] \in 0 .. NPROC
  BY TypeSplit, Numbers, Zenon DEF Inductive, ThreadType
<1>3. pc[p] \notin LockLabels
  BY <1>1, <1>2, HeldBy DEF LockLabels
<1>4. state[p] = "RUNNING"
  BY <1>1, <1>3, Running, Zenon DEF LockLabels
<1>5. state' \in [Slots -> States] /\ state'[p] = "RUNNABLE" /\ \A q \in Slots \ {p} : state'[q] = state[q]
  BY <1>1, <1>2, Zenon DEF TableType, States
<1>6. TypeOK' /\ OnCpu' /\ Threads' /\ Locking'
  <2>1. LockType' /\ ThreadType' /\ Only(p) /\ pc'[p] \notin LockLabels
    BY <1>1, <1>2, <1>3, Zenon DEF LockType, ThreadType, Only
  <2> QED
    BY <1>1, <1>5, <2>1, GoneStep, Zenon
<1>7. Pids' /\ Forks' /\ Parents' /\ Waiters' /\ Marks'
  BY <1>1, <1>4, <1>5, RestKept, Zenon
<1> QED
  BY <1>6, <1>7, Zenon DEF Inductive

------------------------------------------------------------------------------
(* The invariant *)

LEMMA InitInv == Init => Inductive
<1> SUFFICES ASSUME Init PROVE Inductive
  BY Zenon
<1>1. TypeOK
  <2>1. 1 \in 0 .. MaxPid /\ 0 \in 0 .. MaxPid /\ 2 \in 1 .. MaxPid + 1 /\ 1 \in 1 .. NPROC + 1 /\ 0 \in 0 .. NPROC
    BY ProcAssumption
  <2> QED
    BY <2>1, Zenon DEF Init, TypeOK
<1>3. \A p \in Slots : pc[p] = "user" /\ state[p] \in {"UNUSED", "RUNNABLE"} /\ killed[p] = 0
  BY Zenon DEF Init
<1>4. OnCpu /\ Threads /\ Forks /\ Marks
  BY <1>3 DEF Init, OnCpu, Threads, Forks, Marks, KillHitsTarget
<1>5. Locking
  BY <1>3, Numbers, Zenon DEF Init, Locking, Holds, WaitLocked
<1>6. Pids
  BY Numbers DEF Init, Pids
<1>7. Parents
  BY <1>3, Numbers, Zenon DEF Init, Parents, Alive
<1>8. Waiters
  BY <1>3, Zenon DEF Waiters
<1> QED
  BY <1>1, <1>4, <1>5, <1>6, <1>7, <1>8, Zenon DEF Inductive

LEMMA StutterInv ==
    ASSUME Inductive, UNCHANGED vars
    PROVE  Inductive'
<1>1. /\ UNCHANGED <<state, pid, parent, killed, chan, nextpid>> /\ UNCHANGED <<cpu, scan, best>> /\ UNCHANGED lock
      /\ UNCHANGED <<pc, idx, arg, kids, child>>
  BY Zenon DEF vars, table, sched, thread
<1>2. Pids' /\ Forks' /\ Parents' /\ Waiters' /\ Marks'
  BY <1>1, RestKept, Zenon
<1>3. TypeOK'
  BY <1>1, TypeSplit, TypeSplitNext, ZenonT(30) DEF Inductive, TableType, LockType, SchedType, ThreadType
<1>4. OnCpu' /\ Threads' /\ Locking'
  BY <1>1 DEF Inductive, OnCpu, Threads, Locking, Holds, wait_lock
<1> QED
  BY <1>2, <1>3, <1>4, Zenon DEF Inductive

LEMMA StepInv ==
    ASSUME Inductive, [Next]_vars
    PROVE  Inductive'
<1>1. CASE UNCHANGED vars
  BY <1>1, StutterInv, Zenon
<1>2. CASE Next
  <2>1. PICK c \in CPUs : \/ Scheduler(c)
                          \/ \E p \in Slots : \/ Fork(c, p) \/ Exit(c, p) \/ Wait(c, p) \/ Kill(c, p)
                                              \/ Thread(c, p) \/ Yield(c, p)
    BY <1>2, Zenon DEF Next
  <2>2. CASE Scheduler(c)
    BY <2>2, SchedSlotInv, DispatchInv, Zenon DEF Scheduler
  <2>3. ASSUME NEW p \in Slots, Fork(c, p) \/ Exit(c, p) \/ Wait(c, p) \/ Kill(c, p) \/ Yield(c, p)
        PROVE  Inductive'
    BY <2>3, QuietInv, WaitBeginInv, YieldInv, Zenon
  <2>4. ASSUME NEW p \in Slots, Forking(c, p) PROVE Inductive'
    BY <2>4, AllocSlotInv, QuietInv, ForkFailInv, ForkCopiedInv, ForkParentInv, ForkRunInv, Zenon DEF Forking
  <2>5. ASSUME NEW p \in Slots, Exiting(c, p) PROVE Inductive'
    BY <2>5, ExitReparentInv, WakeSlotInv, WakeEndInv, ExitZombieInv, SMTT(30) DEF Exiting
  <2>6. ASSUME NEW p \in Slots, Waiting(c, p) PROVE Inductive'
    BY <2>6, WaitSlotInv, WaitpidSlotInv, WaitEndInv, WaitSleepInv, SleepInv, RewaitInv, Zenon DEF Waiting
  <2>7. ASSUME NEW p \in Slots, Killing(c, p) \/ SwitchOut(c, p) PROVE Inductive'
    BY <2>7, KillSlotInv, QuietInv, SwitchOutInv, Zenon DEF Killing
  <2> QED
    BY <2>1, <2>2, <2>3, <2>4, <2>5, <2>6, <2>7, Zenon DEF Thread
<1> QED
  BY <1>1, <1>2, Zenon

LEMMA Always == Spec => []Inductive
<1>1. Inductive /\ [Next]_vars => Inductive'
  BY StepInv, Zenon
<1> QED
  BY <1>1, InitInv, PTL DEF Spec

\* For any number of slots and CPUs the process table stays well formed, a kernel stack
\* is never on two CPUs, the locks are held where kernel/proc.c says, and every process
\* has a living parent to wait for it (allocproc, fork, kexit, reparent, sched).
THEOREM ProcInvariant == Spec => []ProcInv
<1>1. ASSUME Inductive PROVE ProcInv
  <2>1. StackExclusive
    <3>1. ASSUME NEW c \in CPUs, cpu[c] # 0
          PROVE  \/ state[cpu[c]] = "RUNNING"
                 \/ state[cpu[c]] \in {"SLEEPING", "ZOMBIE"} /\ lock[cpu[c]] = c
      <4>1. cpu[c] \in Slots /\ cpu[c] \in 0 .. NPROC
        BY <1>1, <3>1, CpuFacts, Numbers, Zenon
      <4>2. pc[cpu[c]] = "sched" => lock[cpu[c]] = c
        BY <1>1, <4>1, HeldBy, Zenon
      <4> QED
        BY <1>1, <3>1, <4>2, Zenon DEF Inductive, Threads
    <3> QED
      BY <1>1, <3>1, Zenon DEF Inductive, OnCpu, StackExclusive
  <2>2. OrphansAdopted
    BY <1>1, Zenon DEF Inductive, Parents, OrphansAdopted
  <2> QED
    BY <1>1, <2>1, <2>2, Zenon DEF Inductive, ProcInv
<1> QED
  BY <1>1, Always, PTL

\* No exit is missed: while wait_lock is free, no process sleeps in kwait or kwaitpid
\* with a zombie to collect.
THEOREM NoExitMissed == Spec => []NoLostExit
<1>1. ASSUME Inductive PROVE NoLostExit
  <2> SUFFICES ASSUME Free(wait_lock), NEW p \in Slots, NEW i \in Slots, Missed(p, i) PROVE FALSE
    BY Zenon DEF NoLostExit, Missed
  <2>1. \A q \in Slots : pc[q] \notin WaitLocked
    BY <1>1, WaitLockFree, Zenon DEF Free, wait_lock
  <2>2. WakingInit
    BY <1>1, WaitersIs, Zenon DEF Inductive
  <2> QED
    BY <2>1, <2>2, Zenon DEF WakingInit, WaitLocked
<1> QED
  BY <1>1, Always, PTL

\* kkill marks only processes whose pid it was given.  Pid 0 is excluded: it is what
\* every free slot has.
THEOREM KillExact == 0 \notin KillPids => (Spec => []KillHitsTarget)
<1> SUFFICES ASSUME 0 \notin KillPids PROVE Spec => []KillHitsTarget
  BY Zenon
<1>1. Inductive => KillHitsTarget
  BY Zenon DEF Inductive, Marks
<1> QED
  BY <1>1, Always, PTL

------------------------------------------------------------------------------
(* Deadlock *)

\* A CPU that spins while it holds a lock is a scheduler with its choice locked, or
\* runs a thread with wait_lock.
LEMMA HeldWhileSpinning ==
    ASSUME Inductive, NEW c \in CPUs, NEW l \in 0 .. NPROC, lock[l] = c, Wants(c) # {}
    PROVE  (l # 0 /\ cpu[c] = 0 /\ best[c] = l) \/ (l = 0 /\ cpu[c] \in Slots /\ pc[cpu[c]] \in WaitLocked)
<1>1. CASE cpu[c] = 0
  BY <1>1, CpuFacts, SMTT(30)
<1>2. CASE cpu[c] # 0
  <2>1. cpu[c] \in Slots
    BY <1>2, CpuFacts, Zenon
  <2>2. pc[cpu[c]] # "fork_copy" /\ pc[cpu[c]] # "sched"
    BY <1>2, Zenon DEF Wants
  <2> QED
    BY <2>1, <2>2, HeldBy
<1> QED
  BY <1>1, <1>2, Zenon

\* What such a CPU spins for: slots only, and a scheduler those after its choice.
LEMMA SpinsFor ==
    ASSUME Inductive, NEW c \in CPUs, NEW l \in Wants(c)
    PROVE  /\ l \in 0 .. NPROC
           /\ cpu[c] = 0 => l \in Slots /\ best[c] < l
           /\ cpu[c] # 0 /\ pc[cpu[c]] \in WaitLocked => l \in Slots
<1>1. SchedType /\ ThreadType
  BY TypeSplit, Zenon DEF Inductive
<1>2. CASE cpu[c] = 0
  <2>1. l = scan[c] /\ l \in Slots
    BY <1>2, Zenon DEF Wants
  <2>2. best[c] \in Nat /\ (best[c] # 0 => best[c] < scan[c])
    BY <1>1, Numbers, CpuFacts DEF SchedType
  <2> QED
    BY <1>2, <2>1, <2>2, Numbers DEF Slots
<1>3. CASE cpu[c] # 0
  <2>1. cpu[c] \in Slots
    BY <1>3, CpuFacts, Zenon
  <2>2. pc[cpu[c]] \in WaitLocked => l \in Slots
    BY <1>3, <2>1, Zenon DEF Wants, WaitLocked
  <2>3. l \in 0 .. NPROC
    BY <1>1, <1>3, <2>1, Numbers, Zenon DEF Wants, ThreadType
  <2> QED
    BY <1>3, <2>2, <2>3, Zenon
<1> QED
  BY <1>2, <1>3, Zenon

INSTANCE WellFoundedInduction

\* A bounded set of numbers that is not empty has a largest one.
LEMMA LargestExists ==
    ASSUME NEW N \in Nat, NEW B, B \subseteq 0 .. N, B # {}
    PROVE  \E m \in B : \A k \in B : k <= m
<1> DEFINE T == {N - k : k \in B}
           R == OpToRel(<, Nat)
<1>1. T \subseteq Nat /\ T # {}
  <2>1. \A k \in B : N - k \in Nat
    OBVIOUS
  <2> QED
    BY <2>1, Zenon
<1>2. IsWellFoundedOn(R, Nat)
  BY NatLessThanWellFounded, Zenon
<1>3. \E x \in T : \A y \in T : ~ (<<y, x>> \in R)
  <2> HIDE DEF T, R
  <2> QED
    BY <1>1, <1>2, WFMin, ZenonT(30)
<1>4. PICK x \in T : \A y \in T : ~(y < x)
  BY <1>1, <1>3, Zenon DEF OpToRel
<1>5. PICK m \in B : x = N - m
  BY Zenon
<1>6. ASSUME NEW k \in B PROVE k <= m
  <2>1. ~(N - k < N - m)
    BY <1>4, <1>5, Zenon
  <2>2. k \in Nat /\ m \in Nat
    BY SMTT(30)
  <2> HIDE DEF T
  <2> QED
    BY <2>1, <2>2
<1> QED
  BY <1>6, Zenon

\* Spinlocks never deadlock, on any number of CPUs: a thread waits with wait_lock held
\* for slots alone, a scheduler waits with its choice held for later slots alone, and
\* nobody else waits with a lock held.
THEOREM NoDeadlock == Spec => []NoSpinDeadlock
<1>1. ASSUME Inductive PROVE NoSpinDeadlock
  <2> SUFFICES ASSUME NEW S \in SUBSET CPUs, S # {},
                      \A c \in S : \E l \in Wants(c) : lock[l] \in S
               PROVE  FALSE
    BY Zenon DEF NoSpinDeadlock
  <2>1. ASSUME NEW c \in S
        PROVE  \E d \in S, l \in Wants(c) :
                  /\ lock[l] = d /\ l \in 0 .. NPROC
                  /\ \/ l # 0 /\ cpu[d] = 0 /\ best[d] = l
                     \/ l = 0 /\ cpu[d] \in Slots /\ pc[cpu[d]] \in WaitLocked
    <3>1. PICK l \in Wants(c) : lock[l] \in S
      BY Zenon
    <3>2. l \in 0 .. NPROC /\ Wants(lock[l]) # {}
      BY <1>1, <3>1, SpinsFor, Zenon
    <3> QED
      BY <1>1, <3>1, <3>2, HeldWhileSpinning, Zenon
  <2>2. ASSUME NEW c \in S, cpu[c] = 0 \/ (cpu[c] \in Slots /\ pc[cpu[c]] \in WaitLocked)
        PROVE  \E d \in S : cpu[d] = 0 /\ (cpu[c] = 0 => best[c] < best[d])
    <3>1. PICK d \in S, l \in Wants(c) :
                  /\ lock[l] = d /\ l \in 0 .. NPROC
                  /\ \/ l # 0 /\ cpu[d] = 0 /\ best[d] = l
                     \/ l = 0 /\ cpu[d] \in Slots /\ pc[cpu[d]] \in WaitLocked
      BY <2>1, Zenon
    <3>2. l \in Slots /\ (cpu[c] = 0 => best[c] < l)
      BY <1>1, <2>2, SpinsFor, Numbers, Zenon
    <3> QED
      BY <3>1, <3>2, Numbers, Zenon
  <2>3. \E d \in S : cpu[d] = 0
    <3>1. PICK c \in S : TRUE
      BY Zenon
    <3>2. PICK d \in S : cpu[d] = 0 \/ (cpu[d] \in Slots /\ pc[cpu[d]] \in WaitLocked)
      BY <2>1, <3>1, Zenon
    <3> QED
      BY <2>2, <3>2, Zenon
  <2> DEFINE B == {best[d] : d \in {e \in S : cpu[e] = 0}}
  <2>4. B \subseteq 0 .. NPROC /\ B # {} /\ NPROC \in Nat
    <3>1. \A d \in S : best[d] \in 0 .. NPROC
      BY <1>1, Zenon DEF Inductive, TypeOK
    <3> QED
      BY <2>3, <3>1, Numbers, ZenonT(30)
  <2>5. PICK m \in B : \A k \in B : k <= m
    <3> HIDE DEF B
    <3> QED
      BY <2>4, LargestExists, Zenon
  <2>6. PICK c \in S : cpu[c] = 0 /\ m = best[c]
    BY Zenon
  <2>7. PICK d \in S : cpu[d] = 0 /\ best[c] < best[d]
    BY <2>2, <2>6, Zenon
  <2>8. best[d] <= m /\ best[d] \in Nat /\ m \in Nat
    BY <2>4, <2>5, <2>7
  <2> QED
    BY <2>6, <2>7, <2>8, SMTT(30)
<1> QED
  BY <1>1, Always, PTL

==============================================================================
