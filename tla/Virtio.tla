------------------------------- MODULE Virtio -------------------------------
(***************************************************************************)
(* The buffer cache over the disk driver (kernel/virtio_disk.c):           *)
(* processes in virtio_disk_rw, the interrupt handler, and the device,     *)
(* which takes requests from the avail ring and completes them in any      *)
(* order.  The cache and its sleep locks are those of module BufCache; the *)
(* driver's steps take the place of its Bread and Bwrite.                  *)
(*                                                                         *)
(* vdisk_lock makes what a process does between two sleeps one step.  The  *)
(* handler keeps the lock while the device goes on, so it has a step per   *)
(* used entry.  A ring and its two 16-bit indices are the sequence of its  *)
(* entries that are not consumed yet: NUM divides 2^16, so the positions   *)
(* idx % NUM are those of a queue as long as no more than NUM entries are  *)
(* outstanding, which is part of DriverInv.                                *)
(***************************************************************************)
EXTENDS BufCache

CONSTANTS NUMs   \* the sizes of the queue that are modelled

ASSUME VirtioAssumption == NUMs \subseteq Nat /\ (\A n \in NUMs : n >= 3) /\ None \notin Nat

VARIABLES
    NUM,        \* the size of the queue, fixed in the first state
    idx,        \* the three descriptors of each process's call, or <<>>
    waiting,    \* the processes asleep in virtio_disk_rw
    free,       \* disk.free, the descriptors that are
    desc,       \* disk.desc: addr and next, or None for no further one
    ops,        \* disk.ops
    info,       \* disk.info
    b_disk,     \* the buffers b with b->disk = 1
    avail,      \* disk.avail
    used,       \* disk.used
    intr,       \* "idle" or "loop": virtio_disk_intr
    busy,       \* the requests the device has taken
    irq         \* the device's interrupt status

queue  == <<free, desc, ops, info>>
device == <<avail, used, busy, irq>>
vvars  == <<vars, NUM, idx, waiting, queue, b_disk, intr, device>>

Desc   == 0 .. NUM - 1
Op     == [type : {"in", "out"}, block : Blocks]
Addr   == {<<"none">>} \cup ({"op", "status"} \X Desc) \cup ({"data"} \X Bufs)
NoDesc == [addr |-> <<"none">>, next |-> None]

VTypeOK ==
    /\ NUM \in NUMs
    /\ idx \in [Procs -> {<<>>} \cup (Desc \X Desc \X Desc)]
    /\ waiting \subseteq {p \in Procs : pc[p] \in {"read", "dirty"}}
    /\ free \subseteq Desc
    /\ desc \in [Desc -> [addr : Addr, next : Desc \cup {None}]]
    /\ ops \in [Desc -> Op \cup {None}]
    /\ info \in [Desc -> [b : 0 .. NBUF, status : {0, 255}]]
    /\ b_disk \subseteq Bufs
    /\ avail \in Seq(Desc) /\ used \in Seq(Desc)
    /\ intr \in {"idle", "loop"}
    /\ busy \subseteq Desc
    /\ irq \in BOOLEAN

\* binit, and virtio_disk_init for a device that passes its tests.
VInit ==
    /\ Init
    /\ NUM \in NUMs
    /\ idx = [p \in Procs |-> <<>>]
    /\ waiting = {}
    /\ free = Desc
    /\ desc = [i \in Desc |-> NoDesc]
    /\ ops = [i \in Desc |-> None]
    /\ info = [i \in Desc |-> [b |-> 0, status |-> 0]]
    /\ b_disk = {}
    /\ avail = <<>> /\ used = <<>>
    /\ intr = "idle"
    /\ busy = {} /\ irq = FALSE

------------------------------------------------------------------------------
(* virtio_disk_rw, called by bread (pc "read") and bwrite (pc "dirty") *)

\* p comes to run in virtio_disk_rw with vdisk_lock, before or after it has its
\* descriptors.
Running(p, submitted) ==
    /\ pc[p] \in {"read", "dirty"}
    /\ p \notin waiting
    /\ intr = "idle"
    /\ (idx[p] # <<>>) = submitted

\* wakeup(&disk.free[0])
WakeAlloc(s) == {p \in s : idx[p] # <<>>}

\* alloc3_desc fails: free_desc of what it got wakes the others that wait.
AllocFail(p) ==
    /\ Running(p, FALSE)
    /\ Cardinality(free) < 3
    /\ waiting' = (IF free = {} THEN waiting ELSE WakeAlloc(waiting)) \cup {p}
    /\ desc' = [i \in Desc |-> IF i \in free THEN NoDesc ELSE desc[i]]
    /\ UNCHANGED <<vars, idx, free, ops, info, b_disk, intr, device>>

\* The request bread or bwrite asks for (VIRTIO_BLK_T_IN, VIRTIO_BLK_T_OUT).
OpOf(p) == [type |-> IF pc[p] = "dirty" THEN "out" ELSE "in", block |-> blockno[b[p]]]

\* The chain of a request that starts at descriptor i, with its op in ops[o].
Enqueue(p, o) ==
    LET i == Min(free)
        j == Min(free \ {i})
        k == Min(free \ {i, j})
    IN
    /\ idx' = [idx EXCEPT ![p] = <<i, j, k>>]
    /\ free' = free \ {i, j, k}
    /\ ops' = [ops EXCEPT ![o] = OpOf(p)]
    /\ desc' = [desc EXCEPT ![i] = [addr |-> <<"op", o>>, next |-> j],
                            ![j] = [addr |-> <<"data", b[p]>>, next |-> k],
                            ![k] = [addr |-> <<"status", i>>, next |-> None]]
    /\ avail' = Append(avail, i)

\* Mutant: all requests use the same op.
SubmitOneOp(p) ==
    /\ Running(p, FALSE)
    /\ Cardinality(free) >= 3
    /\ Enqueue(p, 0)
    /\ info' = [info EXCEPT ![Min(free)] = [b |-> b[p], status |-> 255]]
    /\ b_disk' = b_disk \cup {b[p]}
    /\ waiting' = waiting \cup {p}
    /\ UNCHANGED <<vars, intr, used, busy, irq>>

\* alloc3_desc takes the lowest free descriptors; the request is put in the ring
\* and its process sleeps.
Submit(p) ==
    /\ Running(p, FALSE)
    /\ Cardinality(free) >= 3
    /\ Enqueue(p, Min(free))
    /\ info' = [info EXCEPT ![Min(free)] = [b |-> b[p], status |-> 255]]
    /\ b_disk' = b_disk \cup {b[p]}
    /\ waiting' = waiting \cup {p}
    /\ UNCHANGED <<vars, intr, used, busy, irq>>

\* free_chain: the descriptors reached from i.
ChainFrom(i) ==
    LET j == desc[i].next
    IN  {i} \cup (IF j = None THEN {} ELSE ({j} \cup ({desc[j].next} \ {None})))

\* The call gives back its descriptors, and bread or bwrite returns.  The code
\* leaves the op as it is; nobody reads it before it is overwritten.
Return(p) ==
    /\ LET c == ChainFrom(idx[p][1])
       IN  /\ free' = free \cup c
           /\ desc' = [i \in Desc |-> IF i \in c THEN NoDesc ELSE desc[i]]
    /\ info' = [info EXCEPT ![idx[p][1]].b = 0]
    /\ ops' = [ops EXCEPT ![idx[p][1]] = None]
    /\ idx' = [idx EXCEPT ![p] = <<>>]
    /\ waiting' = WakeAlloc(waiting)
    /\ IF pc[p] = "read"
         THEN /\ valid' = [valid EXCEPT ![b[p]] = TRUE]
              /\ Goto(p, "held")
         ELSE /\ Goto(p, IF b[p] \in pinned THEN "unpin" ELSE "held")
              /\ UNCHANGED valid
    /\ UNCHANGED <<lru, blockno, refcnt, data, locked, asleep, b, disk, pinned, latest>>
    /\ UNCHANGED <<b_disk, intr, device>>

\* Mutant: the call does not look at b->disk.
FinishEarly(p) == idx[p] # <<>> /\ intr = "idle" /\ Return(p)

\* Woken with b->disk = 0.
Finish(p) ==
    /\ Running(p, TRUE)
    /\ b[p] \notin b_disk
    /\ Return(p)

------------------------------------------------------------------------------
(* virtio_disk_intr *)

IntrBegin ==
    /\ intr = "idle"
    /\ irq
    /\ irq' = FALSE
    /\ intr' = "loop"
    /\ UNCHANGED <<vars, idx, waiting, queue, b_disk, avail, used, busy>>

\* Mutant: disk.used_idx does not advance.
IntrUsedStuck ==
    /\ intr = "loop" /\ used # <<>>
    /\ b_disk' = b_disk \ {info[Head(used)].b}
    /\ waiting' = {p \in waiting : idx[p] = <<>> \/ b[p] # info[Head(used)].b}
    /\ used' = used
    /\ UNCHANGED <<vars, idx, queue, intr, avail, busy, irq>>

\* One used entry: b->disk = 0 and wakeup(b).
IntrUsed ==
    /\ intr = "loop" /\ used # <<>>
    /\ b_disk' = b_disk \ {info[Head(used)].b}
    /\ waiting' = {p \in waiting : idx[p] = <<>> \/ b[p] # info[Head(used)].b}
    /\ used' = Tail(used)
    /\ UNCHANGED <<vars, idx, queue, intr, avail, busy, irq>>

IntrEnd ==
    /\ intr = "loop" /\ used = <<>>
    /\ intr' = "idle"
    /\ UNCHANGED <<vars, idx, waiting, queue, b_disk, device>>

------------------------------------------------------------------------------
(* The device *)

DevTake ==
    /\ avail # <<>>
    /\ busy' = busy \cup {Head(avail)}
    /\ avail' = Tail(avail)
    /\ UNCHANGED <<vars, idx, waiting, queue, b_disk, intr, used, irq>>

\* It reads the chain of the request from memory, transfers the block, writes
\* the status and the used entry, and raises its interrupt.
DevComplete(i) ==
    LET op  == ops[desc[i].addr[2]]
        buf == desc[desc[i].next].addr[2]
        st  == desc[desc[desc[i].next].next].addr[2]
    IN
    /\ i \in busy
    /\ busy' = busy \ {i}
    /\ IF op.type = "out"
         THEN disk' = [disk EXCEPT ![op.block] = data[buf]] /\ UNCHANGED data
         ELSE data' = [data EXCEPT ![buf] = disk[op.block]] /\ UNCHANGED disk
    /\ info' = [info EXCEPT ![st].status = 0]
    /\ used' = Append(used, i)
    /\ irq' = TRUE
    /\ UNCHANGED <<lru, blockno, valid, refcnt, locked, asleep, pc, b, pinned, latest>>
    /\ UNCHANGED <<idx, waiting, free, desc, ops, b_disk, intr, avail>>

------------------------------------------------------------------------------
VStep ==
    \/ \E p \in Procs : /\ CacheStep(p)
                        /\ UNCHANGED <<idx, waiting, queue, b_disk, intr, device>>
    \/ \E p \in Procs : AllocFail(p) \/ Submit(p) \/ Finish(p)
    \/ IntrBegin \/ IntrUsed \/ IntrEnd
    \/ DevTake \/ \E i \in Desc : DevComplete(i)

VNext == VStep /\ UNCHANGED NUM

VSpec == VInit /\ [][VNext]_vvars

\* A process that is awake comes to run and to take the lock; interrupts are served
\* and the device answers.  Which process gets freed descriptors is left to chance.
VFairness ==
    /\ \A p \in Procs : SF_vvars(UNCHANGED NUM /\ (AllocFail(p) \/ Submit(p) \/ Finish(p)))
    /\ WF_vvars(UNCHANGED NUM /\ (IntrBegin \/ IntrUsed \/ IntrEnd))
    /\ WF_vvars(UNCHANGED NUM /\ DevTake)
    /\ \A i \in 0 .. Max(NUMs) - 1 : WF_vvars(UNCHANGED NUM /\ DevComplete(i))

------------------------------------------------------------------------------
(* Properties *)

\* A descriptor is free or belongs to exactly one call: none is lost by a failed
\* alloc3_desc, none is freed twice ("free_desc 2") and none is shared.
DescriptorsOwned ==
    /\ \A p, q \in Procs : p # q => Range(idx[p]) \cap Range(idx[q]) = {}
    /\ free = Desc \ UNION {Range(idx[p]) : p \in Procs}
    /\ \A p \in Procs : idx[p] # <<>> => ChainFrom(idx[p][1]) = Range(idx[p])

\* What the device may still read or write stays as it was submitted, until the
\* device has returned it: the chain, the op and the buffer, which its caller has
\* locked.  What it has returned has status 0 (no "virtio_disk_intr status").
DeviceOwnsRequest ==
    \A i \in Range(avail) \cup busy \cup Range(used) :
       \E p \in Procs :
          /\ i \in Range(used) => info[i].status = 0
          /\ idx[p] # <<>> /\ idx[p][1] = i
          /\ locked[b[p]] = p /\ b[p] \in b_disk /\ info[i].b = b[p]
          /\ ops[i] = OpOf(p)
          /\ desc[i] = [addr |-> <<"op", i>>, next |-> idx[p][2]]
          /\ desc[idx[p][2]].addr = <<"data", b[p]>>

\* The chain, the op and the info of a call stay as it made them until it returns.
CallsIntact ==
    \A p \in Procs : idx[p] # <<>> =>
       LET i == idx[p][1]  j == idx[p][2]  k == idx[p][3]
       IN  /\ pc[p] \in {"read", "dirty"}
           /\ i # j /\ i # k /\ j # k
           /\ desc[i] = [addr |-> <<"op", i>>, next |-> j]
           /\ desc[j] = [addr |-> <<"data", b[p]>>, next |-> k]
           /\ desc[k] = [addr |-> <<"status", i>>, next |-> None]
           /\ ops[i] = OpOf(p)
           /\ info[i].b = b[p]

Distinct(s) == \A j, k \in 1 .. Len(s) : s[j] = s[k] => j = k

\* A request is in one place between the driver and the device, once: it is not
\* taken, completed or returned twice.
InOnePlace ==
    /\ Distinct(avail) /\ Distinct(used)
    /\ Range(avail) \cap (busy \cup Range(used)) = {}
    /\ busy \cap Range(used) = {}

\* The device has transferred the block of the call that p is in.
Transferred(p) == idx[p] # <<>> /\ idx[p][1] \notin Range(avail) \cup busy

\* A call that waits has b->disk set or no descriptors; b->disk is set until the
\* handler has seen the used entry; and then the block is in the buffer or on the
\* disk as it was last stored.
Waits ==
    /\ used # <<>> => irq \/ intr = "loop"
    /\ \A p \in waiting : IF idx[p] = <<>> THEN \E q \in Procs : idx[q] # <<>> ELSE b[p] \in b_disk
    /\ \A p \in Procs : idx[p] # <<>> /\ b[p] \in b_disk =>
          idx[p][1] \in Range(avail) \cup busy \cup Range(used)
    /\ \A p \in Procs : Transferred(p) =>
          /\ disk[blockno[b[p]]] = latest[blockno[b[p]]]
          /\ data[b[p]] = latest[blockno[b[p]]]

\* The device has nothing left to return: no process waits, asleep, for a
\* completion or a wakeup that will not come.
NoLostCompletion ==
    (\A p \in Procs : pc[p] \in {"read", "dirty"} => p \in waiting) /\ waiting # {} =>
       intr = "loop" \/ irq \/ avail # <<>> \/ busy # {}

\* The driver's tables stay consistent while calls, failed allocations, the
\* interrupt handler and a device that answers in any order take turns: descriptors
\* have one owner, what the device uses stays as submitted, nobody waits in vain,
\* and no ring has more than NUM entries.
DriverInv ==
    /\ VTypeOK /\ DescriptorsOwned /\ DeviceOwnsRequest /\ NoLostCompletion
    /\ Len(avail) <= NUM /\ Len(used) <= NUM
    /\ CallsIntact /\ InOnePlace /\ Waits

\* Every request that was submitted returns, also while processes without
\* descriptors keep waking each other by failing.
RequestsReturn == \A p \in Procs : idx[p] # <<>> ~> idx[p] = <<>>
==============================================================================
