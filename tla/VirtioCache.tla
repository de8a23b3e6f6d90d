---------------------------- MODULE VirtioCache -----------------------------
(***************************************************************************)
(* The cache over the driver, seen as the cache of module BufCache: a call *)
(* of virtio_disk_rw is over for it when the device has transferred the    *)
(* block.                                                                  *)
(***************************************************************************)
EXTENDS Virtio

\* Where a process is, and which buffers are valid, to the cache.
pcBar == [p \in Procs |-> IF ~Transferred(p) THEN pc[p]
                          ELSE IF pc[p] = "dirty" /\ b[p] \in pinned THEN "unpin"
                          ELSE "held"]
ReadDone(i) == \E p \in Procs : b[p] = i /\ pc[p] = "read" /\ Transferred(p)
validBar == [i \in Bufs |-> valid[i] \/ ReadDone(i)]

BC == INSTANCE BufCache WITH pc <- pcBar, valid <- validBar

\* To its callers the driver is the disk of module BufCache, which transfers a
\* block in one step: once, before the call returns, whatever the order in which
\* requests complete.
ImplementsBufCache == BC!Spec
==============================================================================
