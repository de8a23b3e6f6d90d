------------------------------ MODULE MCVirtio ------------------------------
(***************************************************************************)
(* Three instances of Virtio in one, of which the first state chooses: two *)
(* requests in flight; three processes that share a block and a queue with *)
(* room for one request; and two processes that recycle two buffers for    *)
(* three blocks, some of them in the log.                                  *)
(***************************************************************************)
EXTENDS VirtioCache, TLC

CONSTANTS p1, p2, p3, k1, k2, k3, v1, v2

VARIABLE load   \* the queue, the blocks each process uses, the contents of
                \* a block, and whether the log is used

Loads == {
    [num |-> 6, pins |-> FALSE,
     blocks |-> (p1 :> {k1, k2} @@ p2 :> {k1, k2} @@ p3 :> {}),
     values |-> (k1 :> {v1, v2} @@ k2 :> {v1, v2} @@ k3 :> {v1})],
    [num |-> 4, pins |-> FALSE,
     blocks |-> (p1 :> {k1} @@ p2 :> {k1} @@ p3 :> {k1, k2}),
     values |-> (k1 :> {v1, v2} @@ k2 :> {v1} @@ k3 :> {v1})],
    [num |-> 4, pins |-> TRUE,
     blocks |-> (p1 :> {k1, k2} @@ p2 :> {k1, k2, k3} @@ p3 :> {}),
     values |-> (k1 :> {v1, v2} @@ k2 :> {v1} @@ k3 :> {v1})]}

MCInit ==
    /\ VInit
    /\ load \in Loads
    /\ NUM = load.num
    /\ \A n \in Blocks : disk[n] = v1
    /\ data[1] = v2

\* The next state is one the load leads to.
MCNext ==
    /\ VNext
    /\ \A p \in Procs : b'[p] # 0 => blockno'[b'[p]] \in load.blocks[p]
    /\ \A p \in Procs : At(p, "idle") /\ pc'[p] = "panic" => load.pins /\ load.blocks[p] \ {blockno[i] : i \in Bufs} # {}
    /\ \A n \in Blocks : latest'[n] \in load.values[n]
    /\ load.pins \/ pinned' = {}
    /\ UNCHANGED load

MCSpec == MCInit /\ [][MCNext]_<<vvars, load>> /\ VFairness
=============================================================================
