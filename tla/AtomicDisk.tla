------------------------------ MODULE AtomicDisk ------------------------------
(***************************************************************************)
(* What the log promises the file system (the header comment of            *)
(* kernel/log.c).  The system calls of a transaction write to a view of    *)
(* the disk; the view becomes durable as a whole, only while no system     *)
(* call is active, and a crash takes the view back to what is durable.     *)
(***************************************************************************)
CONSTANTS Blocks, Vals, Procs

VARIABLES disk,     \* what survives a crash
          view,     \* what a read returns
          active    \* the system calls between begin_op and end_op

avars == <<disk, view, active>>

Init ==
    /\ disk \in [Blocks -> Vals]
    /\ view = disk
    /\ active = {}

Begin(p) ==
    /\ p \notin active
    /\ active' = active \cup {p}
    /\ UNCHANGED <<disk, view>>

Write(p, b, v) ==
    /\ p \in active
    /\ view' = [view EXCEPT ![b] = v]
    /\ UNCHANGED <<disk, active>>

End(p) ==
    /\ p \in active
    /\ active' = active \ {p}
    /\ UNCHANGED <<disk, view>>

Commit ==
    /\ active = {}
    /\ disk' = view
    /\ UNCHANGED <<view, active>>

Crash ==
    /\ view' = disk
    /\ active' = {}
    /\ UNCHANGED disk

Next ==
    \/ \E p \in Procs : Begin(p) \/ End(p)
    \/ \E p \in Procs, b \in Blocks, v \in Vals : Write(p, b, v)
    \/ Commit
    \/ Crash

Spec == Init /\ [][Next]_avars
===============================================================================
