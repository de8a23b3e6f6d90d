------------------------------- MODULE MCLog -------------------------------
(***************************************************************************)
(* Two instances of Log in one: calls that share few blocks of many        *)
(* contents, and calls that can fill the log, for which contents do not    *)
(* matter.  The first state chooses.                                       *)
(***************************************************************************)
EXTENDS Log

CONSTANTS b1, b2, b3, b4, v1, v2

VARIABLE load   \* the blocks and contents the calls use, and how many a call

Loads == {[blocks |-> {b1, b2}, vals |-> {v1, v2}, op |-> 2],
          [blocks |-> {b1, b2, b3, b4}, vals |-> {v1}, op |-> 1]}

MCInit ==
    /\ Init
    /\ load \in Loads
    /\ \A b \in Blocks : home[b] \in (IF b \in load.blocks THEN load.vals ELSE {v1})
    /\ logd[1] \in load.vals

\* The next state is one that calls of the load lead to.
WithinLoad ==
    \A p \in Procs :
       /\ held'[p] \in load.blocks \cup {None}
       /\ Cardinality(wrote'[p] \cup ({held'[p]} \ {None})) <= load.op

MCNext ==
    /\ Next
    /\ WithinLoad
    /\ \A b \in Blocks : cache'[b] \in load.vals \cup {None}
    /\ UNCHANGED load

MCSpec == MCInit /\ [][MCNext]_<<vars, load>> /\ Fairness
=============================================================================
