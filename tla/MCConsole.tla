------------------------------ MODULE MCConsole ------------------------------
(* Two processes on two CPUs, a ring of two bytes and short typed inputs. *)
EXTENDS Console, TLC

CONSTANTS p1, p2, c1, c2

R(n) == [op |-> "read", n |-> n, arg |-> None]
W(n) == [op |-> "write", n |-> n, arg |-> None]
P(n) == [op |-> "pause", n |-> n, arg |-> None]
U == [op |-> "uptime", n |-> 0, arg |-> None]
K(p) == [op |-> "kill", n |-> 0, arg |-> p]

Load(a, b, keys, cpus, timers) ==
    [script |-> p1 :> a @@ p2 :> b, typing |-> keys, cpus |-> cpus, timers |-> timers]
MCWorkloads ==
    {Load(<<W(1)>>, <<W(1)>>, <<>>, Cpus, {}),                     \* writers meet
     Load(<<W(2)>>, <<>>, <<"a">>, Cpus, {}),                      \* a writer meets the echo
     Load(<<R(1)>>, <<>>, <<"^P", "cr">>, {c1}, {}),
     Load(<<R(2)>>, <<R(1)>>, <<"a", "a", "nl">>, {c1}, {}),       \* readers compete for a full ring
     Load(<<R(2)>>, <<R(1)>>, <<"a", "^D">>, {c1}, {}),            \* and for an end of file
     Load(<<R(2)>>, <<>>, <<"a", "^H", "a", "^U">>, {c1}, {}),
     Load(<<R(1), W(1)>>, <<>>, <<"nl">>, {c1}, {c1}),             \* preempted in handlers
     Load(<<R(1)>>, <<K(p1), U>>, <<>>, Cpus, {c1}),               \* kill and clock
     Load(<<P(1)>>, <<K(p1)>>, <<>>, Cpus, {c1}),
     Load(<<P(2)>>, <<P(1)>>, <<>>, {c1}, {c1})}
MCLocks == {"cons", "tx_lock", "tickslock", "pr"}
===============================================================================
