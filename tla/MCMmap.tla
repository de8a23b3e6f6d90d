------------------------------- MODULE MCMmap -------------------------------
(***************************************************************************)
(* Four instances of Mmap in one: mappings of up to two pages that nest    *)
(* and overlap, heaps beside a mapping, heaps under mappings, and mappings *)
(* that reach the trapframe or lie above it.  The first state chooses.     *)
(***************************************************************************)
EXTENDS Mmap, TLC

CONSTANTS f1

VARIABLE load   \* what mmap is called with, the areas of a process, the pages
                \* there are, the heap's limit, and the files that may be closed

NewArea(p, addr, length, f, prot) ==
    [p |-> p, addr |-> addr, length |-> length, f |-> f, prot |-> prot]

Loads == {
    [args  |-> UNION {{NewArea(p, MMAPBASE, 2, f1, "R"),
                       NewArea(p, MMAPBASE, 2, None, "RW"),
                       NewArea(p, MMAPBASE + 1, 1, f1, "R"),
                       NewArea(p, MMAPBASE + 1, 1, None, "RW")} : p \in Procs},
     areas |-> NMMAPAREA, pages |-> 1, heap |-> 0, files |-> Files],
    [args  |-> {NewArea(p, MMAPBASE, 1, None, "RW") : p \in Procs},
     areas |-> 1, pages |-> Cardinality(Pages), heap |-> PGSIZE * HeapPages, files |-> {}],
    [args  |-> UNION {{NewArea(p, 1, 1, f1, "R"),
                       NewArea(p, 1, 2, None, "RW")} : p \in Procs},
     areas |-> 1, pages |-> 2, heap |-> PGSIZE * HeapPages, files |-> {}],
    [args  |-> UNION {{NewArea(p, TRAPFRAME - 1, 2, None, "RW"),
                       NewArea(p, MAXVA, 1, f1, "R"),
                       NewArea(p, MAXVA, 0, f1, "R")} : p \in Procs},
     areas |-> 2, pages |-> 1, heap |-> 0, files |-> {}]}

MCInit == Init /\ load \in Loads

\* The next state is one the load leads to.  Memory it leaves out is taken by
\* others.
MCNext ==
    /\ NextWith(load.args)
    /\ \A i \in Slots : area'[i] \in load.args \cup {None}
    /\ Cardinality({pa \in Pages : refcnt'[pa] > 0}) <= load.pages
    /\ \A p \in Procs :
         /\ Cardinality({i \in Slots : area'[i] # None /\ area'[i].p = p}) <= load.areas
         /\ sz'[p] <= load.heap
         /\ pc'[p] = "exec" => idx'[p] <= load.heap
         /\ state'[p] = "RUNNABLE" => Files \ load.files \subseteq ofile'[p]
    /\ UNCHANGED load

MCSpec == MCInit /\ [][MCNext]_<<vars, load>>

Symmetry == Permutations(Pages)
=============================================================================
