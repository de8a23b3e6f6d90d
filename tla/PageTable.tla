------------------------------ MODULE PageTable ------------------------------
(***************************************************************************)
(* Three-level page tables (kernel/vm.c: walk, mappages, uvm*, freewalk,   *)
(* free_empty_mmap_*, copyin, copyout, copyinstr) in pages of KAlloc, and  *)
(* the calls that build, share and free them: allocproc, growproc, fork,   *)
(* exec, mmap, munmap, page faults, exit and wait.                         *)
(*                                                                         *)
(* A table has Fan entries; addresses are page numbers below Fan^3, sizes  *)
(* and buffers are in half pages.  A page table belongs to one process, so *)
(* a call is one step here; kalloc and kfree in it have the effect KAlloc  *)
(* gives them, and other threads use KAlloc step by step in between.       *)
(***************************************************************************)
EXTENDS KAlloc, SequencesExt

CONSTANTS
    Procs,           \* processes, among the threads
    Rest,            \* the thread that has the pages of the rest of the kernel
    Fan,             \* entries of a table (512)
    MMAPBASE, MmapEnd,
    Ranges,          \* the <<first page, pages>> that mmap is called with
    Buffers,         \* the <<start, length>> that copies are called with
    Sizes,           \* the arguments of sbrk
    Touched,         \* the pages that are touched
    Loads            \* pages, threads and number of calls, for all initial states

MAXVA      == Fan * Fan * Fan
TRAMPOLINE == MAXVA - 1
TRAPFRAME  == MAXVA - 2
VA         == 0 .. MAXVA - 1
Entries    == 0 .. Fan - 1
TrampPage  == 0              \* the page of trampoline.S, not from kalloc

ASSUME PageTableAssumption ==
    /\ Procs \subseteq Threads /\ Rest \in Threads \ Procs /\ TrampPage \notin Pages
    /\ Fan \in Nat \ {0, 1} /\ MMAPBASE \in Nat /\ MmapEnd \in MMAPBASE .. TRAPFRAME
    /\ \A r \in Ranges : r[1] >= MMAPBASE /\ r[1] + r[2] <= MmapEnd

VARIABLES
    tbl,        \* the tables: what a page that is one holds
    proc,       \* per process: pagetable, trapframe, sz, areas, zombie
    load,       \* which threads run, and how many more calls are made
    copied,     \* the last copy: what it returned and the half pages it moved
    panic

kvars == <<freelist, refcnt, mem, pc, page, own, fresh, list>>
pvars == <<kvars, tbl, proc, load, copied, panic>>

PX(level, va) == (va \div Fan ^ level) % Fan
PageUp(n)     == (n + 1) \div 2
RW == {"R", "W", "U"}

------------------------------------------------------------------------------
(* Memory m during a call: free list, counts, tables and the first panic.    *)

Now == [list |-> list, ref |-> refcnt, tbl |-> tbl, panic |-> panic]

Top(m) == Last(m.list)
Taken(m) == [m EXCEPT !.list = Front(@), !.ref = [@ EXCEPT ![Top(m)] = 1]]
Freed(m, g) ==
    IF m.ref[g] = 0 THEN [m EXCEPT !.panic = "kfree ref"]
    ELSE [m EXCEPT !.ref = [@ EXCEPT ![g] = @ - 1], !.tbl = [@ EXCEPT ![g] = <<>>],
                   !.list = IF m.ref[g] = 1 THEN Append(@, g) ELSE @]

Zeroed == [i \in Entries |-> Null]
Put(m, t, i, e) == [m EXCEPT !.tbl = [@ EXCEPT ![t] = [@ EXCEPT ![i] = e]]]
AsTable(m, g) == [m EXCEPT !.tbl = [@ EXCEPT ![g] = Zeroed]]

\* One level of walk: the table below entry i of t, made if alloc says so.
Down(m, t, i, alloc) ==
    CASE t = Null -> [m |-> m, t |-> Null]
      [] t # Null /\ m.tbl[t][i] # Null -> [m |-> m, t |-> m.tbl[t][i].pa]
      [] OTHER -> IF ~alloc \/ m.list = <<>> THEN [m |-> m, t |-> Null]
                  ELSE [m |-> Put(AsTable(Taken(m), Top(m)), t, i, [pa |-> Top(m), perm |-> {}]),
                        t |-> Top(m)]
DownAgain(r, va, alloc) == Down(r.m, r.t, PX(1, va), alloc)

\* walk: the lowest table for va, where PX(0, va) is the entry
Walk(m, root, va, alloc) == DownAgain(Down(m, root, PX(2, va), alloc), va, alloc)

\* The entry for va, or Null
Entry(m, t, va) == IF t = Null THEN Null ELSE m.tbl[t][PX(0, va)]
Pte(m, root, va) == Entry(m, Walk(m, root, va, FALSE).t, va)

MapAt(r, va, pa, perm) ==
    CASE r.t = Null -> [m |-> r.m, ok |-> FALSE]
      [] r.t # Null /\ Entry(r.m, r.t, va) # Null -> [m |-> [r.m EXCEPT !.panic = "remap"], ok |-> FALSE]
      [] OTHER -> [m |-> Put(r.m, r.t, PX(0, va), [pa |-> pa, perm |-> perm]), ok |-> TRUE]

\* mappages for one page
Mappages(m, root, va, pa, perm) == MapAt(Walk(m, root, va, TRUE), va, pa, perm)

\* A new page for va: kalloc and mappages, which is undone when it fails.
Undone(r, g) == IF r.ok THEN r ELSE [m |-> Freed(r.m, g), ok |-> FALSE]
NewPage(m, root, va, perm) ==
    IF m.list = <<>> THEN [m |-> m, ok |-> FALSE]
    ELSE Undone(Mappages(Taken(m), root, va, Top(m), perm), Top(m))

UnmapAt(m, t, va, do_free) ==
    IF Entry(m, t, va) = Null THEN m
    ELSE Put(IF do_free THEN Freed(m, Entry(m, t, va).pa) ELSE m, t, PX(0, va), Null)

RECURSIVE Uvmunmap(_, _, _, _, _)
Uvmunmap(m, root, a, end, do_free) ==
    IF a >= end THEN m
    ELSE Uvmunmap(UnmapAt(m, Walk(m, root, a, FALSE).t, a, do_free), root, a + 1, end, do_free)

Uvmdealloc(m, root, oldsz, newsz) ==
    IF newsz >= oldsz THEN m ELSE Uvmunmap(m, root, PageUp(newsz), PageUp(oldsz), TRUE)

\* Mutant: a failed uvmalloc keeps what it has allocated.
UvmallocFailedKeeps(r, root, a, oldsz) == [m |-> r.m, ok |-> FALSE]

\* The end of uvmalloc when page a cannot be had
UvmallocFailed(r, root, a, oldsz) == [m |-> Uvmdealloc(r.m, root, 2 * a, 2 * oldsz), ok |-> FALSE]

RECURSIVE UvmallocFrom(_, _, _, _, _, _)
UvmallocStep(r, root, a, end, oldsz, perm) ==
    IF r.ok THEN UvmallocFrom(r.m, root, a + 1, end, oldsz, perm)
    ELSE UvmallocFailed(r, root, a, oldsz)
UvmallocFrom(m, root, a, end, oldsz, perm) ==
    IF a >= end THEN [m |-> m, ok |-> TRUE]
    ELSE UvmallocStep(NewPage(m, root, a, perm), root, a, end, oldsz, perm)
Uvmalloc(m, root, oldsz, newsz, perm) ==
    UvmallocFrom(m, root, PageUp(oldsz), PageUp(newsz), PageUp(oldsz), perm)

RECURSIVE Uvmcopy(_, _, _, _, _)
UvmcopyStep(r, old, new, i, n) ==
    IF r.ok THEN Uvmcopy(r.m, old, new, i + 1, n)
    ELSE [m |-> Uvmunmap(r.m, new, 0, i, TRUE), ok |-> FALSE]
Uvmcopy(m, old, new, i, n) ==
    IF i >= n THEN [m |-> m, ok |-> TRUE]
    ELSE IF Pte(m, old, i) = Null THEN Uvmcopy(m, old, new, i + 1, n)
    ELSE UvmcopyStep(NewPage(m, new, i, Pte(m, old, i).perm), old, new, i, n)

Uvmclear(m, t, va) == Put(m, t, PX(0, va), [Entry(m, t, va) EXCEPT !.perm = @ \ {"U"}])

RECURSIVE Freewalk(_, _, _)
Freewalk(m, t, i) ==
    IF i = Fan THEN Freed(m, t)
    ELSE IF m.tbl[t][i] = Null THEN Freewalk(m, t, i + 1)
    ELSE IF m.tbl[t][i].perm = {} THEN Freewalk(Put(Freewalk(m, m.tbl[t][i].pa, 0), t, i, Null), t, i + 1)
    ELSE [m EXCEPT !.panic = "freewalk: leaf"]

Uvmfree(m, root, sz) == Freewalk(Uvmunmap(m, root, 0, PageUp(sz), TRUE), root, 0)

------------------------------------------------------------------------------
(* Empty tables of the mmap area *)

EmptyTable(m, t) == m.tbl[t] = Zeroed

\* Mutant: the step to the next table is not aligned.
NextBoundaryUnaligned(va, level) == va + Fan ^ level

NextBoundary(va, level) == ((va + Fan ^ level) \div Fan ^ level) * Fan ^ level

\* The table below entry i of t is freed when it is empty.
FreeBelow(m, t, i) ==
    IF t = Null \/ m.tbl[t][i] = Null THEN m
    ELSE IF EmptyTable(m, m.tbl[t][i].pa) THEN Put(Freed(m, m.tbl[t][i].pa), t, i, Null) ELSE m

\* free_empty_mmap_l0 (level 1) and free_empty_mmap_l1 (level 2) for va
FreeEmpty(m, root, va, level) ==
    IF level = 2 THEN FreeBelow(m, root, PX(2, va))
    ELSE FreeBelow(m, Down(m, root, PX(2, va), FALSE).t, PX(1, va))

RECURSIVE FreeEmptyFrom(_, _, _, _, _)
FreeEmptyFrom(m, root, va, end, level) ==
    IF va >= end THEN m
    ELSE FreeEmptyFrom(FreeEmpty(m, root, va, level), root, NextBoundary(va, level), end, level)

FreeEmptyPagetables(m, root, start, end) ==
    FreeEmptyFrom(FreeEmptyFrom(m, root, start, end, 1), root, start, end, 2)

\* uvmunmap and free_empty_mmap_pagetables for the area a = <<first page, pages>>
Unmapped(m, root, a) ==
    FreeEmptyPagetables(Uvmunmap(m, root, a[1], a[1] + a[2], TRUE), root, a[1], a[1] + a[2])

RECURSIVE Mmapfree(_, _, _)
Mmapfree(m, root, areas) ==
    IF areas = <<>> THEN m ELSE Mmapfree(Unmapped(m, root, Head(areas)), root, Tail(areas))

\* mmap_copy_pages: the child maps the parent's page, counted once more.
Shared(m, e) == [m EXCEPT !.ref = [@ EXCEPT ![e.pa] = @ + 1]]
RECURSIVE CopyPages(_, _, _, _, _)
CopyPagesStep(r, old, new, va, end) == IF r.ok THEN CopyPages(r.m, old, new, va + 1, end) ELSE r
CopyPages(m, old, new, va, end) ==
    IF va = end THEN [m |-> m, ok |-> TRUE]
    ELSE IF Pte(m, old, va) = Null THEN CopyPages(m, old, new, va + 1, end)
    ELSE CopyPagesStep(
           Undone(Mappages(Shared(m, Pte(m, old, va)), new, va, Pte(m, old, va).pa, Pte(m, old, va).perm),
                  Pte(m, old, va).pa),
           old, new, va, end)

\* mmapfork: ok, or the areas so far, which are then freed
RECURSIVE Mmapfork(_, _, _, _, _)
MmapforkStep(r, old, new, areas, k) ==
    IF r.ok THEN Mmapfork(r.m, old, new, areas, k + 1)
    ELSE [m |-> Mmapfree(r.m, new, SubSeq(areas, 1, k)), ok |-> FALSE]
Mmapfork(m, old, new, areas, k) ==
    IF k > Len(areas) THEN [m |-> m, ok |-> TRUE]
    ELSE MmapforkStep(CopyPages(m, old, new, areas[k][1], areas[k][1] + areas[k][2]), old, new, areas, k)

------------------------------------------------------------------------------
(* Page tables of processes *)

\* proc_pagetable, with root the page uvmcreate took
WithTrapframe(r, root) ==
    IF ~r.ok THEN [m |-> Uvmfree(r.m, root, 0), root |-> Null]
    ELSE [m |-> r.m, root |-> root]
TrapframeMapped(r, root) ==
    IF r.ok THEN r ELSE [m |-> Uvmunmap(r.m, root, TRAMPOLINE, TRAMPOLINE + 1, FALSE), ok |-> FALSE]
TrampMapped(r, root, tf) ==
    IF ~r.ok THEN WithTrapframe(r, root)
    ELSE WithTrapframe(TrapframeMapped(Mappages(r.m, root, TRAPFRAME, tf, {"R", "W"}), root), root)
ProcPagetable(m, tf) ==
    IF m.list = <<>> THEN [m |-> m, root |-> Null]
    ELSE TrampMapped(Mappages(AsTable(Taken(m), Top(m)), Top(m), TRAMPOLINE, TrampPage, {"R", "X"}), Top(m), tf)

ProcFreepagetable(m, root, sz) ==
    Uvmfree(Uvmunmap(m, root, TRAPFRAME, TRAMPOLINE + 1, FALSE), root, sz)

\* allocproc's memory; a failure frees the trapframe again (freeproc)
WithTable(r, tf) ==
    IF r.root = Null THEN [m |-> Freed(r.m, tf), root |-> Null, tf |-> Null]
    ELSE [m |-> r.m, root |-> r.root, tf |-> tf]
Allocproc(m) ==
    IF m.list = <<>> THEN [m |-> m, root |-> Null, tf |-> Null]
    ELSE WithTable(ProcPagetable(Taken(m), Top(m)), Top(m))

\* freeproc of a process q
Freeproc(m, q) ==
    ProcFreepagetable(Mmapfree(Freed(m, q.trapframe), q.pagetable, q.areas), q.pagetable, q.sz)

NoProc == [pagetable |-> Null, trapframe |-> Null, sz |-> 0, areas |-> <<>>, zombie |-> FALSE]
NewProc(r, sz, areas) == [NoProc EXCEPT !.pagetable = r.root, !.trapframe = r.tf, !.sz = sz, !.areas = areas]

\* The pages of process q in memory m: trapframe, tables and what they map.
TablesOf(m, q) ==
    IF q.pagetable = Null THEN {}
    ELSE {q.pagetable} \cup {Down(m, q.pagetable, i, FALSE).t : i \in Entries}
         \cup {Walk(m, q.pagetable, va, FALSE).t : va \in VA}
MappedBy(m, q) ==
    IF q.pagetable = Null THEN {}
    ELSE {va \in VA : Pte(m, q.pagetable, va) # Null}
PagesOf(m, q) ==
    (TablesOf(m, q) \cup {q.trapframe} \cup {Pte(m, q.pagetable, va).pa : va \in MappedBy(m, q)})
    \ {Null, TrampPage}

\* The call leaves memory m and the processes as they are in new.
Done(m, new) ==
    /\ list' = m.list
    /\ freelist' = IF m.list = <<>> THEN Null ELSE Last(m.list)
    /\ mem' = [g \in Pages |-> LET k == {j \in 1 .. Len(m.list) : m.list[j] = g} IN
                 IF k = {} THEN (IF g \in Range(list) THEN Junk ELSE mem[g])
                 ELSE IF 1 \in k THEN Null ELSE m.list[(CHOOSE j \in k : TRUE) - 1]]
    /\ refcnt' = m.ref /\ tbl' = m.tbl /\ panic' = m.panic
    /\ proc' = new
    /\ own' = [t \in Threads |-> IF t \in Procs THEN PagesOf(m, new[t]) ELSE own[t]]
    /\ UNCHANGED <<pc, page, fresh>>

------------------------------------------------------------------------------
(* Page faults and copies *)

AreasAt(q, va) == {k \in 1 .. Len(q.areas) : va \in q.areas[k][1] .. q.areas[k][1] + q.areas[k][2] - 1}
AreaAt(q, va) == q.areas[CHOOSE k \in AreasAt(q, va) : TRUE]

Fails(m) == [m |-> m, ok |-> FALSE]
Vmfault(m, q, va, read) ==
    IF AreasAt(q, va) # {}
    THEN IF (read \/ "W" \in AreaAt(q, va)[3]) /\ Pte(m, q.pagetable, va) = Null
         THEN NewPage(m, q.pagetable, va, AreaAt(q, va)[3]) ELSE Fails(m)
    ELSE IF va < MMAPBASE /\ 2 * va < q.sz /\ Pte(m, q.pagetable, va) = Null
         THEN NewPage(m, q.pagetable, va, RW) ELSE Fails(m)

\* walkaddr finds a page the user may use
Reaches(m, q, va) == va < MAXVA /\ Pte(m, q.pagetable, va) # Null /\ "U" \in Pte(m, q.pagetable, va).perm
PageFor(m, q, va, read) ==
    IF Reaches(m, q, va) THEN [m |-> m, ok |-> TRUE]
    ELSE IF va >= MAXVA THEN Fails(m) ELSE Vmfault(m, q, va, read)

\* Mutant: the whole page is copied wherever the buffer starts in it.
ChunkWhole(at, len) == IF len < 2 THEN len ELSE 2

Chunk(at, len) == IF len < 2 - (at % 2) THEN len ELSE 2 - (at % 2)

\* copyout (op "out"), copyin ("in") and copyinstr ("str", of a string that ends at nul)
RECURSIVE Copy(_, _, _, _, _, _)
CopyAt(kind, r, q, at, len, moved) ==
    IF ~r.ok \/ (kind.op = "out" /\ "W" \notin Pte(r.m, q.pagetable, at \div 2).perm)
    THEN [m |-> r.m, ok |-> FALSE, moved |-> moved]
    ELSE IF kind.op = "str" /\ kind.nul \in at .. at + Chunk(at, len) - 1
    THEN [m |-> r.m, ok |-> TRUE, moved |-> moved \cup (at .. kind.nul)]
    ELSE Copy(kind, r.m, q, 2 * (at \div 2 + 1), len - Chunk(at, len), moved \cup (at .. at + Chunk(at, len) - 1))
Copy(kind, m, q, at, len, moved) ==
    IF len <= 0 THEN [m |-> m, ok |-> kind.op # "str", moved |-> moved]
    ELSE CopyAt(kind, PageFor(m, q, at \div 2, kind.op # "out"), q, at, len, moved)

------------------------------------------------------------------------------
(* The calls of process p *)

NoCopy == [op |-> "none"]
Live(p) == proc[p].pagetable # Null /\ ~proc[p].zombie
Calls(p) ==
    /\ load.calls > 0 /\ Booted /\ panic = "none"
    /\ load' = [load EXCEPT !.calls = @ - 1]
Quiet == copied' = NoCopy
With(p, q) == [proc EXCEPT ![p] = q]

Userinit ==
    /\ Calls(Boot) /\ Quiet
    /\ \A p \in Procs : proc[p].pagetable = Null
    /\ LET r == Allocproc(Now) IN Done(r.m, With(Boot, NewProc(r, 0, <<>>)))

SbrkEager(p, n) ==
    /\ Calls(p) /\ Quiet /\ Live(p) /\ n > 0 /\ proc[p].sz + n <= 2 * MMAPBASE
    /\ LET r == Uvmalloc(Now, proc[p].pagetable, proc[p].sz, proc[p].sz + n, RW) IN
       Done(r.m, With(p, [proc[p] EXCEPT !.sz = IF r.ok THEN @ + n ELSE @]))

SbrkLazy(p, n) ==
    /\ Calls(p) /\ Quiet /\ Live(p) /\ n > 0 /\ proc[p].sz + n <= 2 * MMAPBASE
    /\ Done(Now, With(p, [proc[p] EXCEPT !.sz = @ + n]))

SbrkShrink(p, n) ==
    /\ Calls(p) /\ Quiet /\ Live(p) /\ n > 0 /\ n <= proc[p].sz
    /\ Done(Uvmdealloc(Now, proc[p].pagetable, proc[p].sz, proc[p].sz - n),
            With(p, [proc[p] EXCEPT !.sz = @ - n]))

\* kmmap, for ranges that do not overlap an area of p (Mmap has the others)
Kmmap(p, a, perm) ==
    /\ Calls(p) /\ Quiet /\ Live(p)
    /\ \A va \in a[1] .. a[1] + a[2] - 1 : AreasAt(proc[p], va) = {}
    /\ Done(Now, With(p, [proc[p] EXCEPT !.areas = Append(@, <<a[1], a[2], perm>>)]))

Kmunmap(p, k) ==
    /\ Calls(p) /\ Quiet /\ Live(p)
    /\ Done(Unmapped(Now, proc[p].pagetable, proc[p].areas[k]),
            With(p, [proc[p] EXCEPT !.areas = RemoveAt(@, k)]))

\* A load (or, with the same effect, a store the area permits); when the fault fails
\* the process is killed, which is Kexit.
Fault(p, va) ==
    /\ Calls(p) /\ Quiet /\ Live(p)
    /\ ~Reaches(Now, proc[p], va)
    /\ Done(Vmfault(Now, proc[p], va, TRUE).m, proc)

CopyCall(p, kind, b) ==
    /\ Calls(p) /\ Live(p)
    /\ LET r == Copy(kind, Now, proc[p], b[1], b[2], {}) IN
       /\ Done(r.m, proc)
       /\ copied' = [op |-> kind.op, nul |-> kind.nul, p |-> p, b |-> b, ok |-> r.ok, moved |-> r.moved,
                     short |-> Len(r.m.list) <= 1]

\* kfork: what its memory is when allocproc gave r, then uvmcopy, then mmapfork
Forked(f, p, q, r) ==
    IF f.ok THEN Done(f.m, With(q, NewProc(r, proc[p].sz, proc[p].areas)))
    ELSE Done(Freeproc(f.m, NewProc(r, proc[p].sz, <<>>)), proc)
Copied(c, p, q, r) ==
    IF c.ok THEN Forked(Mmapfork(c.m, proc[p].pagetable, r.root, proc[p].areas, 1), p, q, r)
    ELSE Done(Freeproc(c.m, NewProc(r, 0, <<>>)), proc)
Kfork(p, q) ==
    /\ Calls(p) /\ Quiet /\ Live(p) /\ proc[q].pagetable = Null
    /\ LET r == Allocproc(Now) IN
       IF r.root = Null THEN Done(r.m, proc)
       ELSE Copied(Uvmcopy(r.m, proc[p].pagetable, r.root, 0, PageUp(proc[p].sz)), p, q, r)

\* kexec: no segment, a guard page and a stack page in a table of their own
Loaded(u, p, root) ==
    IF ~u.ok THEN Done(ProcFreepagetable(u.m, root, 0), proc)
    ELSE Done(ProcFreepagetable(
                Mmapfree(Uvmclear(u.m, Walk(u.m, root, 0, FALSE).t, 0), proc[p].pagetable, proc[p].areas),
                proc[p].pagetable, proc[p].sz),
              With(p, [proc[p] EXCEPT !.pagetable = root, !.sz = 4, !.areas = <<>>]))
Kexec(p) ==
    /\ Calls(p) /\ Quiet /\ Live(p)
    /\ LET r == ProcPagetable(Now, proc[p].trapframe) IN
       IF r.root = Null THEN Done(r.m, proc)
       ELSE Loaded(Uvmalloc(r.m, r.root, 0, 4, RW), p, r.root)

\* kexit frees the areas; the parent's wait frees the rest
Kexit(p) ==
    /\ Calls(p) /\ Quiet /\ Live(p) /\ p # Boot
    /\ Done(Mmapfree(Now, proc[p].pagetable, proc[p].areas),
            With(p, [proc[p] EXCEPT !.areas = <<>>, !.zombie = TRUE]))

Kwait(p, q) ==
    /\ Calls(p) /\ Quiet /\ Live(p) /\ proc[q].zombie
    /\ Done(Freeproc(Now, proc[q]), With(q, NoProc))

------------------------------------------------------------------------------
PTInit ==
    /\ \E l \in Loads :
         /\ freelist = Null /\ list = <<>>
         /\ refcnt = [g \in Pages |-> IF g \in l.pages THEN 0 ELSE 1] /\ mem = [g \in Pages |-> Junk]
         /\ pc = [t \in Threads |-> "idle"] /\ page = [t \in Threads |-> Null]
         /\ own = [t \in Threads |-> IF t = Rest THEN Pages \ l.pages ELSE {}]
         /\ fresh = l.pages
         /\ load = l
    /\ tbl = [g \in Pages |-> <<>>]
    /\ proc = [p \in Procs |-> NoProc]
    /\ copied = NoCopy
    /\ panic = "none"

Call ==
    \/ Userinit
    \/ \E p \in Procs :
         \/ Kexec(p) \/ Kexit(p)
         \/ \E q \in Procs : Kfork(p, q) \/ Kwait(p, q)
         \/ \E n \in Sizes : SbrkEager(p, n) \/ SbrkLazy(p, n) \/ SbrkShrink(p, n)
         \/ \E a \in Ranges, perm \in {RW, RW \ {"W"}} : Kmmap(p, a, perm)
         \/ \E k \in 1 .. Len(proc[p].areas) : Kmunmap(p, k)
         \/ \E va \in Touched : Fault(p, va)
         \/ \E b \in Buffers, op \in {"in", "out", "str"} : CopyCall(p, [op |-> op, nul |-> b[3]], b)

KThread(t) ==
    \/ Kalloc(t) \/ KallocFill(t) \/ KfreeJunk(t) \/ KfreeLink(t)
    \/ \E g \in Pages : Kfree(t, g) \/ Store(t, g) \/ \E u \in load.threads : Kaddref(t, u, g)

KStep == (\E g \in Pages : Freerange(g)) \/ KfreeJunk(Boot) \/ KfreeLink(Boot) \/ \E t \in load.threads : KThread(t)

PTNext == Call \/ (KStep /\ UNCHANGED <<tbl, proc, load, copied, panic>>)

PTSpec == PTInit /\ [][PTNext]_pvars

------------------------------------------------------------------------------
(* Properties *)

Mapped(p) == MappedBy(Now, proc[p])
PteOf(p, va) == Pte(Now, proc[p].pagetable, va)

\* Each page table is a tree that maps what its process has and nothing else: the
\* trampoline and the trapframe without access for the user, heap pages below sz,
\* pages of its areas with the area's rights; no table is in two places, no page is
\* mapped twice in a process, and two processes share only pages of mmap areas.
\* Nothing panics (remap, freewalk: leaf, kfree ref).
TreeInv ==
    /\ panic = "none"
    /\ \A p \in Procs : proc[p].pagetable # Null =>
         /\ PteOf(p, TRAMPOLINE) = [pa |-> TrampPage, perm |-> {"R", "X"}]
         /\ PteOf(p, TRAPFRAME) = [pa |-> proc[p].trapframe, perm |-> {"R", "W"}]
         /\ \A va \in Mapped(p) \ {TRAMPOLINE, TRAPFRAME} :
              IF va < MMAPBASE THEN 2 * va < proc[p].sz /\ PteOf(p, va).perm \in {RW, RW \ {"U"}}
              ELSE AreasAt(proc[p], va) # {} /\ PteOf(p, va).perm = AreaAt(proc[p], va)[3]
         /\ \A va, vb \in Mapped(p) : va # vb => PteOf(p, va).pa # PteOf(p, vb).pa
         /\ \A q \in Procs \ {p} :
              /\ TablesOf(Now, proc[p]) \cap TablesOf(Now, proc[q]) \subseteq {Null}
              /\ \A va \in Mapped(p), vb \in Mapped(q) :
                   PteOf(p, va).pa = PteOf(q, vb).pa => va = vb /\ (va >= MMAPBASE)

\* munmap leaves no empty table behind: a table of the mmap region that maps nothing
\* lies under an area that still exists (whose first fault ran out of memory).
MunmapTidy ==
    \A p \in Procs, va \in MMAPBASE .. MmapEnd - 1, level \in {1, 2} :
      LET size == Fan ^ level
          span == (va \div size) * size .. (va \div size) * size + size - 1
          t == IF level = 2 THEN Down(Now, proc[p].pagetable, PX(2, va), FALSE).t
               ELSE Walk(Now, proc[p].pagetable, va, FALSE).t
      IN
      proc[p].pagetable # Null /\ t # Null /\ tbl[t] = Zeroed =>
         \E vb \in span : vb < MMAPBASE \/ AreasAt(proc[p], vb) # {}

\* copyin, copyout and copyinstr move exactly the bytes asked for (up to the end of
\* the string), or stop at the first page the process may not use that way, however
\* the buffer lies across pages; a page it may use but does not have yet is faulted
\* in, unless memory runs out.
CopyExact ==
    copied # NoCopy =>
      LET b == copied.b  q == proc[copied.p]
          end == IF copied.op = "str" /\ copied.nul \in b[1] .. b[1] + b[2] - 1 THEN copied.nul ELSE b[1] + b[2] - 1
          Usable(va) == Reaches(Now, q, va) /\ (copied.op = "out" => "W" \in PteOf(copied.p, va).perm)
          Lazy(va) == va < MAXVA /\ PteOf(copied.p, va) = Null
                      /\ (IF va < MMAPBASE THEN 2 * va < q.sz
                          ELSE AreasAt(q, va) # {} /\ (copied.op = "out" => "W" \in AreaAt(q, va)[3]))
          fit == \A x \in b[1] .. end : Usable(x \div 2)
      IN
      /\ copied.ok <=> fit /\ (copied.op = "str" => end = copied.nul)
      /\ copied.moved = {x \in b[1] .. end : \A y \in b[1] .. x : Usable(y \div 2)}
      /\ ~fit => copied.short \/ \E x \in b[1] .. end : ~Usable(x \div 2) /\ ~Lazy(x \div 2)
===============================================================================
