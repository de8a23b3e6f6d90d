-------------------------------- MODULE Mmap --------------------------------
(***************************************************************************)
(* User memory: heaps (sbrk, lazy faults), memory mappings (the global     *)
(* mmaptable), page reference counts, and how fork, exec, exit and wait    *)
(* copy and free them (kernel/vm.c, kernel/kalloc.c, kernel/proc.c,        *)
(* kernel/exec.c).                                                         *)
(*                                                                         *)
(* Addresses are page numbers; sizes given to sbrk are in units of half a  *)
(* page, so that rounding matters.  A process runs its own system calls;   *)
(* calls that loop over pages or over mmaptable take a step per iteration, *)
(* and steps of different processes interleave.  Memory also goes to       *)
(* page-table pages, trapframes and pipes: kalloc may fail at any time.    *)
(*                                                                         *)
(* kmmap does not check MMAPBASE + addr, which may wrap: a mapping may lie *)
(* anywhere, over the heap or over the trapframe and beyond.  A call that  *)
(* panics sets panicked, and nothing is followed after that.               *)
(***************************************************************************)
EXTENDS Naturals, FiniteSets

CONSTANTS
    Procs,         \* slots of the process table
    InitProc,      \* the slot of init
    Pages,         \* physical pages
    Files,         \* open files that can be mapped
    Writable,      \* those opened for writing
    None,
    HeapPages,     \* MMAPBASE, in pages
    MmapPages,     \* pages from MMAPBASE to the trapframe
    NMMAPAREA      \* entries of mmaptable

VARIABLES
    refcnt,        \* references to a physical page; 0: on the free list
    pt,            \* user page tables: None or a page and its permission
    sz,            \* p->sz
    area,          \* mmaptable.area
    ofile,         \* files a process has open
    fref,          \* references to a file
    state,         \* of a process slot
    pc,            \* the system call a process is in
    child,         \* fork: the new process
    cur,           \* kmmap: its local copy of the new area
    image,         \* kexec: the page table it builds
    idx,           \* loop index of that system call
    panicked       \* the process whose call panicked

vars == <<refcnt, pt, sz, area, ofile, fref, state, pc, child, cur, image, idx, panicked>>

PGSIZE    == 2
MMAPBASE  == HeapPages
TRAPFRAME == HeapPages + MmapPages      \* the trapframe, then the trampoline
MAXVA     == TRAPFRAME + 2              \* stands for all the addresses from MAXVA on
VA        == 0 .. TRAPFRAME - 1
MmapVA    == MMAPBASE .. TRAPFRAME - 1
Slots     == 1 .. NMMAPAREA
Prot      == {"R", "RW"}
PTE       == [pa : Pages, perm : Prot]
Area      == [p : Procs, addr : 0 .. MAXVA, length : 0 .. MAXVA + 1,
              f : Files \cup {None}, prot : Prot]

ASSUME MmapAssumption ==
    /\ IsFiniteSet(Procs) /\ InitProc \in Procs
    /\ Writable \subseteq Files
    /\ None \notin Procs \cup Files /\ None \notin PTE /\ None \notin Area
    /\ HeapPages \in Nat
    /\ MmapPages \in Nat
    /\ NMMAPAREA \in Nat

PageUp(n) == (n + PGSIZE - 1) \div PGSIZE
Heap(p)   == 0 .. PageUp(sz[p]) - 1

First(S) == CHOOSE i \in S : \A j \in S : i <= j

NoMap == [va \in VA |-> None]

FreePages == {pa \in Pages : refcnt[pa] = 0}
FreeSlots == {i \in Slots : area[i] = None}
Owned(p)  == {i \in Slots : area[i] # None /\ area[i].p = p}

Span(a)       == a.addr .. a.addr + a.length - 1
Covering(p, va) == {i \in Owned(p) : va \in Span(area[i])}
High(a)       == \E va \in Span(a) : va >= TRAPFRAME

TypeOK ==
    /\ refcnt \in [Pages -> Nat]
    /\ pt \in [Procs -> [VA -> PTE \cup {None}]]
    /\ sz \in [Procs -> 0 .. PGSIZE * HeapPages]
    /\ area \in [Slots -> Area \cup {None}]
    /\ ofile \in [Procs -> SUBSET Files]
    /\ fref \in [Files -> Nat]
    /\ state \in [Procs -> {"UNUSED", "USED", "RUNNABLE", "ZOMBIE"}]
    /\ pc \in [Procs -> {"user", "populate", "uvmcopy", "mmapfork", "exit", "exec"}]
    /\ child \in [Procs -> Procs \cup {None}]
    /\ cur \in [Procs -> Area \cup {None}]
    /\ image \in [Procs -> [VA -> PTE \cup {None}]]
    /\ idx \in [Procs -> Nat]
    /\ panicked \in Procs \cup {None}

Init ==
    /\ refcnt = [pa \in Pages |-> 0]
    /\ pt = [p \in Procs |-> NoMap]
    /\ sz = [p \in Procs |-> 0]
    /\ area = [i \in Slots |-> None]
    /\ ofile = [p \in Procs |-> IF p = InitProc THEN Files ELSE {}]
    /\ fref = [f \in Files |-> 1]
    /\ state = [p \in Procs |-> IF p = InitProc THEN "RUNNABLE" ELSE "UNUSED"]
    /\ pc = [p \in Procs |-> "user"]
    /\ child = [p \in Procs |-> None]
    /\ cur = [p \in Procs |-> None]
    /\ image = [p \in Procs |-> NoMap]
    /\ idx = [p \in Procs |-> 0]
    /\ panicked = None

InUser(p) == state[p] = "RUNNABLE" /\ pc[p] = "user"

------------------------------------------------------------------------------
(* kalloc, kfree, mappages and uvmunmap on the state above *)

\* kalloc takes a free page and mappages enters it in p's page table.
MapNew(p, va, pa, perm) ==
    /\ pa \in FreePages
    /\ refcnt' = [refcnt EXCEPT ![pa] = 1]
    /\ pt' = [pt EXCEPT ![p][va] = [pa |-> pa, perm |-> perm]]

\* kfree of each page mapped in the range vs of the page table map.
Dropped(map, vs, count) ==
    [pa \in Pages |->
        count[pa] - Cardinality({va \in vs \cap VA : map[va] # None /\ map[va].pa = pa})]

Cleared(map, vs) == [va \in VA |-> IF va \in vs THEN None ELSE map[va]]

\* uvmunmap(pagetable, ..., do_free = 1)
Uvmunmap(p, vs) ==
    /\ refcnt' = Dropped(pt[p], vs, refcnt)
    /\ pt' = [pt EXCEPT ![p] = Cleared(pt[p], vs)]

Filedup(f, count)   == IF f = None THEN count ELSE [count EXCEPT ![f] = @ + 1]

Fileclose(f, count) == IF f = None THEN count ELSE [count EXCEPT ![f] = @ - 1]

------------------------------------------------------------------------------
(* mmap and munmap *)

\* kmmap up to mmap_insert.  With a full table it changes nothing.  An area whose
\* end wraps past 2^64 covers no address: it has length 0 here.
Kmmap(p, a, populate) ==
    /\ InUser(p)
    /\ a.p = p
    /\ a.length = 0 => a.addr = MAXVA
    /\ a.f # None => a.f \in ofile[p] /\ (a.prot = "RW" => a.f \in Writable)
    /\ FreeSlots # {}
    /\ fref' = Filedup(a.f, fref)
    /\ area' = [area EXCEPT ![First(FreeSlots)] = a]
    /\ IF populate
         THEN /\ pc' = [pc EXCEPT ![p] = "populate"]
              /\ cur' = [cur EXCEPT ![p] = a]
              /\ idx' = [idx EXCEPT ![p] = a.addr]
         ELSE UNCHANGED <<pc, cur, idx>>
    /\ UNCHANGED <<refcnt, pt, sz, ofile, state, child, image>>

\* MAP_POPULATE: mmap_map_page for the next page of the new area.
PopulatePage(p, pa) ==
    /\ pc[p] = "populate"
    /\ idx[p] \in Span(cur[p]) \cap VA
    /\ pt[p][idx[p]] = None
    /\ MapNew(p, idx[p], pa, cur[p].prot)
    /\ idx' = [idx EXCEPT ![p] = @ + 1]
    /\ UNCHANGED <<sz, area, ofile, fref, state, pc, child, cur, image>>

\* All pages are in, one was already mapped (the trapframe is), or memory ran out:
\* kmmap returns and the area stays in the table.
PopulateEnd(p) ==
    /\ pc[p] = "populate"
    /\ ~(idx[p] \in Span(cur[p]) /\ idx[p] >= MAXVA)
    /\ pc' = [pc EXCEPT ![p] = "user"]
    /\ cur' = [cur EXCEPT ![p] = None]
    /\ idx' = [idx EXCEPT ![p] = 0]
    /\ UNCHANGED <<refcnt, pt, sz, area, ofile, fref, state, child, image>>

\* mmap_take_start / mmap_take_any, then unmap the range and close the file.
TakeArea(p, i) ==
    /\ ~High(area[i])
    /\ area' = [area EXCEPT ![i] = None]
    /\ Uvmunmap(p, Span(area[i]))
    /\ fref' = Fileclose(area[i].f, fref)

Starts(p, addr) == {i \in Owned(p) : area[i].addr = addr}

Kmunmap(p, addr) ==
    /\ InUser(p)
    /\ Starts(p, addr) # {}
    /\ TakeArea(p, First(Starts(p, addr)))
    /\ UNCHANGED <<sz, ofile, state, pc, child, cur, image, idx>>

------------------------------------------------------------------------------
(* Page faults and the heap *)

\* vmfault in a mapping: the first area that covers va decides.  A fault that
\* fails (write to a read-only area, no memory) changes nothing.
FaultMmap(p, va, pa, read) ==
    LET a == area[First(Covering(p, va))] IN
    /\ InUser(p)
    /\ Covering(p, va) # {}
    /\ read \/ a.prot = "RW"
    /\ pt[p][va] = None
    /\ MapNew(p, va, pa, a.prot)
    /\ UNCHANGED <<sz, area, ofile, fref, state, pc, child, cur, image, idx>>

\* vmfault below p->sz: memory a lazy sbrk promised.
FaultHeap(p, va, pa) ==
    /\ InUser(p)
    /\ Covering(p, va) = {}
    /\ va < MMAPBASE
    /\ va * PGSIZE < sz[p]
    /\ pt[p][va] = None
    /\ MapNew(p, va, pa, "RW")
    /\ UNCHANGED <<sz, area, ofile, fref, state, pc, child, cur, image, idx>>

\* sys_sbrk, lazy.
SbrkLazy(p, n) ==
    /\ InUser(p)
    /\ sz[p] + n <= PGSIZE * MMAPBASE
    /\ sz' = [sz EXCEPT ![p] = @ + n]
    /\ UNCHANGED <<refcnt, pt, area, ofile, fref, state, pc, child, cur, image, idx>>

\* The pages uvmalloc must add to go from oldsz to newsz.
NewPages(oldsz, newsz) == PageUp(oldsz) .. PageUp(newsz) - 1

\* Distinct free pages for a set of addresses.
Fill(vs) == {m \in [vs -> FreePages] : \A v, w \in vs : m[v] = m[w] => v = w}

Taken(vs, m) ==
    [pa \in Pages |-> IF \E va \in vs : m[va] = pa THEN 1 ELSE refcnt[pa]]

Uvmalloc(p, vs, m) ==
    /\ refcnt' = Taken(vs, m)
    /\ pt' = [pt EXCEPT ![p] =
                 [va \in VA |-> IF va \in vs THEN [pa |-> m[va], perm |-> "RW"] ELSE @[va]]]

\* Pages of a mapping in the way of uvmalloc.
InTheWay(p, vs) == {va \in vs : pt[p][va] # None}

\* growproc(n), n > 0.  When a page is missing uvmalloc frees what it took.
Grow(p, n) ==
    LET vs == NewPages(sz[p], sz[p] + n) IN
    /\ InUser(p)
    /\ sz[p] + n <= PGSIZE * MMAPBASE
    /\ InTheWay(p, vs) = {}
    /\ \E m \in Fill(vs) : Uvmalloc(p, vs, m)
    /\ sz' = [sz EXCEPT ![p] = @ + n]
    /\ UNCHANGED <<area, ofile, fref, state, pc, child, cur, image, idx>>

\* growproc(-n).  Below zero sz + n wraps to a huge size and nothing happens.
Shrink(p, n) ==
    /\ InUser(p)
    /\ n <= sz[p]
    /\ Uvmunmap(p, NewPages(sz[p] - n, sz[p]))
    /\ sz' = [sz EXCEPT ![p] = @ - n]
    /\ UNCHANGED <<area, ofile, fref, state, pc, child, cur, image, idx>>

------------------------------------------------------------------------------
(* fork *)

\* allocproc.
ForkStart(p, c) ==
    /\ InUser(p)
    /\ state[c] = "UNUSED"
    /\ state' = [state EXCEPT ![c] = "USED"]
    /\ child' = [child EXCEPT ![p] = c]
    /\ pc' = [pc EXCEPT ![p] = "uvmcopy"]
    /\ idx' = [idx EXCEPT ![p] = 0]
    /\ UNCHANGED <<refcnt, pt, sz, area, ofile, fref, cur, image>>

\* uvmcopy gives the child a copy of a resident heap page, and skips the others.
UvmcopyPage(p, pa) ==
    /\ pc[p] = "uvmcopy"
    /\ idx[p] * PGSIZE < sz[p]
    /\ IF pt[p][idx[p]] = None
         THEN UNCHANGED <<refcnt, pt>>
         ELSE MapNew(child[p], idx[p], pa, pt[p][idx[p]].perm)
    /\ idx' = [idx EXCEPT ![p] = @ + 1]
    /\ UNCHANGED <<sz, area, ofile, fref, state, pc, child, cur, image>>

\* Mutant: a partial last page is not copied.
UvmcopyEndEarly(p) ==
    /\ pc[p] = "uvmcopy"
    /\ (idx[p] + 1) * PGSIZE > sz[p]
    /\ sz' = [sz EXCEPT ![child[p]] = sz[p]]
    /\ pc' = [pc EXCEPT ![p] = "mmapfork"]
    /\ idx' = [idx EXCEPT ![p] = 1]
    /\ UNCHANGED <<refcnt, pt, area, ofile, fref, state, child, cur, image>>

UvmcopyEnd(p) ==
    /\ pc[p] = "uvmcopy"
    /\ idx[p] * PGSIZE >= sz[p]
    /\ sz' = [sz EXCEPT ![child[p]] = sz[p]]
    /\ pc' = [pc EXCEPT ![p] = "mmapfork"]
    /\ idx' = [idx EXCEPT ![p] = 1]
    /\ UNCHANGED <<refcnt, pt, area, ofile, fref, state, child, cur, image>>

\* freeproc(c): mmapfreeproc and proc_freepagetable; pages in vs have just been
\* unmapped by the caller.
Freeproc(c, vs) ==
    /\ area' = [i \in Slots |-> IF i \in Owned(c) THEN None ELSE area[i]]
    /\ fref' = [f \in Files |-> fref[f] - Cardinality({i \in Owned(c) : area[i].f = f})]
    /\ Uvmunmap(c, vs \cup Heap(c) \cup UNION {Span(area[i]) : i \in Owned(c)})
    /\ sz' = [sz EXCEPT ![c] = 0]
    /\ state' = [state EXCEPT ![c] = "UNUSED"]

\* kfork gives up: freeproc(np).
ForkFail(p, vs) ==
    /\ Freeproc(child[p], vs)
    /\ child' = [child EXCEPT ![p] = None]
    /\ pc' = [pc EXCEPT ![p] = "user"]
    /\ idx' = [idx EXCEPT ![p] = 0]
    /\ UNCHANGED <<ofile, cur, image>>

\* uvmcopy ran out of memory: it unmaps what it copied.
UvmcopyFail(p) ==
    /\ pc[p] = "uvmcopy"
    /\ idx[p] * PGSIZE < sz[p]
    /\ pt[p][idx[p]] # None
    /\ ForkFail(p, 0 .. idx[p] - 1)

\* Mutant: the index does not advance past the area just copied.
ToCopyAgain(p) == {i \in Owned(p) : i + 1 >= idx[p]}

\* mmapfork: the parent's areas that remain to be copied, in table order.
ToCopy(p) == {i \in Owned(p) : i >= idx[p]}

\* mappages would panic: the child has a page there already.
Remap(p) ==
    \E va \in Span(area[First(ToCopy(p))]) \cap VA :
       pt[p][va] # None /\ pt[child[p]][va] # None

\* Mutant: mmap_copy_pages forgets kaddref.
KaddrefMissing(p, vs) ==
    [pa \in Pages |-> refcnt[pa]]

\* kaddref for the pages the parent has at the addresses vs.
Kaddref(p, vs) ==
    [pa \in Pages |-> refcnt[pa] + Cardinality({va \in vs : pt[p][va].pa = pa})]

\* One area: the child gets its own entry, a reference to the file, and
\* (mmap_copy_pages) the same pages as the parent.
MmapforkArea(p) ==
    LET i == First(ToCopy(p))
        c == child[p]
        shared == {va \in Span(area[i]) \cap VA : pt[p][va] # None}
    IN
    /\ pc[p] = "mmapfork"
    /\ ToCopy(p) # {}
    /\ FreeSlots # {}
    /\ ~High(area[i]) /\ ~Remap(p)
    /\ area' = [area EXCEPT ![First(FreeSlots)] = [area[i] EXCEPT !.p = c]]
    /\ fref' = Filedup(area[i].f, fref)
    /\ refcnt' = Kaddref(p, shared)
    /\ pt' = [pt EXCEPT ![c] = [va \in VA |-> IF va \in shared THEN pt[p][va] ELSE @[va]]]
    /\ idx' = [idx EXCEPT ![p] = i + 1]
    /\ UNCHANGED <<sz, ofile, state, pc, child, cur, image>>

\* mmaptable is full or mappages failed: mmapfreeproc(newp), freeproc(np).
MmapforkFail(p) ==
    /\ pc[p] = "mmapfork"
    /\ ToCopy(p) # {}
    /\ High(area[First(ToCopy(p))]) => FreeSlots = {}
    /\ ForkFail(p, {})

\* The rest of kfork: the child shares the open files and may run.
ForkEnd(p) ==
    LET c == child[p] IN
    /\ pc[p] = "mmapfork"
    /\ ToCopy(p) = {}
    /\ ofile' = [ofile EXCEPT ![c] = ofile[p]]
    /\ fref' = [f \in Files |-> IF f \in ofile[p] THEN fref[f] + 1 ELSE fref[f]]
    /\ state' = [state EXCEPT ![c] = "RUNNABLE"]
    /\ child' = [child EXCEPT ![p] = None]
    /\ pc' = [pc EXCEPT ![p] = "user"]
    /\ idx' = [idx EXCEPT ![p] = 0]
    /\ UNCHANGED <<refcnt, pt, sz, area, cur, image>>

------------------------------------------------------------------------------
(* exit, wait, exec, and close *)

\* kexit enters mmapfreeproc; init does not exit.
ExitStart(p) ==
    /\ InUser(p)
    /\ p # InitProc
    /\ pc' = [pc EXCEPT ![p] = "exit"]
    /\ UNCHANGED <<refcnt, pt, sz, area, ofile, fref, state, child, cur, image, idx>>

\* kexec builds the new image, n units large, beside the old one; its text
\* (page 0) is not writable.  Then it enters mmapfreeproc.
ExecStart(p, n) ==
    LET vs == NewPages(0, n) IN
    /\ InUser(p)
    /\ \E m \in Fill(vs) :
         /\ refcnt' = Taken(vs, m)
         /\ image' = [image EXCEPT ![p] =
                        [va \in VA |-> IF va \notin vs THEN None
                                       ELSE [pa |-> m[va],
                                             perm |-> IF va = 0 THEN "R" ELSE "RW"]]]
    /\ pc' = [pc EXCEPT ![p] = "exec"]
    /\ idx' = [idx EXCEPT ![p] = n]
    /\ UNCHANGED <<pt, sz, area, ofile, fref, state, child, cur>>

\* mmapfreeproc: one mmap_take_any.
MmapfreeArea(p) ==
    /\ pc[p] \in {"exit", "exec"}
    /\ Owned(p) # {}
    /\ TakeArea(p, First(Owned(p)))
    /\ UNCHANGED <<sz, ofile, state, pc, child, cur, image, idx>>

\* The rest of kexit: close every file, become a zombie.
ExitEnd(p) ==
    /\ pc[p] = "exit"
    /\ Owned(p) = {}
    /\ fref' = [f \in Files |-> IF f \in ofile[p] THEN fref[f] - 1 ELSE fref[f]]
    /\ ofile' = [ofile EXCEPT ![p] = {}]
    /\ state' = [state EXCEPT ![p] = "ZOMBIE"]
    /\ pc' = [pc EXCEPT ![p] = "user"]
    /\ UNCHANGED <<refcnt, pt, sz, area, child, cur, image, idx>>

\* The rest of kexec: the new image replaces the old heap, which is freed.
ExecEnd(p) ==
    /\ pc[p] = "exec"
    /\ Owned(p) = {}
    /\ refcnt' = Dropped(pt[p], Heap(p), refcnt)
    /\ pt' = [pt EXCEPT ![p] = image[p]]
    /\ image' = [image EXCEPT ![p] = NoMap]
    /\ sz' = [sz EXCEPT ![p] = idx[p]]
    /\ pc' = [pc EXCEPT ![p] = "user"]
    /\ idx' = [idx EXCEPT ![p] = 0]
    /\ UNCHANGED <<area, ofile, fref, state, child, cur>>

\* kwait / kwaitpid: freeproc of a zombie.
Reap(c) ==
    /\ state[c] = "ZOMBIE"
    /\ Freeproc(c, {})
    /\ UNCHANGED <<ofile, pc, child, cur, image, idx>>

\* sys_close.
Close(p, f) ==
    /\ InUser(p)
    /\ f \in ofile[p]
    /\ ofile' = [ofile EXCEPT ![p] = @ \ {f}]
    /\ fref' = Fileclose(f, fref)
    /\ UNCHANGED <<refcnt, pt, sz, area, state, pc, child, cur, image, idx>>

------------------------------------------------------------------------------
(* Panics *)

\* Unmapping an area that reaches the trapframe frees the page of the trapframe
\* and panics at the next one (kfree of the trampoline, walk from MAXVA on); where
\* the trapframe is its last page the process cannot return from the trap.
UnmapPanics(p) ==
    \/ InUser(p) /\ \E i \in Owned(p) : High(area[i]) /\ i = First(Starts(p, area[i].addr))
    \/ pc[p] \in {"exit", "exec"} /\ Owned(p) # {} /\ High(area[First(Owned(p))])

\* walk at MAXVA or above, from vmfault or for MAP_POPULATE.
WalkPanics(p) ==
    \/ /\ InUser(p)
       /\ \E i \in Owned(p) : \E va \in Span(area[i]) : va >= MAXVA
    \/ /\ pc[p] = "populate"
       /\ idx[p] \in Span(cur[p]) /\ idx[p] >= MAXVA

\* mappages meets a page of a mapping where uvmalloc wants one for the heap.
GrowPanics(p) ==
    /\ InUser(p)
    /\ \E n \in 1 .. PGSIZE * MMAPBASE - sz[p] :
         LET vs == NewPages(sz[p], sz[p] + n)
             hit == InTheWay(p, vs)
         IN  hit # {} /\ Fill({va \in vs : va <= First(hit)}) # {}

\* mappages meets a page of the child where mmapfork wants the parent's; the child
\* has a trapframe and a trampoline.
MmapforkPanics(p) ==
    /\ pc[p] = "mmapfork"
    /\ ToCopy(p) # {}
    /\ FreeSlots # {}
    /\ High(area[First(ToCopy(p))]) \/ Remap(p)

Panic(p) ==
    /\ UnmapPanics(p) \/ WalkPanics(p) \/ GrowPanics(p) \/ MmapforkPanics(p)
    /\ panicked' = p
    /\ UNCHANGED <<refcnt, pt, sz, area, ofile, fref, state, pc, child, cur, image, idx>>

------------------------------------------------------------------------------
\* mmap is called with one of args.
MmapCall(args) ==
    \E p \in Procs, a \in args, populate \in BOOLEAN : Kmmap(p, a, populate)

Step ==
    \/ \E p \in Procs : \/ \E pa \in Pages : PopulatePage(p, pa)
                        \/ PopulateEnd(p)
                        \/ \E addr \in 0 .. MAXVA : Kmunmap(p, addr)
    \/ \E p \in Procs, va \in VA, pa \in Pages :
                        \/ \E read \in BOOLEAN : FaultMmap(p, va, pa, read)
                        \/ FaultHeap(p, va, pa)
    \/ \E p \in Procs, n \in 1 .. PGSIZE * HeapPages :
                        \/ SbrkLazy(p, n)
                        \/ Grow(p, n)
                        \/ Shrink(p, n)
    \/ \E p \in Procs : \/ \E c \in Procs : ForkStart(p, c)
                        \/ \E pa \in Pages : UvmcopyPage(p, pa)
                        \/ UvmcopyEnd(p)
                        \/ UvmcopyFail(p)
                        \/ MmapforkArea(p)
                        \/ MmapforkFail(p)
                        \/ ForkEnd(p)
    \/ \E p \in Procs : \/ ExitStart(p)
                        \/ \E n \in 1 .. PGSIZE * HeapPages : ExecStart(p, n)
                        \/ MmapfreeArea(p)
                        \/ ExitEnd(p)
                        \/ ExecEnd(p)
                        \/ Reap(p)
                        \/ \E f \in Files : Close(p, f)

NextWith(args) ==
    /\ panicked = None
    /\ \/ MmapCall(args) /\ UNCHANGED panicked
       \/ Step /\ UNCHANGED panicked
       \/ \E p \in Procs : Panic(p)

Next == NextWith(Area)

Spec == Init /\ [][Next]_vars

------------------------------------------------------------------------------
(* Properties *)

Resident(p) == {va \in VA : pt[p][va] # None}

\* The entries of the page tables maps that map a page.
Entries(maps, pa) ==
    {m \in Procs \X VA : maps[m[1]][m[2]] # None /\ maps[m[1]][m[2]].pa = pa}

\* kaddref, kalloc and kfree balance: a page's reference count is the number of
\* entries that map it, in page tables and in the images kexec builds.
RefsExact ==
    \A pa \in Pages : refcnt[pa] = Cardinality(Entries(pt, pa)) + Cardinality(Entries(image, pa))

\* filedup and fileclose balance: a file's reference count is the number of
\* descriptors and of mmaptable entries that hold it.
FileRefsExact ==
    \A f \in Files :
       fref[f] = Cardinality({p \in Procs : f \in ofile[p]})
                 + Cardinality({i \in Slots : area[i] # None /\ area[i].f = f})

\* Every resident page lies in an area of its process or below the process's size,
\* wherever areas were put, so that freeproc and kexec unmap all of them and
\* freewalk does not panic ("freewalk: leaf").  A child of fork gets its size after
\* its pages.
ResidentCovered ==
    \A p \in Procs : \A va \in Resident(p) :
       \/ Covering(p, va) # {}
       \/ va \in Heap(p)
       \/ va < MMAPBASE /\ state[p] = "USED"

\* mmaptable entries belong to processes that will free them: kwait never frees
\* a mapping (fileclose would sleep holding p->lock), and the next process of a
\* slot starts with none.
AreasOwned ==
    \A i \in Slots : area[i] # None => state[area[i].p] \in {"USED", "RUNNABLE"}

\* fork copies heap pages and shares only mappings: a page that lies in no area of
\* its process is mapped once.
HeapPrivate ==
    \A p \in Procs : \A va \in Resident(p) :
       Covering(p, va) = {} => refcnt[pt[p][va].pa] = 1

\* A running process can write a page outside its heap only where it has a
\* PROT_WRITE mapping, whatever it unmapped, inherited or mapped over.
WritableCovered ==
    \A p \in Procs : state[p] = "RUNNABLE" =>
       \A va \in Resident(p) \ Heap(p) :
          pt[p][va].perm = "RW" => \E i \in Covering(p, va) : area[i].prot = "RW"

\* What the slots of the process table hold between and inside the calls: a free
\* slot has no memory, only a running process has files, a child under construction
\* belongs to one fork, and MAP_POPULATE works on an area of its process.
SlotsSound ==
    \A p \in Procs :
       /\ pc[p] # "user" => state[p] = "RUNNABLE"
       /\ state[p] = "UNUSED" => pt[p] = NoMap /\ sz[p] = 0
       /\ state[p] # "RUNNABLE" => ofile[p] = {}
       /\ child[p] # None <=> pc[p] \in {"uvmcopy", "mmapfork"}
       /\ child[p] # None => /\ state[child[p]] = "USED"
                             /\ \A q \in Procs \ {p} : child[q] # child[p]
       /\ pc[p] = "populate" => \E i \in Owned(p) : area[i] = cur[p]

\* How far uvmcopy and mmapfork have come: the child has a page where the parent has
\* one, up to the loop index, and the pages of the areas copied so far.
ForkCopies ==
    \A p \in Procs :
       LET c == child[p]
           Done == {k \in Owned(p) : k < idx[p]}
       IN
       /\ pc[p] = "uvmcopy" =>
            /\ sz[c] = 0 /\ Owned(c) = {} /\ idx[p] <= PageUp(sz[p])
            /\ \A va \in VA : IF va < idx[p] THEN pt[c][va] # None <=> pt[p][va] # None
                                             ELSE pt[c][va] = None
       /\ pc[p] = "mmapfork" =>
            /\ sz[c] = sz[p]
            /\ \A va \in VA : IF va \in Heap(p) THEN pt[c][va] # None <=> pt[p][va] # None
                               ELSE pt[c][va] = IF \E k \in Done : va \in Span(area[k])
                                                THEN pt[p][va] ELSE None
            /\ \A k \in Done : \E i \in Owned(c) : area[i] = [area[k] EXCEPT !.p = c]
            /\ \A f \in Files : Cardinality({i \in Owned(c) : area[i].f = f})
                                  = Cardinality({k \in Done : area[k].f = f})

\* The image that kexec builds is of the size it remembers, and nobody else's.
ImagesSound ==
    \A p \in Procs :
       /\ pc[p] = "exec" => idx[p] \in 1 .. PGSIZE * HeapPages
       /\ \A va \in VA : image[p][va] # None =>
             /\ pc[p] = "exec" /\ va < PageUp(idx[p])
             /\ refcnt[image[p][va].pa] = 1

\* The bookkeeping of memory is exact in every state, in the middle of a fork, exec,
\* exit or munmap as well: counts of pages and files, areas, what is mapped and what
\* may be written.
MmapInv ==
    /\ TypeOK
    /\ RefsExact
    /\ FileRefsExact
    /\ ResidentCovered
    /\ AreasOwned
    /\ HeapPrivate
    /\ WritableCovered
    /\ SlotsSound
    /\ ForkCopies
    /\ ImagesSound

\* When mmapfork fails it closes the child's files with np->lock held.  None of
\* these closes is the last, which would sleep in begin_op: the parent's area
\* still holds the file.
ForkCloseNotLast ==
    \A p \in Procs : pc[p] = "mmapfork" =>
       \A f \in Files :
          Cardinality({i \in Owned(child[p]) : area[i].f = f})
            <= Cardinality({i \in Owned(p) : area[i].f = f})

\* An area that kmmap was not meant to give: one that leaves the range from MMAPBASE
\* to the trapframe, or overlaps another of its process.
Misplaced(p) ==
    \E i \in Owned(p) :
       \/ ~(Span(area[i]) \subseteq MmapVA)
       \/ \E j \in Owned(p) \ {i} : Span(area[i]) \cap Span(area[j]) # {}

\* The kernel panics in these calls ("mappages: remap", "walk", "kfree") only for a
\* process with a misplaced area: as long as mappings keep to their range and apart,
\* neither fork nor sbrk maps a page twice, whatever was faulted in, unmapped,
\* inherited or replaced before.
PanicOnlyMisplaced == panicked # None => Misplaced(panicked)

\* When the child of a fork starts, it shares the parent's resident pages outside
\* the heap and has pages of its own at the parent's resident heap addresses.
ForkShares ==
    [][\A p \in Procs : ForkEnd(p) =>
         \A va \in VA :
            IF va \in Heap(p) THEN pt[child[p]][va] # None <=> pt[p][va] # None
            ELSE pt[child[p]][va] = pt[p][va]]_vars
==============================================================================
