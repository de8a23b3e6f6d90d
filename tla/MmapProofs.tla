----------------------------- MODULE MmapProofs -----------------------------
(***************************************************************************)
(* Proofs about Mmap: its inductive invariant, first the layout of page    *)
(* tables, areas and processes, then the counts of pages and files.        *)
(***************************************************************************)
EXTENDS Mmap, Integers, TLAPS

------------------------------------------------------------------------------
(* Sizes and addresses *)

\* PGROUNDUP: the pages below a rounded size are those that begin below the size.
LEMMA PageUpFacts ==
  ASSUME NEW n \in Nat
  PROVE  /\ PageUp(n) \in Nat
         /\ \A v \in Nat : v < PageUp(n) <=> v * PGSIZE < n
         /\ n <= PGSIZE * HeapPages => PageUp(n) <= HeapPages
<1>1. HeapPages \in Nat
  BY MmapAssumption
<1> QED
  BY <1>1, SMT DEF PageUp, PGSIZE

\* A larger size rounds to no fewer pages.
LEMMA PageUpMonotone ==
  ASSUME NEW m \in Nat, NEW n \in Nat, m <= n
  PROVE  PageUp(m) <= PageUp(n)
BY SMT DEF PageUp, PGSIZE

\* The addresses of heaps and mappings.
LEMMA Addresses ==
  /\ HeapPages \in Nat /\ MmapPages \in Nat /\ MMAPBASE \in Nat
  /\ \A va \in VA : va \in Nat
  /\ \A va \in Nat : va < MMAPBASE => va \in VA
BY MmapAssumption, SMT DEF VA, MMAPBASE, TRAPFRAME

\* Indices of mmaptable are numbers.
LEMMA SlotsNat == Slots \subseteq Nat
BY MmapAssumption, SMT DEF Slots

\* The empty page table.
LEMMA NoMapFacts == /\ NoMap \in [VA -> PTE \cup {None}]
                    /\ \A va \in VA : NoMap[va] = None
BY Zenon DEF NoMap

------------------------------------------------------------------------------
(* The layout of memory, without its counts *)

\* The least element that the loops over mmaptable find.
Firsts ==
    \A S \in SUBSET Nat : S # {} => First(S) \in S /\ \A j \in S : First(S) <= j

\* TypeOK without the reference counts.
Shape ==
    /\ pt \in [Procs -> [VA -> PTE \cup {None}]]
    /\ sz \in [Procs -> 0 .. PGSIZE * HeapPages]
    /\ area \in [Slots -> Area \cup {None}]
    /\ ofile \in [Procs -> SUBSET Files]
    /\ state \in [Procs -> {"UNUSED", "USED", "RUNNABLE", "ZOMBIE"}]
    /\ pc \in [Procs -> {"user", "populate", "uvmcopy", "mmapfork", "exit", "exec"}]
    /\ child \in [Procs -> Procs \cup {None}]
    /\ cur \in [Procs -> Area \cup {None}]
    /\ image \in [Procs -> [VA -> PTE \cup {None}]]
    /\ idx \in [Procs -> Nat]

\* No two forks build the same child.
Apart == \A p, q \in Procs : child[p] # None /\ p # q => child[q] # child[p]

\* ResidentCovered, WritableCovered and AreasOwned for one process.
Covers(p) ==
    \A va \in VA : pt[p][va] # None =>
       \/ \E i \in Owned(p) : va \in Span(area[i])
       \/ va < PageUp(sz[p])
       \/ va < MMAPBASE /\ state[p] = "USED"

Writes(p) ==
    state[p] = "RUNNABLE" =>
       \A va \in VA : pt[p][va] # None /\ pt[p][va].perm = "RW" /\ ~(va < PageUp(sz[p])) =>
          \E i \in Owned(p) : va \in Span(area[i]) /\ area[i].prot = "RW"

Owns(p) == \A i \in Owned(p) : state[p] \in {"USED", "RUNNABLE"}

\* SlotsSound for one process.
Sound(p) ==
    /\ pc[p] # "user" => state[p] = "RUNNABLE"
    /\ state[p] = "UNUSED" => pt[p] = NoMap /\ sz[p] = 0
    /\ state[p] # "RUNNABLE" => ofile[p] = {}
    /\ child[p] # None <=> pc[p] \in {"uvmcopy", "mmapfork"}
    /\ child[p] # None => state[child[p]] = "USED"
    /\ pc[p] = "populate" => \E i \in Owned(p) : area[i] = cur[p]

\* ForkCopies for one process.
CopiesHeap(p, c) ==
    pc[p] = "uvmcopy" =>
       /\ sz[c] = 0 /\ Owned(c) = {} /\ idx[p] <= PageUp(sz[p])
       /\ \A va \in VA : IF va < idx[p] THEN pt[c][va] # None <=> pt[p][va] # None
                                        ELSE pt[c][va] = None

Copied(p, va) == \E k \in Owned(p) : k < idx[p] /\ va \in Span(area[k])

CopiesAreas(p, c) ==
    pc[p] = "mmapfork" =>
       /\ sz[c] = sz[p]
       /\ \A va \in VA : IF va < PageUp(sz[p]) THEN pt[c][va] # None <=> pt[p][va] # None
                         ELSE pt[c][va] = IF Copied(p, va) THEN pt[p][va] ELSE None
       /\ \A k \in Owned(p) : k < idx[p] =>
             \E i \in Owned(c) : area[i] = [area[k] EXCEPT !.p = c]

CountsAreas(p, c) ==
    pc[p] = "mmapfork" =>
       \A f \in Files : Cardinality({i \in Owned(c) : area[i].f = f})
                         = Cardinality({k \in Owned(p) : k < idx[p] /\ area[k].f = f})

\* ImagesSound for one process, without its counts.
Images(p) ==
    /\ pc[p] = "exec" => idx[p] \in 1 .. PGSIZE * HeapPages
    /\ \A va \in VA : image[p][va] # None => pc[p] = "exec" /\ va < PageUp(idx[p])

Lay(p) ==
    /\ Covers(p) /\ Writes(p) /\ Owns(p) /\ Sound(p) /\ Images(p)
    /\ CopiesHeap(p, child[p]) /\ CopiesAreas(p, child[p]) /\ CountsAreas(p, child[p])

Layout == Shape /\ Apart /\ \A p \in Procs : Lay(p)

------------------------------------------------------------------------------
(* What a step leaves alone *)

\* The areas of q, and all that q is, are as before.
SameAreas(q) == Owned(q)' = Owned(q) /\ \A i \in Owned(q) : area'[i] = area[i]

SameMemory(q) == pt'[q] = pt[q] /\ sz'[q] = sz[q] /\ SameAreas(q)

SameCall(q) ==
    /\ state'[q] = state[q] /\ pc'[q] = pc[q] /\ child'[q] = child[q]
    /\ cur'[q] = cur[q] /\ image'[q] = image[q] /\ idx'[q] = idx[q]

\* Memory that no step touches.
LEMMA FrameMemory ==
  ASSUME NEW q, SameMemory(q), state'[q] = state[q], Covers(q), Writes(q), Owns(q)
  PROVE  Covers(q)' /\ Writes(q)' /\ Owns(q)'
<1>1. Covers(q)'
  BY Zenon DEF SameMemory, SameAreas, Covers
<1>2. Writes(q)'
  BY Zenon DEF SameMemory, SameAreas, Writes
<1>3. Owns(q)'
  BY Zenon DEF SameMemory, SameAreas, Owns
<1> QED
  BY <1>1, <1>2, <1>3

\* The memory of a process that no step touches, and its image.
LEMMA FrameCovers ==
  ASSUME NEW q \in Procs, SameMemory(q), SameCall(q), Covers(q), Writes(q), Owns(q), Images(q)
  PROVE  Covers(q)' /\ Writes(q)' /\ Owns(q)' /\ Images(q)'
<1>1. Covers(q)' /\ Writes(q)' /\ Owns(q)'
  BY FrameMemory, Zenon DEF SameCall
<1>2. Images(q)'
  BY Zenon DEF SameCall, Images
<1> QED
  BY <1>1, <1>2

\* A fork in progress whose process and child no step touches.
LEMMA FrameCopies ==
  ASSUME NEW q \in Procs, SameMemory(q), SameCall(q), NEW c, SameMemory(c),
         CopiesHeap(q, c), CopiesAreas(q, c), CountsAreas(q, c)
  PROVE  CopiesHeap(q, c)' /\ CopiesAreas(q, c)' /\ CountsAreas(q, c)'
<1>1. CopiesHeap(q, c)'
  BY Zenon DEF SameMemory, SameAreas, SameCall, CopiesHeap
<1>2. \A va : Copied(q, va)' <=> Copied(q, va)
  BY Zenon DEF SameMemory, SameAreas, SameCall, Copied
<1>3. ASSUME pc[q] = "mmapfork", CopiesAreas(q, c)
      PROVE  CopiesAreas(q, c)'
  <2>1. sz'[c] = sz'[q]
    BY <1>3, Zenon DEF SameMemory, CopiesAreas
  <2>2. \A va \in VA : IF va < PageUp(sz'[q]) THEN pt'[c][va] # None <=> pt'[q][va] # None
                       ELSE pt'[c][va] = IF Copied(q, va)' THEN pt'[q][va] ELSE None
    BY <1>2, <1>3, Zenon DEF SameMemory, CopiesAreas
  <2>3. \A k \in Owned(q)' : k < idx'[q] =>
             \E i \in Owned(c)' : area'[i] = [area'[k] EXCEPT !.p = c]
    <3> SUFFICES ASSUME NEW k \in Owned(q)', k < idx'[q]
                 PROVE  \E i \in Owned(c)' : area'[i] = [area'[k] EXCEPT !.p = c]
      OBVIOUS
    <3>1. k \in Owned(q) /\ k < idx[q] /\ area'[k] = area[k]
      BY Zenon DEF SameMemory, SameAreas, SameCall
    <3>2. PICK i \in Owned(c) : area[i] = [area[k] EXCEPT !.p = c]
      BY <1>3, <3>1, Zenon DEF CopiesAreas
    <3>3. i \in Owned(c)' /\ area'[i] = area[i]
      BY Zenon DEF SameMemory, SameAreas
    <3> QED
      BY <3>1, <3>2, <3>3
  <2> QED
    BY <2>1, <2>2, <2>3, Zenon DEF CopiesAreas
<1>4. CountsAreas(q, c)'
  <2>1. \A f : {i \in Owned(c)' : area'[i].f = f} = {i \in Owned(c) : area[i].f = f}
    BY Zenon DEF SameMemory, SameAreas
  <2>2. \A f : {k \in Owned(q)' : k < idx'[q] /\ area'[k].f = f}
               = {k \in Owned(q) : k < idx[q] /\ area[k].f = f}
    BY Zenon DEF SameMemory, SameAreas, SameCall
  <2> QED
    BY <2>1, <2>2, Zenon DEF CountsAreas, SameCall
<1> QED
  BY <1>1, <1>3, <1>4, Zenon DEF CopiesAreas, SameCall

\* The layout of a process stays when no step touches it or its child.
LEMMA Frame ==
  ASSUME Layout, NEW q \in Procs, SameMemory(q), SameCall(q),
         state'[q] # "RUNNABLE" => ofile'[q] = {},
         child[q] # None => SameMemory(child[q]) /\ state'[child[q]] = "USED"
  PROVE  Lay(q)'
<1>1. Lay(q)
  BY Zenon DEF Layout
<1>2. Covers(q)' /\ Writes(q)' /\ Owns(q)' /\ Images(q)'
  BY <1>1, FrameCovers, Zenon DEF Lay
<1>3. Sound(q)'
  BY <1>1, Zenon DEF Lay, Sound, SameMemory, SameAreas, SameCall
<1>4. CASE child[q] = None
  <2>1. pc'[q] \notin {"uvmcopy", "mmapfork"}
    BY <1>1, <1>4, Zenon DEF Lay, Sound, SameCall
  <2>2. CopiesHeap(q, child[q])' /\ CopiesAreas(q, child[q])' /\ CountsAreas(q, child[q])'
    BY <2>1, Zenon DEF CopiesHeap, CopiesAreas, CountsAreas
  <2> QED
    BY <1>2, <1>3, <2>2, Zenon DEF Lay
<1>5. CASE child[q] # None
  <2>1. PICK c : c = child[q]
    OBVIOUS
  <2>2. CopiesHeap(q, c) /\ CopiesAreas(q, c) /\ CountsAreas(q, c) /\ SameMemory(c)
    BY <1>1, <1>5, <2>1, Zenon DEF Lay
  <2>3. CopiesHeap(q, c)' /\ CopiesAreas(q, c)' /\ CountsAreas(q, c)'
    BY <2>2, FrameCopies, Zenon
  <2>4. child'[q] = c
    BY <2>1, Zenon DEF SameCall
  <2>5. CopiesHeap(q, child[q])' /\ CopiesAreas(q, child[q])' /\ CountsAreas(q, child[q])'
    BY <2>3, <2>4, Zenon DEF CopiesHeap, CopiesAreas, CountsAreas
  <2> QED
    BY <1>2, <1>3, <2>5, Zenon DEF Lay
<1> QED
  BY <1>4, <1>5

\* A step of the processes S leaves the layout of all others.
LEMMA OthersLay ==
  ASSUME Layout, NEW S,
         \A q \in Procs \ S : /\ SameMemory(q) /\ SameCall(q) /\ ofile'[q] = ofile[q]
                              /\ child[q] \notin S
  PROVE  \A q \in Procs \ S : Lay(q)'
<1> SUFFICES ASSUME NEW q \in Procs, q \notin S
             PROVE  Lay(q)'
  OBVIOUS
<1>1. SameMemory(q) /\ SameCall(q) /\ ofile'[q] = ofile[q] /\ child[q] \notin S
  BY Zenon
<1>2. Sound(q)
  BY Zenon DEF Layout, Lay
<1>3. state'[q] # "RUNNABLE" => ofile'[q] = {}
  BY <1>1, <1>2, Zenon DEF Sound, SameCall
<1>4. ASSUME child[q] # None
      PROVE  SameMemory(child[q]) /\ state'[child[q]] = "USED"
  <2>1. child[q] \in Procs \ S
    BY <1>1, <1>4, Zenon DEF Layout, Shape
  <2> QED
    BY <1>2, <1>4, <2>1, Zenon DEF Sound, SameCall
<1> QED
  BY <1>1, <1>3, <1>4, Frame, Zenon

\* Only a process that fork is building is a child.
LEMMA NotAChild ==
  ASSUME Layout, NEW p \in Procs, state[p] # "USED"
  PROVE  \A q \in Procs : child[q] # p
<1> SUFFICES ASSUME NEW q \in Procs, child[q] = p
             PROVE  FALSE
  OBVIOUS
<1> QED
  BY MmapAssumption, ZenonT(30) DEF Layout, Lay, Sound

\* A step of one process.
LEMMA OneLay ==
  ASSUME Layout, NEW p \in Procs, state[p] # "USED", Shape', child' = child,
         \A q \in Procs : q # p => SameMemory(q) /\ SameCall(q) /\ ofile'[q] = ofile[q],
         Lay(p)'
  PROVE  Layout'
<1>1. \A q \in Procs \ {p} : Lay(q)'
  <2>1. \A q \in Procs \ {p} : /\ SameMemory(q) /\ SameCall(q) /\ ofile'[q] = ofile[q]
                                /\ child[q] \notin {p}
    BY NotAChild, Zenon
  <2> QED
    BY <2>1, OthersLay, Zenon
<1>2. Apart'
  BY Zenon DEF Layout, Apart
<1> QED
  BY <1>1, <1>2, Zenon DEF Layout

\* The layout of a process that is not in fork.
LEMMA CalmLay ==
  ASSUME NEW p \in Procs, pc'[p] \notin {"uvmcopy", "mmapfork"},
         Covers(p)', Writes(p)', Owns(p)', Sound(p)', Images(p)'
  PROVE  Lay(p)'
BY Zenon DEF Lay, CopiesHeap, CopiesAreas, CountsAreas

\* What InUser says of a process with a sound layout.
LEMMA UserFacts ==
  ASSUME Layout, NEW p \in Procs, InUser(p)
  PROVE  /\ state[p] = "RUNNABLE" /\ pc[p] = "user" /\ child[p] = None /\ state[p] # "USED"
         /\ Covers(p) /\ Writes(p) /\ Owns(p) /\ Sound(p) /\ Images(p)
BY Zenon DEF Layout, Lay, Sound, InUser

------------------------------------------------------------------------------
(* Entering and removing entries of page tables and of mmaptable *)

\* mappages: one new entry.
LEMMA MapNewEntries ==
  ASSUME Shape, NEW p \in Procs, NEW va \in VA, NEW pa \in Pages, NEW perm \in Prot,
         MapNew(p, va, pa, perm)
  PROVE  /\ pt' \in [Procs -> [VA -> PTE \cup {None}]]
         /\ \A q \in Procs : q # p => pt'[q] = pt[q]
         /\ \A w \in VA : w # va => pt'[p][w] = pt[p][w]
         /\ pt'[p][va] # None /\ pt'[p][va].pa = pa /\ pt'[p][va].perm = perm
<1>1. PICK e : e = [pa |-> pa, perm |-> perm]
  BY Zenon
<1>2. e \in PTE /\ e.pa = pa /\ e.perm = perm
  BY <1>1, Zenon DEF PTE
<1>3. pt' = [pt EXCEPT ![p] = [pt[p] EXCEPT ![va] = e]]
  BY <1>1 DEF MapNew, Shape
<1>4. e # None
  BY <1>2, MmapAssumption, Zenon
<1>5. [pt[p] EXCEPT ![va] = e] \in [VA -> PTE \cup {None}]
  BY <1>2 DEF Shape
<1>6. pt'[p] = [pt[p] EXCEPT ![va] = e] /\ pt' \in [Procs -> [VA -> PTE \cup {None}]]
  BY <1>3, <1>5 DEF Shape
<1>7. \A q \in Procs : q # p => pt'[q] = pt[q]
  BY <1>3 DEF Shape
<1>8. pt'[p][va] = e /\ \A w \in VA : w # va => pt'[p][w] = pt[p][w]
  BY <1>6 DEF Shape
<1> QED
  BY <1>2, <1>4, <1>6, <1>7, <1>8, Zenon

\* uvmunmap: no entry in the range is left.
LEMMA UvmunmapEntries ==
  ASSUME Shape, NEW p \in Procs, NEW vs, Uvmunmap(p, vs)
  PROVE  /\ pt' \in [Procs -> [VA -> PTE \cup {None}]]
         /\ \A q \in Procs : q # p => pt'[q] = pt[q]
         /\ \A w \in VA : pt'[p][w] = IF w \in vs THEN None ELSE pt[p][w]
<1>1. Cleared(pt[p], vs) \in [VA -> PTE \cup {None}]
  BY DEF Cleared, Shape
<1>2. pt' = [pt EXCEPT ![p] = Cleared(pt[p], vs)]
  BY Zenon DEF Uvmunmap
<1>3. pt' \in [Procs -> [VA -> PTE \cup {None}]] /\ pt'[p] = Cleared(pt[p], vs)
  BY <1>1, <1>2 DEF Shape
<1>4. \A q \in Procs : q # p => pt'[q] = pt[q]
  BY <1>2 DEF Shape
<1>5. \A w \in VA : pt'[p][w] = IF w \in vs THEN None ELSE pt[p][w]
  BY <1>3, Zenon DEF Cleared
<1> QED
  BY <1>3, <1>4, <1>5, Zenon

\* mmap_insert: the first free slot gets the area.
LEMMA AreaAdded ==
  ASSUME Shape, Firsts, FreeSlots # {}, NEW a \in Area, NEW s, s = First(FreeSlots),
         area' = [area EXCEPT ![First(FreeSlots)] = a]
  PROVE  /\ area' \in [Slots -> Area \cup {None}]
         /\ s \in Slots /\ area[s] = None /\ area'[s] = a
         /\ \A i \in Slots : i # s => area'[i] = area[i]
         /\ Owned(a.p)' = Owned(a.p) \cup {s} /\ s \notin Owned(a.p)
         /\ \A q : q # a.p => SameAreas(q)
<1>1. s \in FreeSlots
  <2>1. FreeSlots \in SUBSET Nat
    BY SlotsNat, Zenon DEF FreeSlots
  <2> QED
    BY <2>1, Zenon DEF Firsts
<1>2. s \in Slots /\ area[s] = None
  BY <1>1, Zenon DEF FreeSlots
<1>3. area' \in [Slots -> Area \cup {None}] /\ area'[s] = a
  BY <1>2 DEF Shape
<1>4. \A i \in Slots : i # s => area'[i] = area[i]
  BY <1>2 DEF Shape
<1>5. a # None
  BY MmapAssumption, Zenon
<1>6. Owned(a.p)' = Owned(a.p) \cup {s} /\ s \notin Owned(a.p)
  BY <1>2, <1>3, <1>4, <1>5, Zenon DEF Owned
<1>7. ASSUME NEW q, q # a.p
      PROVE  SameAreas(q)
  BY <1>2, <1>3, <1>4, <1>7, Zenon DEF SameAreas, Owned
<1> QED
  BY <1>2, <1>3, <1>4, <1>6, <1>7, Zenon

\* mmap_take_start, mmap_take_any and mmapfreeproc: areas of one process go.
LEMMA AreasDropped ==
  ASSUME NEW p, NEW D, D \subseteq Owned(p),
         \A i \in Slots : area'[i] = IF i \in D THEN None ELSE area[i]
  PROVE  /\ Owned(p)' = Owned(p) \ D
         /\ \A i \in Owned(p)' : area'[i] = area[i]
         /\ \A q : q # p => SameAreas(q)
<1>1. Owned(p)' = Owned(p) \ D
  BY Zenon DEF Owned
<1>2. \A i \in Owned(p)' : area'[i] = area[i]
  BY Zenon DEF Owned
<1>3. ASSUME NEW q, q # p
      PROVE  SameAreas(q)
  BY <1>3, Zenon DEF SameAreas, Owned
<1> QED
  BY <1>1, <1>2, <1>3, Zenon

------------------------------------------------------------------------------
(* mmap, munmap and page faults keep the layout *)

\* A new area of p, and pages as before.
LEMMA AreaLay ==
  ASSUME Layout, NEW p \in Procs, state[p] \in {"USED", "RUNNABLE"}, NEW s, NEW a \in Area,
         pt'[p] = pt[p], sz'[p] = sz[p], state'[p] = state[p],
         Owned(p)' = Owned(p) \cup {s}, \A i \in Owned(p) : area'[i] = area[i], area'[s] = a
  PROVE  Covers(p)' /\ Writes(p)' /\ Owns(p)'
<1>1. Covers(p) /\ Writes(p) /\ Owns(p)
  BY Zenon DEF Layout, Lay
<1>2. Covers(p)'
  BY <1>1, Zenon DEF Covers
<1>3. Writes(p)'
  BY <1>1, Zenon DEF Writes
<1>4. Owns(p)'
  BY <1>1, Zenon DEF Owns
<1> QED
  BY <1>2, <1>3, <1>4

\* kmmap.
LEMMA KmmapLayout ==
  ASSUME Layout, Firsts, NEW p \in Procs, NEW a \in Area, NEW populate \in BOOLEAN,
         Kmmap(p, a, populate)
  PROVE  Layout'
<1> PICK s : s = First(FreeSlots)
  OBVIOUS
<1> DEFINE calls == /\ pc' = IF populate THEN [pc EXCEPT ![p] = "populate"] ELSE pc
                    /\ cur' = IF populate THEN [cur EXCEPT ![p] = a] ELSE cur
                    /\ idx' = IF populate THEN [idx EXCEPT ![p] = a.addr] ELSE idx
<1>a. /\ InUser(p) /\ a.p = p /\ FreeSlots # {}
      /\ area' = [area EXCEPT ![First(FreeSlots)] = a]
      /\ pt' = pt /\ sz' = sz /\ ofile' = ofile /\ state' = state /\ child' = child
      /\ image' = image
  BY Zenon DEF Kmmap
<1>b. calls
  BY Zenon DEF Kmmap
<1>s. Shape
  BY Zenon DEF Layout
<1>1. /\ state[p] = "RUNNABLE" /\ pc[p] = "user" /\ child[p] = None /\ state[p] # "USED"
      /\ Sound(p) /\ Images(p)
  BY <1>a, UserFacts, Zenon
<1>2. /\ area' \in [Slots -> Area \cup {None}]
      /\ s \in Slots /\ area[s] = None /\ area'[s] = a
      /\ \A i \in Slots : i # s => area'[i] = area[i]
      /\ Owned(p)' = Owned(p) \cup {s} /\ s \notin Owned(p)
      /\ \A q : q # p => SameAreas(q)
  BY <1>a, <1>s, AreaAdded, Zenon
<1>3. \A i \in Owned(p) : area'[i] = area[i]
  BY <1>2, Zenon DEF Owned
<1>4. Covers(p)' /\ Writes(p)' /\ Owns(p)'
  BY <1>a, <1>1, <1>2, <1>3, AreaLay, Zenon
<1>5. a.addr \in Nat
  BY MmapAssumption DEF Area, MAXVA, TRAPFRAME
<1>6. Shape'
  BY <1>a, <1>b, <1>2, <1>5, <1>s DEF Shape
<1>7. \A q \in Procs : q # p => SameMemory(q) /\ SameCall(q) /\ ofile'[q] = ofile[q]
  BY <1>a, <1>b, <1>2, <1>s DEF SameMemory, SameCall, Shape
<1>8. /\ pc'[p] = IF populate THEN "populate" ELSE "user"
      /\ populate => cur'[p] = a
  BY <1>b, <1>1, <1>s DEF Shape
<1>9. Sound(p)'
  BY <1>a, <1>1, <1>2, <1>8, Zenon DEF Sound
<1>10. Images(p)'
  BY <1>a, <1>1, <1>8, Zenon DEF Images
<1>11. Lay(p)'
  <2>1. pc'[p] \notin {"uvmcopy", "mmapfork"}
    BY <1>8, Zenon
  <2> QED
    BY <1>4, <1>9, <1>10, <2>1, CalmLay, Zenon
<1> QED
  BY <1>a, <1>1, <1>6, <1>7, <1>11, OneLay, Zenon

\* vmfault, mmap_map_page: p gets a page where it may have one.
LEMMA MapLay ==
  ASSUME Layout, NEW p \in Procs, state[p] = "RUNNABLE",
         pc[p] \notin {"uvmcopy", "mmapfork", "exec"},
         NEW va \in VA, NEW pa \in Pages, NEW perm \in Prot, MapNew(p, va, pa, perm),
         \/ va < PageUp(sz[p])
         \/ \E i \in Owned(p) : va \in Span(area[i]) /\ (perm = "RW" => area[i].prot = "RW"),
         UNCHANGED <<sz, area, ofile, state, pc, child, cur, image>>,
         idx' \in [Procs -> Nat], \A q \in Procs : q # p => idx'[q] = idx[q]
  PROVE  Layout'
<1>s. Shape /\ Covers(p) /\ Writes(p) /\ Owns(p) /\ Sound(p) /\ Images(p)
  BY Zenon DEF Layout, Lay
<1>1. /\ pt' \in [Procs -> [VA -> PTE \cup {None}]]
      /\ \A q \in Procs : q # p => pt'[q] = pt[q]
      /\ \A w \in VA : w # va => pt'[p][w] = pt[p][w]
      /\ pt'[p][va] # None /\ pt'[p][va].pa = pa /\ pt'[p][va].perm = perm
  BY <1>s, MapNewEntries
<1>2. Shape'
  BY <1>s, <1>1, Zenon DEF Shape
<1>3. \A q : SameAreas(q)
  BY Zenon DEF SameAreas, Owned
<1>4. \A q \in Procs : q # p => SameMemory(q) /\ SameCall(q) /\ ofile'[q] = ofile[q]
  BY <1>1, <1>3, Zenon DEF SameMemory, SameCall
<1>6. Covers(p)'
  <2> SUFFICES ASSUME NEW w \in VA, pt'[p][w] # None
               PROVE  \/ \E i \in Owned(p)' : w \in Span(area'[i])
                      \/ w < PageUp(sz'[p])
                      \/ w < MMAPBASE /\ state'[p] = "USED"
    BY Zenon DEF Covers
  <2>1. CASE w = va
    BY <1>3, <2>1, Zenon DEF SameAreas
  <2>2. CASE w # va
    BY <1>1, <1>3, <1>s, <2>2, Zenon DEF SameAreas, Covers
  <2> QED
    BY <2>1, <2>2
<1>7. Writes(p)'
  <2> SUFFICES ASSUME NEW w \in VA, pt'[p][w] # None, pt'[p][w].perm = "RW",
                      ~(w < PageUp(sz'[p]))
               PROVE  \E i \in Owned(p)' : w \in Span(area'[i]) /\ area'[i].prot = "RW"
    BY Zenon DEF Writes
  <2>1. CASE w = va
    BY <1>1, <1>3, <2>1, Zenon DEF SameAreas
  <2>2. CASE w # va
    BY <1>1, <1>3, <1>s, <2>2, Zenon DEF SameAreas, Writes
  <2> QED
    BY <2>1, <2>2
<1>8. Owns(p)' /\ Sound(p)'
  BY <1>3, <1>s, Zenon DEF Owns, Sound, SameAreas
<1>9. Images(p)'
  BY <1>s, Zenon DEF Images
<1>10. Lay(p)'
  BY <1>6, <1>7, <1>8, <1>9, CalmLay, Zenon
<1> QED
  BY <1>2, <1>4, <1>10, OneLay, Zenon

\* MAP_POPULATE.
LEMMA PopulatePageLayout ==
  ASSUME Layout, NEW p \in Procs, NEW pa \in Pages, PopulatePage(p, pa)
  PROVE  Layout'
<1>s. Shape /\ Sound(p)
  BY Zenon DEF Layout, Lay
<1>1. PICK i \in Owned(p) : area[i] = cur[p]
  BY <1>s, Zenon DEF Sound, PopulatePage
<1>2. area[i] \in Area
  BY <1>1, <1>s, Zenon DEF Owned, Shape
<1>3. idx[p] \in VA /\ idx[p] \in Span(area[i])
  BY <1>1, Zenon DEF PopulatePage
<1>4. cur[p].prot \in Prot
  BY <1>1, <1>2 DEF Area
<1>5. PICK va \in VA, perm \in Prot : va = idx[p] /\ perm = cur[p].prot
  BY <1>3, <1>4
<1>6. /\ MapNew(p, va, pa, perm) /\ pc[p] = "populate"
      /\ UNCHANGED <<sz, area, ofile, state, pc, child, cur, image>>
      /\ idx' = [idx EXCEPT ![p] = @ + 1]
  BY <1>5, Zenon DEF PopulatePage
<1>7. idx' \in [Procs -> Nat] /\ \A q \in Procs : q # p => idx'[q] = idx[q]
  BY <1>6, <1>s DEF Shape
<1>9. state[p] = "RUNNABLE"
  BY <1>6, <1>s, Zenon DEF Sound
<1>10. \E j \in Owned(p) : va \in Span(area[j]) /\ (perm = "RW" => area[j].prot = "RW")
  BY <1>1, <1>3, <1>5, Zenon
<1>11. pc[p] \notin {"uvmcopy", "mmapfork", "exec"}
  BY <1>6, Zenon
<1> QED
  BY <1>6, <1>7, <1>9, <1>10, <1>11, MapLay, Zenon

\* vmfault in a mapping.
LEMMA FaultMmapLayout ==
  ASSUME Layout, Firsts, NEW p \in Procs, NEW va \in VA, NEW pa \in Pages, NEW read \in BOOLEAN,
         FaultMmap(p, va, pa, read)
  PROVE  Layout'
<1>s. Shape /\ InUser(p)
  BY Zenon DEF Layout, FaultMmap
<1>u. state[p] = "RUNNABLE" /\ pc[p] = "user"
  BY <1>s, Zenon DEF InUser
<1>1. PICK i : i = First(Covering(p, va))
  OBVIOUS
<1>2. i \in Owned(p) /\ va \in Span(area[i])
  <2>1. Covering(p, va) \in SUBSET Nat /\ Covering(p, va) # {}
    BY SlotsNat, Zenon DEF Covering, Owned, FaultMmap
  <2> QED
    BY <1>1, <2>1, Zenon DEF Firsts, Covering
<1>3. area[i] \in Area
  BY <1>2, <1>s, Zenon DEF Owned, Shape
<1>4. PICK perm \in Prot : perm = area[i].prot
  BY <1>3 DEF Area
<1>6. /\ MapNew(p, va, pa, perm)
      /\ UNCHANGED <<sz, area, ofile, state, pc, child, cur, image, idx>>
  BY <1>1, <1>4, Zenon DEF FaultMmap
<1>7. idx' \in [Procs -> Nat] /\ \A q \in Procs : q # p => idx'[q] = idx[q]
  BY <1>6, <1>s, Zenon DEF Shape
<1>8. pc[p] \notin {"uvmcopy", "mmapfork", "exec"}
  BY <1>u, Zenon
<1>9. \E j \in Owned(p) : va \in Span(area[j]) /\ (perm = "RW" => area[j].prot = "RW")
  BY <1>2, <1>4, Zenon
<1> QED
  BY <1>6, <1>7, <1>8, <1>9, <1>u, MapLay, Zenon

\* vmfault in the heap.
LEMMA FaultHeapLayout ==
  ASSUME Layout, NEW p \in Procs, NEW va \in VA, NEW pa \in Pages, FaultHeap(p, va, pa)
  PROVE  Layout'
<1>s. Shape /\ InUser(p)
  BY Zenon DEF Layout, FaultHeap
<1>u. state[p] = "RUNNABLE" /\ pc[p] = "user"
  BY <1>s, Zenon DEF InUser
<1>2. va < PageUp(sz[p])
  <2>1. sz[p] \in Nat /\ va \in Nat
    BY <1>s, MmapAssumption, Addresses DEF Shape, PGSIZE
  <2> QED
    BY <2>1, PageUpFacts, Zenon DEF FaultHeap
<1>3. /\ MapNew(p, va, pa, "RW") /\ "RW" \in Prot
      /\ UNCHANGED <<sz, area, ofile, state, pc, child, cur, image, idx>>
  BY Zenon DEF FaultHeap, Prot
<1>4. idx' \in [Procs -> Nat] /\ \A q \in Procs : q # p => idx'[q] = idx[q]
  BY <1>3, <1>s, Zenon DEF Shape
<1>5. pc[p] \notin {"uvmcopy", "mmapfork", "exec"}
  BY <1>u, Zenon
<1> QED
  BY <1>2, <1>3, <1>4, <1>5, <1>u, MapLay, Zenon

\* kmmap returns.
LEMMA PopulateEndLayout ==
  ASSUME Layout, NEW p \in Procs, PopulateEnd(p)
  PROVE  Layout'
<1>s. Shape /\ Covers(p) /\ Writes(p) /\ Owns(p) /\ Sound(p) /\ Images(p)
  BY Zenon DEF Layout, Lay
<1>1. Shape'
  BY <1>s DEF Shape, PopulateEnd
<1>2. /\ pc[p] = "populate" /\ pc'[p] = "user"
      /\ \A q \in Procs : q # p => SameCall(q)
      /\ UNCHANGED <<pt, sz, area, ofile, state, child, image>>
  BY <1>s DEF Shape, PopulateEnd, SameCall
<1>3. \A q : SameMemory(q)
  BY <1>2, Zenon DEF SameMemory, SameAreas, Owned
<1>4. Covers(p)' /\ Writes(p)' /\ Owns(p)'
  BY <1>s, <1>2, <1>3, Zenon DEF Covers, Writes, Owns, SameMemory, SameAreas
<1>5. Sound(p)' /\ Images(p)'
  BY <1>s, <1>2, <1>3, Zenon DEF Sound, Images, SameMemory, SameAreas
<1>6. Lay(p)'
  BY <1>2, <1>4, <1>5, CalmLay, Zenon
<1> QED
  BY <1>s, <1>1, <1>2, <1>3, <1>6, OneLay, Zenon DEF Sound

\* munmap and mmapfreeproc take an area and its pages.
LEMMA TakeLay ==
  ASSUME Layout, NEW p \in Procs, state[p] = "RUNNABLE",
         pc[p] \notin {"populate", "uvmcopy", "mmapfork"},
         NEW i \in Owned(p), TakeArea(p, i),
         UNCHANGED <<sz, ofile, state, pc, child, cur, image, idx>>
  PROVE  Layout'
<1>s. Shape /\ Covers(p) /\ Writes(p) /\ Owns(p) /\ Sound(p) /\ Images(p)
  BY Zenon DEF Layout, Lay
<1>1. /\ pt' \in [Procs -> [VA -> PTE \cup {None}]]
      /\ \A q \in Procs : q # p => pt'[q] = pt[q]
      /\ \A w \in VA : pt'[p][w] = IF w \in Span(area[i]) THEN None ELSE pt[p][w]
  BY <1>s, UvmunmapEntries, Zenon DEF TakeArea
<1>2. /\ area' \in [Slots -> Area \cup {None}]
      /\ \A j \in Slots : area'[j] = IF j \in {i} THEN None ELSE area[j]
  BY <1>s, Zenon DEF Shape, TakeArea
<1>3. /\ Owned(p)' = Owned(p) \ {i}
      /\ \A j \in Owned(p)' : area'[j] = area[j]
      /\ \A q : q # p => SameAreas(q)
  BY <1>2, AreasDropped, Zenon
<1>4. Shape'
  BY <1>s, <1>1, <1>2, Zenon DEF Shape
<1>5. \A q \in Procs : q # p => SameMemory(q) /\ SameCall(q) /\ ofile'[q] = ofile[q]
  BY <1>1, <1>3, Zenon DEF SameMemory, SameCall
<1>6. \A w \in VA, j \in Owned(p) : pt'[p][w] # None /\ w \in Span(area[j]) =>
             pt'[p][w] = pt[p][w] /\ j \in Owned(p)' /\ area'[j] = area[j]
  BY <1>1, <1>3, Zenon
<1>7. Covers(p)'
  <2> SUFFICES ASSUME NEW w \in VA, pt'[p][w] # None
               PROVE  \/ \E j \in Owned(p)' : w \in Span(area'[j])
                      \/ w < PageUp(sz'[p])
                      \/ w < MMAPBASE /\ state'[p] = "USED"
    BY Zenon DEF Covers
  <2>1. pt[p][w] # None
    BY <1>1, Zenon
  <2> QED
    BY <1>6, <1>s, <2>1, Zenon DEF Covers
<1>8. Writes(p)'
  <2> SUFFICES ASSUME NEW w \in VA, pt'[p][w] # None, pt'[p][w].perm = "RW",
                      ~(w < PageUp(sz'[p]))
               PROVE  \E j \in Owned(p)' : w \in Span(area'[j]) /\ area'[j].prot = "RW"
    BY Zenon DEF Writes
  <2>1. pt[p][w] = pt'[p][w]
    BY <1>1, Zenon
  <2>2. PICK j \in Owned(p) : w \in Span(area[j]) /\ area[j].prot = "RW"
    BY <1>s, <2>1, Zenon DEF Writes
  <2> QED
    BY <1>6, <2>2, Zenon
<1>9. Owns(p)' /\ Sound(p)'
  BY <1>3, <1>s, Zenon DEF Owns, Sound
<1>10. Images(p)'
  BY <1>s, Zenon DEF Images
<1>11. Lay(p)'
  BY <1>7, <1>8, <1>9, <1>10, CalmLay, Zenon
<1> QED
  BY <1>4, <1>5, <1>11, OneLay, Zenon

\* kmunmap.
LEMMA KmunmapLayout ==
  ASSUME Layout, Firsts, NEW p \in Procs, NEW addr, Kmunmap(p, addr)
  PROVE  Layout'
<1>1. PICK S : S = Starts(p, addr)
  OBVIOUS
<1>2. S # {} /\ TakeArea(p, First(S)) /\ InUser(p)
      /\ UNCHANGED <<sz, ofile, state, pc, child, cur, image, idx>>
  BY <1>1, Zenon DEF Kmunmap
<1>3. First(S) \in Owned(p)
  <2>1. S \in SUBSET Nat /\ S \subseteq Owned(p)
    BY <1>1, SlotsNat, Zenon DEF Owned, Starts
  <2> QED
    BY <1>2, <2>1, Zenon DEF Firsts
<1>4. state[p] = "RUNNABLE" /\ pc[p] \notin {"populate", "uvmcopy", "mmapfork"}
  BY <1>2, Zenon DEF InUser
<1> QED
  BY <1>2, <1>3, <1>4, TakeLay, Zenon

\* One mmap_take_any of mmapfreeproc.
LEMMA MmapfreeAreaLayout ==
  ASSUME Layout, Firsts, NEW p \in Procs, MmapfreeArea(p)
  PROVE  Layout'
<1>1. PICK i : i = First(Owned(p))
  OBVIOUS
<1>2. TakeArea(p, i) /\ UNCHANGED <<sz, ofile, state, pc, child, cur, image, idx>>
  BY <1>1, Zenon DEF MmapfreeArea
<1>3. i \in Owned(p)
  <2>1. Owned(p) \in SUBSET Nat /\ Owned(p) # {}
    BY SlotsNat, Zenon DEF Owned, MmapfreeArea
  <2> QED
    BY <1>1, <2>1, Zenon DEF Firsts
<1>4. state[p] = "RUNNABLE" /\ pc[p] \notin {"populate", "uvmcopy", "mmapfork"}
  <2>1. Sound(p) /\ pc[p] \in {"exit", "exec"}
    BY Zenon DEF Layout, Lay, MmapfreeArea
  <2> QED
    BY <2>1, Zenon DEF Sound
<1> QED
  BY <1>2, <1>3, <1>4, TakeLay, Zenon

------------------------------------------------------------------------------
(* sbrk keeps the layout *)

\* A call that moves p->sz and heap pages only.
LEMMA HeapLay ==
  ASSUME Layout, NEW p \in Procs, InUser(p),
         pt' \in [Procs -> [VA -> PTE \cup {None}]], \A q \in Procs : q # p => pt'[q] = pt[q],
         NEW n \in 0 .. PGSIZE * HeapPages, sz' = [sz EXCEPT ![p] = n],
         \A w \in VA : pt'[p][w] # None =>
            w < PageUp(n) \/ (pt'[p][w] = pt[p][w] /\ ~(w < PageUp(sz[p]))),
         UNCHANGED <<area, ofile, state, pc, child, cur, image, idx>>
  PROVE  Layout'
<1>s. Shape
  BY Zenon DEF Layout
<1>u. /\ state[p] = "RUNNABLE" /\ pc[p] = "user" /\ child[p] = None /\ state[p] # "USED"
      /\ Covers(p) /\ Writes(p) /\ Owns(p) /\ Sound(p) /\ Images(p)
  BY UserFacts, Zenon
<1>1. Shape' /\ sz'[p] = n /\ \A q \in Procs : q # p => sz'[q] = sz[q]
  BY <1>s DEF Shape
<1>2. \A q : SameAreas(q)
  BY Zenon DEF SameAreas, Owned
<1>3. \A q \in Procs : q # p => SameMemory(q) /\ SameCall(q) /\ ofile'[q] = ofile[q]
  BY <1>1, <1>2, Zenon DEF SameMemory, SameCall
<1>4. Covers(p)'
  BY <1>1, <1>2, <1>u, Zenon DEF Covers, SameAreas
<1>5. Writes(p)'
  <2> SUFFICES ASSUME NEW w \in VA, pt'[p][w] # None, pt'[p][w].perm = "RW",
                      ~(w < PageUp(sz'[p]))
               PROVE  \E j \in Owned(p)' : w \in Span(area'[j]) /\ area'[j].prot = "RW"
    BY Zenon DEF Writes
  <2>1. pt[p][w] = pt'[p][w] /\ ~(w < PageUp(sz[p]))
    BY <1>1, Zenon
  <2> QED
    BY <1>2, <1>u, <2>1, Zenon DEF Writes, SameAreas
<1>6. Owns(p)' /\ Sound(p)'
  BY <1>2, <1>u, Zenon DEF Owns, Sound, SameAreas
<1>7. Images(p)'
  BY <1>u, Zenon DEF Images
<1>8. Lay(p)'
  <2>1. pc'[p] \notin {"uvmcopy", "mmapfork"}
    BY <1>u, Zenon
  <2> QED
    BY <1>4, <1>5, <1>6, <1>7, <2>1, CalmLay, Zenon
<1> QED
  BY <1>1, <1>3, <1>8, <1>u, OneLay, Zenon

\* The size of a process.
LEMMA Sizes ==
  ASSUME Layout, NEW p \in Procs
  PROVE  sz[p] \in Nat /\ sz[p] <= PGSIZE * HeapPages
BY MmapAssumption DEF Layout, Shape, PGSIZE

\* sys_sbrk, lazy.
LEMMA SbrkLazyLayout ==
  ASSUME Layout, NEW p \in Procs, NEW n \in 1 .. PGSIZE * HeapPages, SbrkLazy(p, n)
  PROVE  Layout'
<1>1. /\ InUser(p) /\ pt' = pt /\ sz' = [sz EXCEPT ![p] = sz[p] + n]
      /\ sz[p] + n <= PGSIZE * HeapPages
      /\ UNCHANGED <<area, ofile, state, pc, child, cur, image, idx>>
  BY DEF SbrkLazy, MMAPBASE
<1>2. sz[p] \in Nat
  BY Sizes, Zenon
<1>3. PICK m : m = sz[p] + n
  OBVIOUS
<1>4. m \in Nat /\ m \in 0 .. PGSIZE * HeapPages /\ sz[p] <= m
  BY <1>1, <1>2, <1>3, MmapAssumption DEF PGSIZE
<1>5. PageUp(sz[p]) <= PageUp(m) /\ PageUp(sz[p]) \in Nat /\ PageUp(m) \in Nat
  BY <1>2, <1>4, PageUpMonotone, PageUpFacts, Zenon
<1>6. \A w \in VA : w < PageUp(sz[p]) => w < PageUp(m)
  BY <1>5, Addresses
<1>7. \A w \in VA : pt'[p][w] # None =>
         w < PageUp(m) \/ (pt'[p][w] = pt[p][w] /\ ~(w < PageUp(sz[p])))
  BY <1>1, <1>6, Zenon
<1>8. pt' \in [Procs -> [VA -> PTE \cup {None}]] /\ \A q \in Procs : q # p => pt'[q] = pt[q]
  BY <1>1, Zenon DEF Layout, Shape
<1> QED
  BY <1>1, <1>3, <1>4, <1>7, <1>8, HeapLay, Zenon

\* uvmalloc: new entries at vs.
LEMMA UvmallocEntries ==
  ASSUME Shape, NEW p \in Procs, NEW vs, NEW m \in Fill(vs), Uvmalloc(p, vs, m)
  PROVE  /\ pt' \in [Procs -> [VA -> PTE \cup {None}]]
         /\ \A q \in Procs : q # p => pt'[q] = pt[q]
         /\ \A w \in VA : IF w \in vs THEN pt'[p][w] # None /\ pt'[p][w].pa = m[w]
                          ELSE pt'[p][w] = pt[p][w]
<1>1. PICK r : r = [va \in VA |-> IF va \in vs THEN [pa |-> m[va], perm |-> "RW"] ELSE pt[p][va]]
  BY Zenon
<1>2. pt' = [pt EXCEPT ![p] = r]
  BY <1>1 DEF Uvmalloc, Shape
<1>3. \A w \in vs : m[w] \in Pages
  BY Zenon DEF Fill, FreePages
<1>4. \A w \in VA : IF w \in vs THEN r[w] \in PTE /\ r[w].pa = m[w] ELSE r[w] = pt[p][w]
  <2> TAKE w \in VA
  <2>1. CASE w \in vs
    <3>1. r[w] = [pa |-> m[w], perm |-> "RW"]
      BY <1>1, <2>1
    <3> QED
      BY <1>3, <2>1, <3>1 DEF PTE, Prot
  <2>2. CASE w \notin vs
    BY <1>1, <2>2
  <2> QED
    BY <2>1, <2>2
<1>5. r \in [VA -> PTE \cup {None}]
  <2>1. \A w \in VA : r[w] \in PTE \cup {None}
    BY <1>4 DEF Shape
  <2> QED
    BY <1>1, <2>1
<1>6. \A w \in VA : IF w \in vs THEN r[w] # None /\ r[w].pa = m[w] ELSE r[w] = pt[p][w]
  BY <1>4, MmapAssumption, Zenon
<1>7. pt' \in [Procs -> [VA -> PTE \cup {None}]] /\ pt'[p] = r
  BY <1>2, <1>5 DEF Shape
<1>8. \A q \in Procs : q # p => pt'[q] = pt[q]
  BY <1>2 DEF Shape
<1> QED
  BY <1>6, <1>7, <1>8, Zenon

\* growproc, up.
LEMMA GrowLayout ==
  ASSUME Layout, NEW p \in Procs, NEW n \in 1 .. PGSIZE * HeapPages, Grow(p, n)
  PROVE  Layout'
<1>0. PICK vs : vs = NewPages(sz[p], sz[p] + n)
  OBVIOUS
<1>1. /\ InUser(p) /\ sz' = [sz EXCEPT ![p] = sz[p] + n]
      /\ sz[p] + n <= PGSIZE * HeapPages
      /\ UNCHANGED <<area, ofile, state, pc, child, cur, image, idx>>
      /\ \E m \in Fill(vs) : Uvmalloc(p, vs, m)
  BY <1>0 DEF Grow, MMAPBASE
<1>2. sz[p] \in Nat
  BY Sizes, Zenon
<1>3. PICK t : t = sz[p] + n
  OBVIOUS
<1>4. t \in Nat /\ t \in 0 .. PGSIZE * HeapPages /\ sz[p] <= t /\ t <= PGSIZE * HeapPages
  BY <1>1, <1>2, <1>3, MmapAssumption DEF PGSIZE
<1>5. /\ PageUp(sz[p]) <= PageUp(t) /\ PageUp(sz[p]) \in Nat /\ PageUp(t) \in Nat
      /\ PageUp(t) <= HeapPages
  BY <1>2, <1>4, PageUpMonotone, PageUpFacts, Zenon
<1>6. \A w \in VA : /\ w < PageUp(sz[p]) => w < PageUp(t)
                    /\ w \in vs => w < PageUp(t)
  BY <1>0, <1>3, <1>5, Addresses DEF NewPages
<1>7. /\ pt' \in [Procs -> [VA -> PTE \cup {None}]]
      /\ \A q \in Procs : q # p => pt'[q] = pt[q]
      /\ \A w \in VA : w \in vs \/ pt'[p][w] = pt[p][w]
  BY <1>1, UvmallocEntries, Zenon DEF Layout
<1>8. \A w \in VA : pt'[p][w] # None =>
         w < PageUp(t) \/ (pt'[p][w] = pt[p][w] /\ ~(w < PageUp(sz[p])))
  BY <1>6, <1>7, Zenon
<1> QED
  BY <1>1, <1>3, <1>4, <1>7, <1>8, HeapLay, Zenon

\* growproc, down.
LEMMA ShrinkLayout ==
  ASSUME Layout, NEW p \in Procs, NEW n \in 1 .. PGSIZE * HeapPages, Shrink(p, n)
  PROVE  Layout'
<1>0. PICK t, vs : t = sz[p] - n /\ vs = NewPages(sz[p] - n, sz[p])
  OBVIOUS
<1>1. /\ InUser(p) /\ sz' = [sz EXCEPT ![p] = t] /\ n <= sz[p]
      /\ UNCHANGED <<area, ofile, state, pc, child, cur, image, idx>>
      /\ Uvmunmap(p, vs)
  BY <1>0 DEF Shrink
<1>2. sz[p] \in Nat /\ sz[p] <= PGSIZE * HeapPages
  BY Sizes, Zenon
<1>3. t \in Nat /\ t \in 0 .. PGSIZE * HeapPages
  BY <1>0, <1>1, <1>2, MmapAssumption DEF PGSIZE
<1>4. PageUp(sz[p]) \in Nat /\ PageUp(t) \in Nat
  BY <1>2, <1>3, PageUpFacts, Zenon
<1>5. \A w \in VA : w < PageUp(sz[p]) => w \in vs \/ w < PageUp(t)
  BY <1>0, <1>4, Addresses DEF NewPages
<1>6. /\ pt' \in [Procs -> [VA -> PTE \cup {None}]]
      /\ \A q \in Procs : q # p => pt'[q] = pt[q]
      /\ \A w \in VA : pt'[p][w] = IF w \in vs THEN None ELSE pt[p][w]
  BY <1>1, UvmunmapEntries, Zenon DEF Layout
<1>7. \A w \in VA : pt'[p][w] # None =>
         w < PageUp(t) \/ (pt'[p][w] = pt[p][w] /\ ~(w < PageUp(sz[p])))
  BY <1>5, <1>6, Zenon
<1> QED
  BY <1>1, <1>3, <1>6, <1>7, HeapLay, Zenon

------------------------------------------------------------------------------
(* fork keeps the layout *)

\* A step of a process and its child.
LEMMA TwoLay ==
  ASSUME Layout, NEW p \in Procs, NEW c \in Procs, Shape', Apart', Lay(p)', Lay(c)',
         \A q \in Procs : q # p /\ q # c => /\ SameMemory(q) /\ SameCall(q) /\ ofile'[q] = ofile[q]
                                           /\ child[q] # p /\ child[q] # c
  PROVE  Layout'
<1>1. \A q \in Procs \ {p, c} : /\ SameMemory(q) /\ SameCall(q) /\ ofile'[q] = ofile[q]
                                /\ child[q] \notin {p, c}
  BY Zenon
<1>2. \A q \in Procs \ {p, c} : Lay(q)'
  BY <1>1, OthersLay, Zenon
<1> QED
  BY <1>2, Zenon DEF Layout

\* What fork knows of the process and its child while it copies.
InFork(p, c) ==
    /\ state[p] = "RUNNABLE" /\ c \in Procs /\ c # p
    /\ state[c] = "USED" /\ pc[c] = "user" /\ child[c] = None /\ ofile[c] = {}
    /\ \A q \in Procs : q # p => child[q] # p /\ child[q] # c
    /\ Covers(p) /\ Writes(p) /\ Owns(p) /\ Sound(p) /\ Images(p)
    /\ Covers(c) /\ Owns(c) /\ Sound(c) /\ Images(c)
    /\ CopiesHeap(p, c) /\ CopiesAreas(p, c)

\* A process in fork, and its child, are in such a state.
LEMMA ForkFacts ==
  ASSUME Layout, NEW p \in Procs, pc[p] \in {"uvmcopy", "mmapfork"}, NEW c, c = child[p]
  PROVE  InFork(p, c)
<1>1. /\ Covers(p) /\ Writes(p) /\ Owns(p) /\ Sound(p) /\ Images(p)
      /\ CopiesHeap(p, c) /\ CopiesAreas(p, c)
  BY Zenon DEF Layout, Lay
<1>2. /\ pc[p] # "user" /\ child[p] # None
  BY <1>1, Zenon DEF Sound
<1>3. c \in Procs /\ state[p] = "RUNNABLE" /\ state[c] = "USED"
  BY <1>1, <1>2, Zenon DEF Sound, Layout, Shape
<1>4. Covers(c) /\ Owns(c) /\ Sound(c) /\ Images(c)
  BY <1>3, Zenon DEF Layout, Lay
<1>5. pc[c] = "user" /\ ofile[c] = {} /\ child[c] = None
  BY <1>3, <1>4, Zenon DEF Sound
<1>6. \A q \in Procs : child[q] # p
  BY <1>3, NotAChild, Zenon
<1>7. \A q \in Procs : q # p => child[q] # c
  BY <1>2, Zenon DEF Layout, Apart
<1> QED
  BY <1>1, <1>3, <1>4, <1>5, <1>6, <1>7, Zenon DEF InFork

\* Processes without areas, pages and calls have a sound layout.
LEMMA EmptyLay ==
  ASSUME NEW c \in Procs, state'[c] \in {"UNUSED", "USED"}, pc'[c] = "user", child'[c] = None,
         pt'[c] = NoMap, sz'[c] = 0, Owned(c)' = {}, ofile'[c] = {}, image'[c] = NoMap
  PROVE  Lay(c)'
<1>1. \A va \in VA : pt'[c][va] = None /\ image'[c][va] = None
  BY NoMapFacts, Zenon
<1>2. Covers(c)' /\ Writes(c)'
  BY <1>1, Zenon DEF Covers, Writes
<1>3. Owns(c)' /\ Sound(c)'
  BY Zenon DEF Owns, Sound
<1>4. Images(c)'
  BY <1>1, Zenon DEF Images
<1>5. pc'[c] \notin {"uvmcopy", "mmapfork"}
  BY Zenon
<1> QED
  BY <1>2, <1>3, <1>4, <1>5, CalmLay, Zenon

\* A page table without entries is empty.
LEMMA IsNoMap ==
  ASSUME NEW m \in [VA -> PTE \cup {None}], \A va \in VA : m[va] = None
  PROVE  m = NoMap
BY DEF NoMap

\* A process that does not run has no areas when it is not in fork, and no image.
LEMMA IdleFacts ==
  ASSUME Layout, NEW c \in Procs, state[c] \in {"UNUSED", "USED", "ZOMBIE"}
  PROVE  /\ pc[c] = "user" /\ child[c] = None /\ ofile[c] = {} /\ image[c] = NoMap
         /\ state[c] # "USED" => Owned(c) = {}
<1>1. Sound(c) /\ Owns(c) /\ Images(c) /\ Shape
  BY Zenon DEF Layout, Lay
<1>2. pc[c] = "user" /\ child[c] = None /\ ofile[c] = {}
  BY <1>1, Zenon DEF Sound
<1>3. \A va \in VA : image[c][va] = None
  BY <1>1, <1>2, Zenon DEF Images
<1>4. image[c] = NoMap
  BY <1>1, <1>3, IsNoMap, Zenon DEF Shape
<1>5. state[c] # "USED" => Owned(c) = {}
  BY <1>1, Zenon DEF Owns
<1> QED
  BY <1>2, <1>4, <1>5

\* allocproc.
LEMMA ForkStartLayout ==
  ASSUME Layout, NEW p \in Procs, NEW c \in Procs, ForkStart(p, c)
  PROVE  Layout'
<1>s. Shape /\ InUser(p) /\ state[c] = "UNUSED"
  BY Zenon DEF Layout, ForkStart
<1>u. /\ state[p] = "RUNNABLE" /\ pc[p] = "user" /\ child[p] = None /\ state[p] # "USED"
      /\ Covers(p) /\ Writes(p) /\ Owns(p) /\ Sound(p) /\ Images(p)
  BY <1>s, UserFacts, Zenon
<1>1. /\ Shape' /\ p # c
      /\ state'[c] = "USED" /\ state'[p] = "RUNNABLE"
      /\ child'[p] = c /\ child'[c] = child[c] /\ pc'[p] = "uvmcopy" /\ pc'[c] = pc[c]
      /\ idx'[p] = 0
  BY <1>s, <1>u DEF Shape, ForkStart
<1>2. \A q \in Procs : q # p /\ q # c => SameCall(q)
  BY <1>s DEF Shape, ForkStart, SameCall
<1>3. \A q : SameMemory(q) /\ ofile' = ofile /\ image' = image
  BY Zenon DEF ForkStart, SameMemory, SameAreas, Owned
<1>4. /\ pc[c] = "user" /\ child[c] = None /\ ofile[c] = {} /\ image[c] = NoMap
      /\ Owned(c) = {} /\ pt[c] = NoMap /\ sz[c] = 0
  <2>1. Sound(c)
    BY Zenon DEF Layout, Lay
  <2> QED
    BY <1>s, <2>1, IdleFacts, Zenon DEF Sound
<1>5. Lay(c)'
  BY <1>1, <1>3, <1>4, EmptyLay, Zenon DEF SameMemory, SameAreas
<1>6. Lay(p)'
  <2>1. Covers(p)' /\ Writes(p)' /\ Owns(p)'
    BY <1>1, <1>3, <1>u, ZenonT(30) DEF Covers, Writes, Owns, SameMemory, SameAreas
  <2>2. Sound(p)'
    BY <1>1, <1>3, <1>u, MmapAssumption, Zenon DEF Sound, SameMemory, SameAreas
  <2>3. Images(p)'
    BY <1>1, <1>3, <1>u, Zenon DEF Images
  <2>4. 0 <= PageUp(sz'[p]) /\ \A va \in VA : ~(va < 0)
    <3>1. sz'[p] \in Nat
      BY <1>1, MmapAssumption DEF Shape, PGSIZE
    <3> QED
      BY <3>1, PageUpFacts, Addresses
  <2>5. sz'[c] = 0 /\ Owned(c)' = {} /\ \A va \in VA : pt'[c][va] = None
    BY <1>3, <1>4, NoMapFacts, Zenon DEF SameMemory, SameAreas
  <2>6. CopiesHeap(p, child[p])'
    BY <1>1, <2>4, <2>5, Zenon DEF CopiesHeap
  <2>7. CopiesAreas(p, child[p])' /\ CountsAreas(p, child[p])'
    BY <1>1, Zenon DEF CopiesAreas, CountsAreas
  <2> QED
    BY <2>1, <2>2, <2>3, <2>6, <2>7, Zenon DEF Lay
<1>7. \A q \in Procs : child[q] # p /\ child[q] # c
  BY <1>s, <1>u, NotAChild, Zenon
<1>8. Apart'
  <2>1. \A q \in Procs : q # p => child'[q] = child[q]
    BY <1>s DEF Shape, ForkStart
  <2> QED
    BY <1>1, <1>7, <2>1, ZenonT(30) DEF Layout, Apart
<1> QED
  BY <1>1, <1>2, <1>3, <1>5, <1>6, <1>7, <1>8, TwoLay, ZenonT(30)

\* uvmcopy, one page.
LEMMA UvmcopyPageLayout ==
  ASSUME Layout, NEW p \in Procs, NEW pa \in Pages, UvmcopyPage(p, pa)
  PROVE  Layout'
<1>c. PICK c, k : c = child[p] /\ k = idx[p]
  OBVIOUS
<1>s. Shape /\ pc[p] = "uvmcopy"
  BY Zenon DEF Layout, UvmcopyPage
<1>f. /\ state[p] = "RUNNABLE" /\ c \in Procs /\ c # p
      /\ state[c] = "USED" /\ pc[c] = "user" /\ child[c] = None /\ ofile[c] = {}
      /\ \A q \in Procs : q # p => child[q] # p /\ child[q] # c
      /\ Covers(p) /\ Writes(p) /\ Owns(p) /\ Sound(p) /\ Images(p)
      /\ Covers(c) /\ Owns(c) /\ Sound(c) /\ Images(c)
      /\ CopiesHeap(p, c)
  <2>1. InFork(p, c)
    BY <1>c, <1>s, ForkFacts, Zenon
  <2> QED
    BY <2>1, Zenon DEF InFork
<1>u. /\ UNCHANGED <<sz, area, ofile, state, pc, child, cur, image>>
      /\ idx' = [idx EXCEPT ![p] = k + 1] /\ k * PGSIZE < sz[p]
      /\ IF pt[p][k] = None THEN pt' = pt ELSE MapNew(c, k, pa, pt[p][k].perm)
  BY <1>c DEF UvmcopyPage
<1>1. k \in Nat /\ sz[p] \in Nat /\ PageUp(sz[p]) \in Nat /\ k < PageUp(sz[p])
      /\ PageUp(sz[p]) <= HeapPages
  <2>1. k \in Nat /\ sz[p] \in Nat /\ sz[p] <= PGSIZE * HeapPages
    BY <1>c, <1>s, MmapAssumption DEF Shape, PGSIZE
  <2> QED
    BY <1>u, <2>1, PageUpFacts, Zenon
<1>2. k \in VA /\ k < MMAPBASE /\ k + 1 <= PageUp(sz[p]) /\ k + 1 \in Nat
  BY <1>1, MmapAssumption DEF VA, MMAPBASE, TRAPFRAME
<1>3. /\ pt' \in [Procs -> [VA -> PTE \cup {None}]]
      /\ \A q \in Procs : q # c => pt'[q] = pt[q]
      /\ \A w \in VA : w # k => pt'[c][w] = pt[c][w]
      /\ pt'[c][k] # None <=> pt[p][k] # None
  <2>1. CASE pt[p][k] = None
    <3>1. ~(k < idx[p])
      BY <1>c, <1>1
    <3>2. pt[c][k] = None
      BY <1>2, <1>f, <1>s, <3>1, Zenon DEF CopiesHeap
    <3> QED
      BY <1>s, <1>u, <2>1, <3>2, Zenon DEF Shape
  <2>2. CASE pt[p][k] # None
    <3>1. pt[p][k].perm \in Prot
      <4>1. pt[p][k] \in PTE
        BY <1>2, <1>s, <2>2 DEF Shape
      <4> QED
        BY <4>1 DEF PTE
    <3>2. MapNew(c, k, pa, pt[p][k].perm)
      BY <1>u, <2>2, Zenon
    <3> QED
      BY <1>2, <1>f, <1>s, <2>2, <3>1, <3>2, MapNewEntries
  <2> QED
    BY <2>1, <2>2
<1>4. Shape' /\ idx'[p] = k + 1 /\ \A q \in Procs : q # p => idx'[q] = idx[q]
  BY <1>s, <1>u, <1>2, <1>3, Zenon DEF Shape
<1>5. \A q : SameAreas(q)
  BY <1>u, Zenon DEF SameAreas, Owned
<1>6. \A q \in Procs : q # p /\ q # c => SameMemory(q) /\ SameCall(q) /\ ofile'[q] = ofile[q]
  BY <1>u, <1>3, <1>4, <1>5, Zenon DEF SameMemory, SameCall
<1>7. Lay(p)'
  <2>1. SameMemory(p)
    BY <1>u, <1>3, <1>5, <1>f, Zenon DEF SameMemory
  <2>2. Covers(p)' /\ Writes(p)' /\ Owns(p)'
    BY <1>u, <2>1, <1>f, ZenonT(30) DEF Covers, Writes, Owns, SameMemory, SameAreas
  <2>3. Sound(p)'
    BY <1>u, <2>1, <1>f, Zenon DEF Sound, SameMemory, SameAreas
  <2>4. Images(p)'
    BY <1>u, <1>s, <1>f, Zenon DEF Images
  <2>5. \A va \in VA : IF va < k + 1 THEN pt'[c][va] # None <=> pt'[p][va] # None
                                      ELSE pt'[c][va] = None
    <3> TAKE va \in VA
    <3>1. CASE va = k
      <4>1. k < k + 1
        BY <1>1
      <4> QED
        BY <1>3, <1>f, <3>1, <4>1, Zenon
    <3>2. CASE va # k
      <4>1. va < k + 1 <=> va < k
        BY <1>1, <3>2, Addresses
      <4> QED
        BY <1>c, <1>s, <1>3, <1>f, <3>2, <4>1, ZenonT(30) DEF CopiesHeap
    <3> QED
      BY <3>1, <3>2
  <2>6. sz'[c] = 0 /\ Owned(c)' = {} /\ idx'[p] <= PageUp(sz'[p]) /\ child'[p] = c
    BY <1>c, <1>s, <1>u, <1>2, <1>4, <1>5, <1>f, Zenon DEF CopiesHeap, SameAreas
  <2>7. CopiesHeap(p, child[p])'
    BY <1>4, <2>5, <2>6, Zenon DEF CopiesHeap
  <2>8. CopiesAreas(p, child[p])' /\ CountsAreas(p, child[p])'
    BY <1>s, <1>u, Zenon DEF CopiesAreas, CountsAreas
  <2> QED
    BY <2>2, <2>3, <2>4, <2>7, <2>8, Zenon DEF Lay
<1>8. Lay(c)'
  <2>1. Covers(c)'
    BY <1>u, <1>2, <1>3, <1>5, <1>f, Zenon DEF Covers, SameAreas
  <2>2. Writes(c)' /\ Owns(c)'
    BY <1>u, <1>5, <1>f, Zenon DEF Writes, Owns, SameAreas
  <2>3. Sound(c)' /\ Images(c)'
    BY <1>u, <1>5, <1>f, Zenon DEF Sound, Images, SameAreas
  <2>4. pc'[c] \notin {"uvmcopy", "mmapfork"}
    BY <1>u, <1>f, Zenon
  <2> QED
    BY <1>f, <2>1, <2>2, <2>3, <2>4, CalmLay, Zenon
<1>9. Apart'
  BY <1>u, Zenon DEF Layout, Apart
<1> QED
  BY <1>4, <1>6, <1>7, <1>8, <1>9, <1>f, TwoLay, Zenon

\* uvmcopy is done: the child has the parent's size.
LEMMA UvmcopyEndLayout ==
  ASSUME Layout, NEW p \in Procs, UvmcopyEnd(p)
  PROVE  Layout'
<1>c. PICK c, k : c = child[p] /\ k = idx[p]
  OBVIOUS
<1>s. Shape /\ pc[p] = "uvmcopy"
  BY Zenon DEF Layout, UvmcopyEnd
<1>f. /\ state[p] = "RUNNABLE" /\ c \in Procs /\ c # p
      /\ state[c] = "USED" /\ pc[c] = "user" /\ child[c] = None /\ ofile[c] = {}
      /\ \A q \in Procs : q # p => child[q] # p /\ child[q] # c
      /\ Covers(p) /\ Writes(p) /\ Owns(p) /\ Sound(p) /\ Images(p)
      /\ Covers(c) /\ Owns(c) /\ Sound(c) /\ Images(c)
      /\ CopiesHeap(p, c)
  <2>1. InFork(p, c)
    BY <1>c, <1>s, ForkFacts, Zenon
  <2> QED
    BY <2>1, Zenon DEF InFork
<1>u. /\ UNCHANGED <<pt, area, ofile, state, child, cur, image>>
      /\ idx' = [idx EXCEPT ![p] = 1] /\ k * PGSIZE >= sz[p]
      /\ sz' = [sz EXCEPT ![c] = sz[p]] /\ pc' = [pc EXCEPT ![p] = "mmapfork"]
  BY <1>c DEF UvmcopyEnd
<1>1. /\ k \in Nat /\ sz[p] \in Nat /\ PageUp(sz[p]) \in Nat
      /\ PageUp(sz[p]) <= HeapPages /\ k = PageUp(sz[p])
  <2>1. k \in Nat /\ sz[p] \in Nat /\ sz[p] <= PGSIZE * HeapPages
    BY <1>c, <1>s, MmapAssumption DEF Shape, PGSIZE
  <2>2. /\ PageUp(sz[p]) \in Nat
        /\ k < PageUp(sz[p]) <=> k * PGSIZE < sz[p]
        /\ PageUp(sz[p]) <= HeapPages
    BY <2>1, PageUpFacts, Zenon
  <2>3. k <= PageUp(sz[p])
    BY <1>c, <1>s, <1>f, Zenon DEF CopiesHeap
  <2> QED
    BY <1>u, <2>1, <2>2, <2>3 DEF PGSIZE
<1>2. /\ Shape' /\ idx'[p] = 1 /\ pc'[p] = "mmapfork" /\ pc'[c] = pc[c] /\ sz'[c] = sz[p]
      /\ sz'[p] = sz[p] /\ idx'[c] = idx[c]
  BY <1>s, <1>u, <1>f DEF Shape
<1>3. \A q : SameAreas(q)
  BY <1>u, Zenon DEF SameAreas, Owned
<1>4. \A q \in Procs : q # p /\ q # c => SameMemory(q) /\ SameCall(q) /\ ofile'[q] = ofile[q]
  BY <1>s, <1>u, <1>3 DEF SameMemory, SameCall, Shape
<1>5. \A va \in VA : IF va < PageUp(sz[p]) THEN pt[c][va] # None <=> pt[p][va] # None
                     ELSE pt[c][va] = None
  BY <1>c, <1>s, <1>f, <1>1, Zenon DEF CopiesHeap
<1>6. Lay(p)'
  <2>1. SameMemory(p)
    BY <1>u, <1>2, <1>3, Zenon DEF SameMemory
  <2>2. Covers(p)' /\ Writes(p)' /\ Owns(p)'
    BY <1>u, <2>1, <1>f, Zenon DEF Covers, Writes, Owns, SameMemory, SameAreas
  <2>3. Sound(p)' /\ Images(p)'
    BY <1>s, <1>u, <1>2, <1>f, Zenon DEF Sound, Images
  <2>4. \A j \in Owned(p)' : ~(j < idx'[p])
    BY <1>2, MmapAssumption DEF Owned, Slots
  <2>5. \A va : ~Copied(p, va)'
    BY <2>4, Zenon DEF Copied
  <2>6. child'[p] = c /\ pt' = pt
    BY <1>c, <1>u, Zenon
  <2>7. CopiesAreas(p, child[p])'
    BY <1>2, <1>5, <2>4, <2>5, <2>6, Zenon DEF CopiesAreas
  <2>8. CopiesHeap(p, child[p])'
    BY <1>2, Zenon DEF CopiesHeap
  <2>9. \A f \in Files : Cardinality({i \in Owned(c)' : area'[i].f = f})
                          = Cardinality({j \in Owned(p)' : j < idx'[p] /\ area'[j].f = f})
    <3> TAKE f \in Files
    <3>1. {j \in Owned(p)' : j < idx'[p] /\ area'[j].f = f} = {}
      BY <2>4, Zenon
    <3>2. {i \in Owned(c)' : area'[i].f = f} = {}
      BY <1>s, <1>3, <1>f, Zenon DEF CopiesHeap, SameAreas
    <3> QED
      BY <3>1, <3>2, Zenon
  <2>10. CountsAreas(p, child[p])'
    BY <2>6, <2>9, Zenon DEF CountsAreas
  <2> QED
    BY <2>2, <2>3, <2>7, <2>8, <2>10, Zenon DEF Lay
<1>7. Lay(c)'
  <2>2. Covers(c)'
    BY <1>u, <1>2, <1>5, Zenon DEF Covers
  <2>3. Writes(c)' /\ Owns(c)'
    BY <1>u, <1>3, <1>f, Zenon DEF Writes, Owns, SameAreas
  <2>4. Sound(c)' /\ Images(c)'
    BY <1>u, <1>2, <1>3, <1>f, Zenon DEF Sound, Images, SameAreas
  <2>5. pc'[c] \notin {"uvmcopy", "mmapfork"}
    BY <1>2, <1>f, Zenon
  <2> QED
    BY <1>f, <2>2, <2>3, <2>4, <2>5, CalmLay, Zenon
<1>8. Apart'
  BY <1>u, Zenon DEF Layout, Apart
<1> QED
  BY <1>2, <1>4, <1>6, <1>7, <1>8, <1>f, TwoLay, Zenon

\* A slot after freeproc, and what freeproc leaves to the others.
Freed(c) ==
    /\ pt' \in [Procs -> [VA -> PTE \cup {None}]] /\ pt'[c] = NoMap
    /\ sz' \in [Procs -> 0 .. PGSIZE * HeapPages] /\ sz'[c] = 0
    /\ area' \in [Slots -> Area \cup {None}] /\ Owned(c)' = {}
    /\ state' \in [Procs -> {"UNUSED", "USED", "RUNNABLE", "ZOMBIE"}] /\ state'[c] = "UNUSED"
    /\ \A q \in Procs : q # c => SameMemory(q) /\ state'[q] = state[q]

\* freeproc finds every page: those of areas, of the heap and of an unfinished uvmcopy.
LEMMA FreeprocFrees ==
  ASSUME Layout, NEW c \in Procs, NEW vs, Freeproc(c, vs),
         \A w \in VA : pt[c][w] # None =>
            w \in vs \/ w < PageUp(sz[c]) \/ \E i \in Owned(c) : w \in Span(area[i])
  PROVE  Freed(c)
<1>s. Shape
  BY Zenon DEF Layout
<1>d. PICK all : all = vs \cup Heap(c) \cup UNION {Span(area[i]) : i \in Owned(c)}
  BY Zenon
<1>1. Uvmunmap(c, all)
  BY <1>d, Zenon DEF Freeproc
<1>2. /\ pt' \in [Procs -> [VA -> PTE \cup {None}]]
      /\ \A q \in Procs : q # c => pt'[q] = pt[q]
      /\ \A w \in VA : pt'[c][w] = IF w \in all THEN None ELSE pt[c][w]
  BY <1>1, <1>s, UvmunmapEntries, Zenon
<1>3. \A w \in VA : pt'[c][w] = None
  <2> SUFFICES ASSUME NEW w \in VA, pt[c][w] # None
               PROVE  w \in all
    BY <1>2, Zenon
  <2>1. CASE \E i \in Owned(c) : w \in Span(area[i])
    BY <1>d, <2>1, Zenon
  <2>2. CASE w \in vs
    BY <1>d, <2>2, Zenon
  <2>3. CASE w < PageUp(sz[c])
    <3>1. sz[c] \in Nat
      BY <1>s, MmapAssumption DEF Shape, PGSIZE
    <3>2. PageUp(sz[c]) \in Nat
      BY <3>1, PageUpFacts, Zenon
    <3>3. w \in Heap(c)
      BY <2>3, <3>2, Addresses DEF Heap
    <3> QED
      BY <1>d, <3>3, Zenon
  <2> QED
    BY <2>1, <2>2, <2>3, Zenon
<1>4. pt'[c] = NoMap
  <2>1. pt'[c] \in [VA -> PTE \cup {None}]
    BY <1>2, Zenon
  <2> QED
    BY <1>3, <2>1, IsNoMap, Zenon
<1>5. /\ sz' \in [Procs -> 0 .. PGSIZE * HeapPages] /\ sz'[c] = 0
      /\ \A q \in Procs : q # c => sz'[q] = sz[q]
  BY <1>s, MmapAssumption DEF Freeproc, Shape, PGSIZE
<1>6. /\ state' \in [Procs -> {"UNUSED", "USED", "RUNNABLE", "ZOMBIE"}] /\ state'[c] = "UNUSED"
      /\ \A q \in Procs : q # c => state'[q] = state[q]
  BY <1>s DEF Freeproc, Shape
<1>7. \A i \in Slots : area'[i] = IF i \in Owned(c) THEN None ELSE area[i]
  BY Zenon DEF Freeproc
<1>8. area' \in [Slots -> Area \cup {None}]
  <2>1. \A i \in Slots : area'[i] \in Area \cup {None}
    BY <1>7, <1>s DEF Shape
  <2>2. area' = [i \in Slots |-> area'[i]]
    BY DEF Freeproc
  <2> QED
    BY <2>1, <2>2
<1>9. Owned(c)' = {} /\ \A q : q # c => SameAreas(q)
  <2>1. PICK D : D = Owned(c)
    OBVIOUS
  <2>2. Owned(c)' = Owned(c) \ D /\ \A q : q # c => SameAreas(q)
    <3>1. D \subseteq Owned(c) /\ \A i \in Slots : area'[i] = IF i \in D THEN None ELSE area[i]
      BY <1>7, <2>1, Zenon
    <3> QED
      BY <3>1, AreasDropped, Zenon
  <2> QED
    BY <2>1, <2>2, Zenon
<1> QED
  BY <1>2, <1>4, <1>5, <1>6, <1>8, <1>9, Zenon DEF Freed, SameMemory

\* kfork gives up.
LEMMA ForkFailLayout ==
  ASSUME Layout, NEW p \in Procs, pc[p] \in {"uvmcopy", "mmapfork"}, NEW c, c = child[p],
         NEW vs, ForkFail(p, vs),
         \A w \in VA : pt[c][w] # None =>
            w \in vs \/ w < PageUp(sz[c]) \/ \E i \in Owned(c) : w \in Span(area[i])
  PROVE  Layout'
<1>s. Shape
  BY Zenon DEF Layout
<1>f. /\ state[p] = "RUNNABLE" /\ c \in Procs /\ c # p
      /\ state[c] = "USED" /\ pc[c] = "user" /\ child[c] = None /\ ofile[c] = {}
      /\ \A q \in Procs : q # p => child[q] # p /\ child[q] # c
      /\ Covers(p) /\ Writes(p) /\ Owns(p) /\ Sound(p) /\ Images(p)
  <2>1. InFork(p, c)
    BY ForkFacts, Zenon
  <2> QED
    BY <2>1, Zenon DEF InFork
<1>u. /\ Freeproc(c, vs) /\ UNCHANGED <<ofile, cur, image>>
      /\ child' = [child EXCEPT ![p] = None] /\ pc' = [pc EXCEPT ![p] = "user"]
      /\ idx' = [idx EXCEPT ![p] = 0]
  BY Zenon DEF ForkFail
<1>1. Freed(c)
  BY <1>u, <1>f, FreeprocFrees, Zenon
<1>2. /\ child' \in [Procs -> Procs \cup {None}] /\ child'[p] = None
      /\ pc' \in [Procs -> {"user", "populate", "uvmcopy", "mmapfork", "exit", "exec"}]
      /\ pc'[p] = "user" /\ idx' \in [Procs -> Nat]
      /\ \A q \in Procs : q # p => pc'[q] = pc[q] /\ child'[q] = child[q] /\ idx'[q] = idx[q]
  BY <1>s, <1>u DEF Shape
<1>3. Shape'
  BY <1>s, <1>u, <1>1, <1>2, Zenon DEF Shape, Freed
<1>4. \A q \in Procs : q # p /\ q # c => SameMemory(q) /\ SameCall(q) /\ ofile'[q] = ofile[q]
  BY <1>u, <1>1, <1>2, Zenon DEF Freed, SameCall
<1>5. Lay(p)'
  <2>1. SameMemory(p) /\ state'[p] = state[p]
    BY <1>1, <1>f, Zenon DEF Freed
  <2>2. Covers(p)' /\ Writes(p)' /\ Owns(p)'
    BY <2>1, <1>f, FrameMemory, Zenon
  <2>3. Sound(p)'
    BY <1>u, <1>2, <2>1, <1>f, Zenon DEF Sound
  <2>4. Images(p)'
    BY <1>u, <1>2, <1>f, Zenon DEF Images
  <2>5. pc'[p] \notin {"uvmcopy", "mmapfork"}
    BY <1>2, Zenon
  <2> QED
    BY <2>2, <2>3, <2>4, <2>5, CalmLay, Zenon
<1>6. Lay(c)'
  <2>1. image[c] = NoMap
    BY <1>f, IdleFacts, Zenon
  <2> QED
    BY <1>u, <1>1, <1>2, <1>f, <2>1, EmptyLay, ZenonT(30) DEF Freed
<1>7. Apart'
  BY <1>2, ZenonT(30) DEF Layout, Apart
<1> QED
  BY <1>3, <1>4, <1>5, <1>6, <1>7, <1>f, TwoLay, Zenon

\* uvmcopy runs out of memory.
LEMMA UvmcopyFailLayout ==
  ASSUME Layout, NEW p \in Procs, UvmcopyFail(p)
  PROVE  Layout'
<1>1. PICK c, vs : c = child[p] /\ vs = 0 .. idx[p] - 1
  OBVIOUS
<1>2. pc[p] = "uvmcopy" /\ ForkFail(p, vs)
  BY <1>1, Zenon DEF UvmcopyFail
<1>3. CopiesHeap(p, c) /\ idx[p] \in Nat
  BY <1>1, Zenon DEF Layout, Lay, Shape
<1>4. \A w \in VA : w < idx[p] => w \in vs
  BY <1>1, <1>3, Addresses
<1>5. \A w \in VA : pt[c][w] # None =>
         w \in vs \/ w < PageUp(sz[c]) \/ \E i \in Owned(c) : w \in Span(area[i])
  BY <1>2, <1>3, <1>4, Zenon DEF CopiesHeap
<1> QED
  BY <1>1, <1>2, <1>5, ForkFailLayout, Zenon

\* A copy of an area for the child covers the same addresses with the same permission.
LEMMA CopyOfArea ==
  ASSUME NEW a \in Area, NEW c \in Procs, NEW b, b = [a EXCEPT !.p = c]
  PROVE  /\ b \in Area /\ b.p = c /\ b.f = a.f /\ b.prot = a.prot /\ Span(b) = Span(a)
         /\ b.addr = a.addr /\ b.length = a.length
<1>1. b \in Area /\ b.p = c /\ b.f = a.f /\ b.prot = a.prot /\ b.addr = a.addr
      /\ b.length = a.length
  BY DEF Area
<1> QED
  BY <1>1, Zenon DEF Span

\* The pages of the child are those of the heap and of areas it has got.
LEMMA ChildCovered ==
  ASSUME Shape, NEW p \in Procs, NEW c \in Procs, pc[p] = "mmapfork", CopiesAreas(p, c)
  PROVE  \A w \in VA : pt[c][w] # None =>
            w < PageUp(sz[c]) \/ \E i \in Owned(c) : w \in Span(area[i])
<1> SUFFICES ASSUME NEW w \in VA, pt[c][w] # None, ~(w < PageUp(sz[c]))
             PROVE  \E i \in Owned(c) : w \in Span(area[i])
  OBVIOUS
<1>1. Copied(p, w)
  BY Zenon DEF CopiesAreas
<1>2. PICK k \in Owned(p) : k < idx[p] /\ w \in Span(area[k])
  BY <1>1, Zenon DEF Copied
<1>3. PICK i \in Owned(c) : area[i] = [area[k] EXCEPT !.p = c]
  BY <1>2, Zenon DEF CopiesAreas
<1>4. area[k] \in Area
  BY Zenon DEF Owned, Shape
<1>5. Span(area[i]) = Span(area[k])
  BY <1>3, <1>4, CopyOfArea
<1> QED
  BY <1>2, <1>5, Zenon

\* mmaptable is full.
LEMMA MmapforkFailLayout ==
  ASSUME Layout, NEW p \in Procs, MmapforkFail(p)
  PROVE  Layout'
<1>1. PICK c : c = child[p]
  OBVIOUS
<1>2. pc[p] = "mmapfork" /\ ForkFail(p, {})
  BY <1>1, Zenon DEF MmapforkFail
<1>3. Shape /\ InFork(p, c)
  BY <1>1, <1>2, ForkFacts, Zenon DEF Layout
<1>4. c \in Procs /\ CopiesAreas(p, c)
  BY <1>3, Zenon DEF InFork
<1>5. \A w \in VA : pt[c][w] # None =>
         w \in {} \/ w < PageUp(sz[c]) \/ \E i \in Owned(c) : w \in Span(area[i])
  BY <1>2, <1>3, <1>4, ChildCovered, Zenon
<1> QED
  BY <1>1, <1>2, <1>5, ForkFailLayout, Zenon

\* The first area that mmapfork has not copied.
LEMMA ToCopyFirst ==
  ASSUME Shape, Firsts, NEW p \in Procs, ToCopy(p) # {}, NEW i, i = First(ToCopy(p))
  PROVE  /\ i \in Owned(p) /\ i \in Nat /\ area[i] \in Area /\ i >= idx[p]
         /\ \A k \in Owned(p) : k < i + 1 <=> (k < idx[p] \/ k = i)
<1>1. ToCopy(p) \in SUBSET Nat
  BY SlotsNat, Zenon DEF ToCopy, Owned
<1>2. i \in ToCopy(p) /\ \A k \in ToCopy(p) : i <= k
  BY <1>1, Zenon DEF Firsts
<1>3. i \in Owned(p) /\ i \in Nat /\ i >= idx[p]
  BY <1>1, <1>2, Zenon DEF ToCopy
<1>4. area[i] \in Area
  BY <1>3, Zenon DEF Owned, Shape
<1>5. idx[p] \in Nat
  BY DEF Shape
<1>6. ASSUME NEW k \in Owned(p)
      PROVE  k < i + 1 <=> (k < idx[p] \/ k = i)
  <2>1. k \in Nat
    BY SlotsNat, Zenon DEF Owned
  <2>2. k >= idx[p] => i <= k
    BY <1>2, Zenon DEF ToCopy
  <2> QED
    BY <1>3, <1>5, <2>1, <2>2
<1> QED
  BY <1>3, <1>4, <1>6, Zenon

\* mmapfork, one area.
LEMMA MmapforkAreaLayout ==
  ASSUME Layout, Firsts, NEW p \in Procs, MmapforkArea(p), CountsAreas(p, child[p])'
  PROVE  Layout'
<1>c. PICK c, i, s, b, shared :
         /\ c = child[p] /\ i = First(ToCopy(p)) /\ s = First(FreeSlots)
         /\ b = [area[i] EXCEPT !.p = c] /\ shared = {va \in Span(area[i]) \cap VA : pt[p][va] # None}
  BY Zenon
<1>s. Shape /\ pc[p] = "mmapfork"
  BY Zenon DEF Layout, MmapforkArea
<1>f. /\ state[p] = "RUNNABLE" /\ c \in Procs /\ c # p
      /\ state[c] = "USED" /\ pc[c] = "user" /\ child[c] = None /\ ofile[c] = {}
      /\ \A q \in Procs : q # p => child[q] # p /\ child[q] # c
      /\ Covers(p) /\ Writes(p) /\ Owns(p) /\ Sound(p) /\ Images(p)
      /\ Covers(c) /\ Owns(c) /\ Sound(c) /\ Images(c)
      /\ CopiesAreas(p, c)
  <2>1. InFork(p, c)
    BY <1>c, <1>s, ForkFacts, Zenon
  <2> QED
    BY <2>1, Zenon DEF InFork
<1>u. /\ ToCopy(p) # {} /\ FreeSlots # {}
      /\ area' = [area EXCEPT ![First(FreeSlots)] = b]
      /\ pt' = [pt EXCEPT ![c] = [va \in VA |-> IF va \in shared THEN pt[p][va] ELSE pt[c][va]]]
      /\ idx' = [idx EXCEPT ![p] = i + 1]
      /\ UNCHANGED <<sz, ofile, state, pc, child, cur, image>>
  <2>1. pt' = [pt EXCEPT ![child[p]] = [va \in VA |-> IF va \in shared THEN pt[p][va] ELSE @[va]]]
    BY <1>c, Zenon DEF MmapforkArea
  <2>2. pt' = [pt EXCEPT ![c] = [va \in VA |-> IF va \in shared THEN pt[p][va] ELSE pt[c][va]]]
    BY <1>c, <1>f, <1>s, <2>1 DEF Shape
  <2> QED
    BY <1>c, <2>2, Zenon DEF MmapforkArea
<1>1. /\ i \in Owned(p) /\ i \in Nat /\ area[i] \in Area /\ i >= idx[p]
      /\ \A k \in Owned(p) : k < i + 1 <=> (k < idx[p] \/ k = i)
  BY <1>c, <1>s, <1>u, ToCopyFirst, Zenon
<1>2. /\ b \in Area /\ b.p = c /\ b.f = area[i].f /\ b.prot = area[i].prot
      /\ Span(b) = Span(area[i]) /\ b.addr = area[i].addr /\ b.length = area[i].length
  <2>1. area[i] \in Area /\ c \in Procs /\ b = [area[i] EXCEPT !.p = c]
    BY <1>c, <1>1, <1>f, Zenon
  <2> QED
    BY <2>1, CopyOfArea
<1>3. /\ area' \in [Slots -> Area \cup {None}]
      /\ s \in Slots /\ area[s] = None /\ area'[s] = b
      /\ \A j \in Slots : j # s => area'[j] = area[j]
      /\ Owned(c)' = Owned(c) \cup {s} /\ s \notin Owned(c)
      /\ \A q : q # c => SameAreas(q)
  BY <1>c, <1>s, <1>u, <1>2, AreaAdded, ZenonT(30)
<1>4. \A j \in Owned(c) : area'[j] = area[j]
  BY <1>3, Zenon DEF Owned
<1>5. /\ pt' \in [Procs -> [VA -> PTE \cup {None}]]
      /\ \A q \in Procs : q # c => pt'[q] = pt[q]
      /\ \A w \in VA : pt'[c][w] = IF w \in shared THEN pt[p][w] ELSE pt[c][w]
  <2>1. PICK r : r = [va \in VA |-> IF va \in shared THEN pt[p][va] ELSE pt[c][va]]
    BY Zenon
  <2>2. r \in [VA -> PTE \cup {None}]
    BY <1>f, <1>s, <2>1 DEF Shape
  <2>3. pt' = [pt EXCEPT ![c] = r]
    BY <1>u, <2>1, Zenon
  <2>4. pt' \in [Procs -> [VA -> PTE \cup {None}]] /\ pt'[c] = r
    BY <1>f, <1>s, <2>2, <2>3 DEF Shape
  <2>5. \A q \in Procs : q # c => pt'[q] = pt[q]
    BY <1>f, <1>s, <2>3 DEF Shape
  <2>6. \A w \in VA : r[w] = IF w \in shared THEN pt[p][w] ELSE pt[c][w]
    BY <2>1, Zenon
  <2> QED
    BY <2>4, <2>5, <2>6, Zenon
<1>6. /\ idx' \in [Procs -> Nat] /\ idx'[p] = i + 1
      /\ \A q \in Procs : q # p => idx'[q] = idx[q]
  BY <1>s, <1>u, <1>1 DEF Shape
<1>7. Shape'
  BY <1>s, <1>u, <1>3, <1>5, <1>6, Zenon DEF Shape
<1>8. \A q \in Procs : q # p /\ q # c => SameMemory(q) /\ SameCall(q) /\ ofile'[q] = ofile[q]
  BY <1>u, <1>3, <1>5, <1>6, Zenon DEF SameMemory, SameCall
<1>9. SameMemory(p)
  BY <1>u, <1>3, <1>5, <1>f, Zenon DEF SameMemory
<1>10. \A w \in shared : pt[p][w] # None /\ pt[c][w] = None
  <2>1. ~Remap(p)
    BY Zenon DEF MmapforkArea
  <2> QED
    BY <1>c, <2>1, Zenon DEF Remap
<1>11. \A va : Copied(p, va)' <=> Copied(p, va) \/ va \in Span(area[i])
  <2>1. \A k \in Owned(p) : k < idx'[p] <=> (k < idx[p] \/ k = i)
    BY <1>1, <1>6, Zenon
  <2> QED
    BY <1>1, <1>9, <2>1, Zenon DEF Copied, SameMemory, SameAreas
<1>12. Lay(p)'
  <2>2. Covers(p)' /\ Writes(p)' /\ Owns(p)'
    BY <1>u, <1>9, <1>f, ZenonT(30) DEF Covers, Writes, Owns, SameMemory, SameAreas
  <2>3. Sound(p)' /\ Images(p)'
    BY <1>s, <1>u, <1>f, Zenon DEF Sound, Images
  <2>4. \A va \in VA : IF va < PageUp(sz'[p]) THEN pt'[c][va] # None <=> pt'[p][va] # None
                       ELSE pt'[c][va] = IF Copied(p, va)' THEN pt'[p][va] ELSE None
    <3> TAKE va \in VA
    <3>0. pt'[p][va] = pt[p][va] /\ sz'[p] = sz[p]
      BY <1>9, Zenon DEF SameMemory
    <3>1. CASE va < PageUp(sz[p])
      <4>1. va \notin shared
        BY <1>10, <1>f, <1>s, <3>1, Zenon DEF CopiesAreas
      <4> QED
        BY <1>5, <1>f, <1>s, <3>0, <3>1, <4>1, Zenon DEF CopiesAreas
    <3>2. CASE ~(va < PageUp(sz[p]))
      <4>0. pt[c][va] = IF Copied(p, va) THEN pt[p][va] ELSE None
        BY <1>f, <1>s, <3>2, Zenon DEF CopiesAreas
      <4>1. CASE va \in Span(area[i])
        <5>1. Copied(p, va)'
          BY <1>11, <4>1, Zenon
        <5>2. pt'[c][va] = pt[p][va]
          BY <1>c, <1>5, <4>0, <4>1, Zenon
        <5> QED
          BY <3>0, <3>2, <5>1, <5>2, Zenon
      <4>2. CASE va \notin Span(area[i])
        <5>1. Copied(p, va)' <=> Copied(p, va)
          BY <1>11, <4>2, Zenon
        <5>2. pt'[c][va] = pt[c][va]
          BY <1>c, <1>5, <4>2, Zenon
        <5> QED
          BY <3>0, <3>2, <4>0, <5>1, <5>2, Zenon
      <4> QED
        BY <4>1, <4>2
    <3> QED
      BY <3>1, <3>2
  <2>5. \A k \in Owned(p)' : k < idx'[p] =>
             \E j \in Owned(c)' : area'[j] = [area'[k] EXCEPT !.p = c]
    <3> SUFFICES ASSUME NEW k \in Owned(p)', k < idx'[p]
                 PROVE  \E j \in Owned(c)' : area'[j] = [area'[k] EXCEPT !.p = c]
      OBVIOUS
    <3>1. k \in Owned(p) /\ area'[k] = area[k]
      BY <1>9, Zenon DEF SameMemory, SameAreas
    <3>2. CASE k = i
      <4>1. s \in Owned(c)' /\ area'[s] = [area[k] EXCEPT !.p = c]
        BY <1>c, <1>3, <3>2, Zenon
      <4> QED
        BY <3>1, <4>1
    <3>3. CASE k # i
      <4>1. k < idx[p]
        BY <1>1, <1>6, <3>1, <3>3, Zenon
      <4>2. PICK j \in Owned(c) : area[j] = [area[k] EXCEPT !.p = c]
        BY <1>f, <1>s, <3>1, <4>1, Zenon DEF CopiesAreas
      <4>3. j \in Owned(c)' /\ area'[j] = area[j]
        BY <1>3, <1>4, Zenon
      <4> QED
        BY <3>1, <4>2, <4>3
    <3> QED
      BY <3>2, <3>3
  <2>6. sz'[c] = sz'[p] /\ child'[p] = c
    BY <1>c, <1>s, <1>u, <1>f, Zenon DEF CopiesAreas
  <2>7. CopiesAreas(p, c)'
    BY <2>4, <2>5, <2>6, Zenon DEF CopiesAreas
  <2>8. CopiesAreas(p, child[p])'
    BY <2>6, <2>7, Zenon DEF CopiesAreas
  <2>9. CopiesHeap(p, child[p])'
    BY <1>s, <1>u, Zenon DEF CopiesHeap
  <2> QED
    BY <2>2, <2>3, <2>8, <2>9, Zenon DEF Lay
<1>13. Lay(c)'
  <2>1. Covers(c)'
    <3> SUFFICES ASSUME NEW w \in VA, pt'[c][w] # None
                 PROVE  \/ \E j \in Owned(c)' : w \in Span(area'[j])
                        \/ w < PageUp(sz'[c])
                        \/ w < MMAPBASE /\ state'[c] = "USED"
      BY Zenon DEF Covers
    <3>1. CASE w \in shared
      <4>1. w \in Span(area[i])
        BY <1>c, <3>1, Zenon
      <4>3. w \in Span(area'[s]) /\ s \in Owned(c)'
        BY <1>2, <1>3, <4>1, Zenon
      <4> QED
        BY <4>3, Zenon
    <3>2. CASE w \notin shared
      BY <1>u, <1>3, <1>4, <1>5, <1>f, <3>2, Zenon DEF Covers
    <3> QED
      BY <3>1, <3>2
  <2>2. Writes(c)'
    BY <1>u, <1>f, Zenon DEF Writes
  <2>3. Owns(c)'
    BY <1>u, <1>f, Zenon DEF Owns
  <2>4. Sound(c)' /\ Images(c)'
    BY <1>u, <1>6, <1>f, Zenon DEF Sound, Images
  <2>5. pc'[c] \notin {"uvmcopy", "mmapfork"}
    BY <1>u, <1>f, Zenon
  <2> QED
    BY <1>f, <2>1, <2>2, <2>3, <2>4, <2>5, CalmLay, Zenon
<1>14. Apart'
  BY <1>u, Zenon DEF Layout, Apart
<1> QED
  BY <1>7, <1>8, <1>12, <1>13, <1>14, <1>f, TwoLay, Zenon

\* The child may run.
LEMMA ForkEndLayout ==
  ASSUME Layout, NEW p \in Procs, ForkEnd(p)
  PROVE  Layout'
<1>c. PICK c : c = child[p]
  OBVIOUS
<1>s. Shape /\ pc[p] = "mmapfork"
  BY Zenon DEF Layout, ForkEnd
<1>f. /\ state[p] = "RUNNABLE" /\ c \in Procs /\ c # p
      /\ state[c] = "USED" /\ pc[c] = "user" /\ child[c] = None /\ ofile[c] = {}
      /\ \A q \in Procs : q # p => child[q] # p /\ child[q] # c
      /\ Covers(p) /\ Writes(p) /\ Owns(p) /\ Sound(p) /\ Images(p)
      /\ Covers(c) /\ Owns(c) /\ Sound(c) /\ Images(c)
      /\ CopiesAreas(p, c)
  <2>1. InFork(p, c)
    BY <1>c, <1>s, ForkFacts, Zenon
  <2> QED
    BY <2>1, Zenon DEF InFork
<1>u. /\ ToCopy(p) = {} /\ ofile' = [ofile EXCEPT ![c] = ofile[p]]
      /\ state' = [state EXCEPT ![c] = "RUNNABLE"] /\ child' = [child EXCEPT ![p] = None]
      /\ pc' = [pc EXCEPT ![p] = "user"] /\ idx' = [idx EXCEPT ![p] = 0]
      /\ UNCHANGED <<pt, sz, area, cur, image>>
  BY <1>c, Zenon DEF ForkEnd
<1>1. /\ Shape' /\ state'[c] = "RUNNABLE" /\ state'[p] = state[p] /\ child'[p] = None
      /\ child'[c] = child[c] /\ pc'[p] = "user" /\ pc'[c] = pc[c] /\ idx'[c] = idx[c]
      /\ ofile'[p] = ofile[p]
  BY <1>s, <1>u, <1>f DEF Shape
<1>2. \A q : SameMemory(q)
  BY <1>u, Zenon DEF SameMemory, SameAreas, Owned
<1>3. \A q \in Procs : q # p /\ q # c => SameCall(q) /\ ofile'[q] = ofile[q]
  BY <1>s, <1>u DEF SameCall, Shape
<1>4. Lay(p)'
  <2>2. Covers(p)' /\ Writes(p)' /\ Owns(p)'
    BY <1>1, <1>2, <1>f, ZenonT(30) DEF Covers, Writes, Owns, SameMemory, SameAreas
  <2>3. Sound(p)' /\ Images(p)'
    BY <1>s, <1>u, <1>1, <1>f, Zenon DEF Sound, Images
  <2>4. pc'[p] \notin {"uvmcopy", "mmapfork"}
    BY <1>1, Zenon
  <2> QED
    BY <2>2, <2>3, <2>4, CalmLay, Zenon
<1>5. \A k \in Owned(p) : k < idx[p]
  <2>1. \A k \in Owned(p) : k \in Nat
    BY SlotsNat, Zenon DEF Owned
  <2>2. idx[p] \in Nat
    BY <1>s DEF Shape
  <2>3. \A k \in Owned(p) : ~(k >= idx[p])
    BY <1>u, Zenon DEF ToCopy
  <2> QED
    BY <2>1, <2>2, <2>3
<1>6. Covers(c)'
  <2>1. \A w \in VA : pt[c][w] # None =>
            w < PageUp(sz[c]) \/ \E i \in Owned(c) : w \in Span(area[i])
    BY <1>s, <1>f, ChildCovered, Zenon
  <2> QED
    BY <1>2, <1>f, <2>1, Zenon DEF Covers, SameMemory, SameAreas
<1>7. Writes(c)'
  <2> SUFFICES ASSUME NEW w \in VA, pt[c][w] # None, pt[c][w].perm = "RW",
                      ~(w < PageUp(sz[c]))
               PROVE  \E j \in Owned(c) : w \in Span(area[j]) /\ area[j].prot = "RW"
    BY <1>2, Zenon DEF Writes, SameMemory, SameAreas
  <2>1. ~(w < PageUp(sz[p]))
    BY <1>s, <1>f, Zenon DEF CopiesAreas
  <2>2. pt[c][w] = pt[p][w]
    BY <1>s, <1>f, <2>1, Zenon DEF CopiesAreas
  <2>3. PICK k \in Owned(p) : w \in Span(area[k]) /\ area[k].prot = "RW"
    BY <1>f, <2>1, <2>2, Zenon DEF Writes
  <2>4. PICK j \in Owned(c) : area[j] = [area[k] EXCEPT !.p = c]
    BY <1>s, <1>f, <1>5, Zenon DEF CopiesAreas
  <2>5. area[k] \in Area
    BY <1>s, Zenon DEF Owned, Shape
  <2>6. area[j].prot = area[k].prot /\ Span(area[j]) = Span(area[k])
    BY <1>f, <2>4, <2>5, CopyOfArea
  <2> QED
    BY <2>3, <2>6, Zenon
<1>8. Lay(c)'
  <2>1. Owns(c)'
    BY <1>1, <1>2, <1>f, Zenon DEF Owns, SameMemory, SameAreas
  <2>2. Sound(c)' /\ Images(c)'
    BY <1>u, <1>1, <1>f, Zenon DEF Sound, Images
  <2>3. pc'[c] \notin {"uvmcopy", "mmapfork"}
    BY <1>1, <1>f, Zenon
  <2> QED
    BY <1>f, <1>6, <1>7, <2>1, <2>2, <2>3, CalmLay, Zenon
<1>9. Apart'
  <2>1. \A q \in Procs : q # p => child'[q] = child[q]
    BY <1>s, <1>u DEF Shape
  <2> QED
    BY <1>1, <2>1, Zenon DEF Layout, Apart
<1> QED
  BY <1>1, <1>2, <1>3, <1>4, <1>8, <1>9, <1>f, TwoLay, Zenon

------------------------------------------------------------------------------
(* exit, wait, exec and close keep the layout *)

\* kexit begins.
LEMMA ExitStartLayout ==
  ASSUME Layout, NEW p \in Procs, ExitStart(p)
  PROVE  Layout'
<1>s. Shape /\ InUser(p)
  BY Zenon DEF Layout, ExitStart
<1>u. /\ state[p] = "RUNNABLE" /\ pc[p] = "user" /\ child[p] = None /\ state[p] # "USED"
      /\ Covers(p) /\ Writes(p) /\ Owns(p) /\ Sound(p) /\ Images(p)
  BY <1>s, UserFacts, Zenon
<1>1. /\ Shape' /\ pc'[p] = "exit"
      /\ UNCHANGED <<pt, sz, area, ofile, state, child, cur, image, idx>>
      /\ \A q \in Procs : q # p => SameCall(q)
  BY <1>s DEF Shape, ExitStart, SameCall
<1>2. \A q : SameMemory(q)
  BY <1>1, Zenon DEF SameMemory, SameAreas, Owned
<1>3. Covers(p)' /\ Writes(p)' /\ Owns(p)'
  BY <1>1, <1>2, <1>u, Zenon DEF Covers, Writes, Owns, SameMemory, SameAreas
<1>4. Sound(p)' /\ Images(p)'
  BY <1>1, <1>u, Zenon DEF Sound, Images
<1>5. Lay(p)'
  BY <1>1, <1>3, <1>4, CalmLay, Zenon
<1> QED
  BY <1>1, <1>2, <1>5, <1>u, OneLay, Zenon

\* kexec builds the new image.
LEMMA ExecStartLayout ==
  ASSUME Layout, NEW p \in Procs, NEW n \in 1 .. PGSIZE * HeapPages, ExecStart(p, n)
  PROVE  Layout'
<1>s. Shape /\ InUser(p)
  BY Zenon DEF Layout, ExecStart
<1>u. /\ state[p] = "RUNNABLE" /\ pc[p] = "user" /\ child[p] = None /\ state[p] # "USED"
      /\ Covers(p) /\ Writes(p) /\ Owns(p) /\ Sound(p) /\ Images(p)
  BY <1>s, UserFacts, Zenon
<1>1. PICK vs, m, r :
         /\ vs = NewPages(0, n) /\ m \in Fill(vs)
         /\ r = [va \in VA |-> IF va \notin vs THEN None
                               ELSE [pa |-> m[va], perm |-> IF va = 0 THEN "R" ELSE "RW"]]
         /\ image' = [image EXCEPT ![p] = r]
  BY Zenon DEF ExecStart
<1>2. \A w \in VA : IF w \in vs THEN r[w] \in PTE ELSE r[w] = None
  <2> TAKE w \in VA
  <2>1. CASE w \in vs
    <3>1. m[w] \in Pages
      BY <1>1, <2>1, Zenon DEF Fill, FreePages
    <3>2. r[w] = [pa |-> m[w], perm |-> IF w = 0 THEN "R" ELSE "RW"]
      BY <1>1, <2>1
    <3> QED
      BY <2>1, <3>1, <3>2 DEF PTE, Prot
  <2>2. CASE w \notin vs
    BY <1>1, <2>2
  <2> QED
    BY <2>1, <2>2
<1>3. r \in [VA -> PTE \cup {None}]
  <2>1. \A w \in VA : r[w] \in PTE \cup {None}
    BY <1>2
  <2> QED
    BY <1>1, <2>1
<1>4. /\ UNCHANGED <<pt, sz, area, ofile, state, child, cur>>
      /\ pc' = [pc EXCEPT ![p] = "exec"] /\ idx' = [idx EXCEPT ![p] = n]
  BY Zenon DEF ExecStart
<1>5. n \in Nat
  BY MmapAssumption DEF PGSIZE
<1>6. /\ Shape' /\ pc'[p] = "exec" /\ idx'[p] = n /\ image'[p] = r
  BY <1>s, <1>1, <1>3, <1>4, <1>5 DEF Shape
<1>7. \A q : SameMemory(q)
  BY <1>4, Zenon DEF SameMemory, SameAreas, Owned
<1>8. \A q \in Procs : q # p => SameCall(q)
  BY <1>s, <1>1, <1>4 DEF SameCall, Shape
<1>9. Covers(p)' /\ Writes(p)' /\ Owns(p)'
  BY <1>4, <1>7, <1>u, Zenon DEF Covers, Writes, Owns, SameMemory, SameAreas
<1>10. Sound(p)'
  BY <1>4, <1>6, <1>u, Zenon DEF Sound
<1>11. Images(p)'
  <2>1. \A w \in VA : w \in vs => w < PageUp(n)
    <3>1. PageUp(0) \in Nat /\ PageUp(n) \in Nat
      BY <1>5, PageUpFacts
    <3> QED
      BY <1>1, <3>1, Addresses DEF NewPages
  <2> QED
    BY <1>2, <1>6, <2>1, Zenon DEF Images
<1>12. Lay(p)'
  <2>1. pc'[p] \notin {"uvmcopy", "mmapfork"}
    BY <1>6, Zenon
  <2> QED
    BY <1>9, <1>10, <1>11, <2>1, CalmLay, Zenon
<1> QED
  BY <1>4, <1>6, <1>7, <1>8, <1>12, <1>u, OneLay, Zenon

\* kexit ends: the process is a zombie with its heap.
LEMMA ExitEndLayout ==
  ASSUME Layout, NEW p \in Procs, ExitEnd(p)
  PROVE  Layout'
<1>s. /\ Shape /\ pc[p] = "exit" /\ Owned(p) = {}
      /\ Covers(p) /\ Writes(p) /\ Owns(p) /\ Sound(p) /\ Images(p)
  BY Zenon DEF Layout, Lay, ExitEnd
<1>u. state[p] = "RUNNABLE" /\ state[p] # "USED"
  BY <1>s, Zenon DEF Sound
<1>1. /\ Shape' /\ pc'[p] = "user" /\ state'[p] = "ZOMBIE" /\ ofile'[p] = {}
      /\ UNCHANGED <<pt, sz, area, child, cur, image, idx>>
      /\ \A q \in Procs : q # p => SameCall(q) /\ ofile'[q] = ofile[q]
  BY <1>s DEF Shape, ExitEnd, SameCall
<1>2. \A q : SameMemory(q)
  BY <1>1, Zenon DEF SameMemory, SameAreas, Owned
<1>3. Covers(p)' /\ Writes(p)' /\ Owns(p)'
  BY <1>s, <1>1, <1>2, <1>u, Zenon DEF Covers, Writes, Owns, SameMemory, SameAreas
<1>4. Sound(p)' /\ Images(p)'
  BY <1>s, <1>1, <1>u, Zenon DEF Sound, Images
<1>5. Lay(p)'
  BY <1>1, <1>3, <1>4, CalmLay, Zenon
<1> QED
  BY <1>1, <1>2, <1>5, <1>u, OneLay, Zenon

\* kexec ends: the image is the process's memory.
LEMMA ExecEndLayout ==
  ASSUME Layout, NEW p \in Procs, ExecEnd(p)
  PROVE  Layout'
<1>s. /\ Shape /\ pc[p] = "exec" /\ Owned(p) = {}
      /\ Covers(p) /\ Writes(p) /\ Owns(p) /\ Sound(p) /\ Images(p)
  BY Zenon DEF Layout, Lay, ExecEnd
<1>u. state[p] = "RUNNABLE" /\ state[p] # "USED" /\ idx[p] \in 1 .. PGSIZE * HeapPages
  BY <1>s, Zenon DEF Sound, Images
<1>0. NoMap \in [VA -> PTE \cup {None}]
  BY NoMapFacts, SMTT(30)
<1>1. /\ UNCHANGED <<area, ofile, state, child, cur>>
      /\ pt' \in [Procs -> [VA -> PTE \cup {None}]] /\ pt'[p] = image[p]
      /\ image' \in [Procs -> [VA -> PTE \cup {None}]] /\ image'[p] = NoMap
      /\ sz' \in [Procs -> 0 .. PGSIZE * HeapPages] /\ sz'[p] = idx[p]
  BY <1>s, <1>u, <1>0, MmapAssumption DEF Shape, ExecEnd, PGSIZE
<1>2. /\ pc' \in [Procs -> {"user", "populate", "uvmcopy", "mmapfork", "exit", "exec"}]
      /\ pc'[p] = "user" /\ idx' \in [Procs -> Nat]
  BY <1>s DEF Shape, ExecEnd
<1>3. Shape'
  BY <1>s, <1>1, <1>2, Zenon DEF Shape
<1>4. \A q : SameAreas(q)
  BY <1>1, Zenon DEF SameAreas, Owned
<1>5. \A q \in Procs : q # p => SameMemory(q) /\ SameCall(q)
  <2>1. \A q \in Procs : q # p => /\ pt'[q] = pt[q] /\ image'[q] = image[q] /\ sz'[q] = sz[q]
                                  /\ pc'[q] = pc[q] /\ idx'[q] = idx[q]
    BY <1>s DEF Shape, ExecEnd
  <2> QED
    BY <1>1, <1>4, <2>1, Zenon DEF SameMemory, SameCall
<1>6. \A w \in VA : image[p][w] # None => w < PageUp(idx[p])
  BY <1>s, Zenon DEF Images
<1>7. Covers(p)'
  BY <1>1, <1>6, Zenon DEF Covers
<1>8. Writes(p)'
  BY <1>1, <1>6, Zenon DEF Writes
<1>9. Owns(p)' /\ Sound(p)'
  BY <1>s, <1>1, <1>2, <1>4, <1>u, Zenon DEF Owns, Sound, SameAreas
<1>10. Images(p)'
  BY <1>1, <1>2, NoMapFacts, Zenon DEF Images
<1>11. Lay(p)'
  BY <1>2, <1>7, <1>8, <1>9, <1>10, CalmLay, Zenon
<1> QED
  BY <1>1, <1>3, <1>5, <1>11, <1>u, OneLay, Zenon

\* kwait frees a zombie.
LEMMA ReapLayout ==
  ASSUME Layout, NEW c \in Procs, Reap(c)
  PROVE  Layout'
<1>s. /\ Shape /\ state[c] = "ZOMBIE" /\ state[c] # "USED" /\ Covers(c)
      /\ Freeproc(c, {}) /\ UNCHANGED <<ofile, pc, child, cur, image, idx>>
  BY Zenon DEF Layout, Lay, Reap
<1>1. \A w \in VA : pt[c][w] # None =>
         w \in {} \/ w < PageUp(sz[c]) \/ \E i \in Owned(c) : w \in Span(area[i])
  BY <1>s, Zenon DEF Covers
<1>2. Freed(c)
  BY <1>s, <1>1, FreeprocFrees, Zenon
<1>3. pc[c] = "user" /\ child[c] = None /\ ofile[c] = {} /\ image[c] = NoMap
  BY <1>s, IdleFacts, Zenon
<1>4. Lay(c)'
  BY <1>s, <1>2, <1>3, EmptyLay, Zenon DEF Freed
<1>5. Shape'
  BY <1>s, <1>2, Zenon DEF Shape, Freed
<1>6. \A q \in Procs : q # c => SameMemory(q) /\ SameCall(q) /\ ofile'[q] = ofile[q]
  BY <1>s, <1>2, Zenon DEF Freed, SameCall
<1> QED
  BY <1>s, <1>4, <1>5, <1>6, OneLay, Zenon

\* sys_close.
LEMMA CloseLayout ==
  ASSUME Layout, NEW p \in Procs, NEW f \in Files, Close(p, f)
  PROVE  Layout'
<1>s. Shape /\ InUser(p)
  BY Zenon DEF Layout, Close
<1>u. /\ state[p] = "RUNNABLE" /\ pc[p] = "user" /\ child[p] = None /\ state[p] # "USED"
      /\ Covers(p) /\ Writes(p) /\ Owns(p) /\ Sound(p) /\ Images(p)
  BY <1>s, UserFacts, Zenon
<1>1. /\ Shape' /\ UNCHANGED <<pt, sz, area, state, pc, child, cur, image, idx>>
      /\ \A q \in Procs : q # p => ofile'[q] = ofile[q]
  BY <1>s DEF Shape, Close
<1>2. \A q : SameMemory(q) /\ SameCall(q)
  BY <1>1, Zenon DEF SameMemory, SameAreas, Owned, SameCall
<1>3. Covers(p)' /\ Writes(p)' /\ Owns(p)' /\ Images(p)'
  BY <1>2, <1>u, FrameCovers, Zenon
<1>4. Sound(p)' /\ pc'[p] \notin {"uvmcopy", "mmapfork"}
  BY <1>1, <1>u, Zenon DEF Sound
<1>5. Lay(p)'
  BY <1>3, <1>4, CalmLay, Zenon
<1> QED
  BY <1>1, <1>2, <1>5, <1>u, OneLay, Zenon

\* The layout holds when init starts.
LEMMA InitLayout ==
  ASSUME Init
  PROVE  Layout
<1>0. NoMap \in [VA -> PTE \cup {None}] /\ 0 \in 0 .. PGSIZE * HeapPages
  BY NoMapFacts, MmapAssumption, SMTT(30) DEF PGSIZE
<1>1. Shape
  BY <1>0 DEF Init, Shape
<1>2. \A p \in Procs : pc[p] = "user" /\ child[p] = None /\ pt[p] = NoMap /\ sz[p] = 0
                       /\ image[p] = NoMap
  BY Zenon DEF Init
<1>3. Apart
  BY <1>2, Zenon DEF Apart
<1>4. \A p \in Procs : Owned(p) = {}
  BY DEF Init, Owned
<1>5. ASSUME NEW p \in Procs PROVE Lay(p)
  <2>1. \A va \in VA : pt[p][va] = None /\ image[p][va] = None
    BY <1>2, <1>5, NoMapFacts, Zenon
  <2>3. Covers(p) /\ Writes(p)
    BY <1>5, <2>1, Zenon DEF Covers, Writes
  <2>4. Owns(p) /\ Images(p)
    BY <1>2, <1>4, <1>5, <2>1, Zenon DEF Owns, Images
  <2>5. state[p] # "RUNNABLE" => ofile[p] = {}
    BY <1>5 DEF Init
  <2>6. Sound(p)
    BY <1>2, <1>5, <2>5, Zenon DEF Sound
  <2>7. CopiesHeap(p, child[p]) /\ CopiesAreas(p, child[p]) /\ CountsAreas(p, child[p])
    BY <1>2, <1>5, Zenon DEF CopiesHeap, CopiesAreas, CountsAreas
  <2> QED
    BY <2>3, <2>4, <2>6, <2>7, Zenon DEF Lay
<1> QED
  BY <1>1, <1>3, <1>5, Zenon DEF Layout

\* Every step keeps it.
LEMMA StepLayout ==
  ASSUME Layout, Firsts, MmapCall(Area) \/ Step,
         \A p \in Procs : MmapforkArea(p) => CountsAreas(p, child[p])'
  PROVE  Layout'
<1>1. ASSUME NEW p \in Procs, NEW a \in Area, NEW populate \in BOOLEAN, Kmmap(p, a, populate)
      PROVE  Layout'
  BY <1>1, KmmapLayout, Zenon
<1>2. ASSUME NEW p \in Procs, \/ \E pa \in Pages : PopulatePage(p, pa)
                              \/ PopulateEnd(p)
                              \/ \E addr \in 0 .. MAXVA : Kmunmap(p, addr)
      PROVE  Layout'
  BY <1>2, PopulatePageLayout, PopulateEndLayout, KmunmapLayout, Zenon
<1>3. ASSUME NEW p \in Procs, NEW va \in VA, NEW pa \in Pages,
             \/ \E read \in BOOLEAN : FaultMmap(p, va, pa, read)
             \/ FaultHeap(p, va, pa)
      PROVE  Layout'
  BY <1>3, FaultMmapLayout, FaultHeapLayout, Zenon
<1>4. ASSUME NEW p \in Procs, NEW n \in 1 .. PGSIZE * HeapPages,
             SbrkLazy(p, n) \/ Grow(p, n) \/ Shrink(p, n)
      PROVE  Layout'
  BY <1>4, SbrkLazyLayout, GrowLayout, ShrinkLayout, Zenon
<1>5. ASSUME NEW p \in Procs, \/ \E c \in Procs : ForkStart(p, c)
                              \/ \E pa \in Pages : UvmcopyPage(p, pa)
                              \/ UvmcopyEnd(p)
                              \/ UvmcopyFail(p)
      PROVE  Layout'
  BY <1>5, ForkStartLayout, UvmcopyPageLayout, UvmcopyEndLayout, UvmcopyFailLayout, Zenon
<1>6. ASSUME NEW p \in Procs, MmapforkArea(p) \/ MmapforkFail(p) \/ ForkEnd(p)
      PROVE  Layout'
  BY <1>6, MmapforkAreaLayout, MmapforkFailLayout, ForkEndLayout, Zenon
<1>7. ASSUME NEW p \in Procs, \/ ExitStart(p)
                              \/ \E n \in 1 .. PGSIZE * HeapPages : ExecStart(p, n)
                              \/ MmapfreeArea(p)
                              \/ ExitEnd(p)
      PROVE  Layout'
  BY <1>7, ExitStartLayout, ExecStartLayout, MmapfreeAreaLayout, ExitEndLayout, Zenon
<1>8. ASSUME NEW p \in Procs, ExecEnd(p) \/ Reap(p) \/ \E f \in Files : Close(p, f)
      PROVE  Layout'
  BY <1>8, ExecEndLayout, ReapLayout, CloseLayout, Zenon
<1> QED
  BY <1>1, <1>2, <1>3, <1>4, <1>5, <1>6, <1>7, <1>8, Zenon DEF MmapCall, Step

------------------------------------------------------------------------------
(* Counting *)


\* What the proofs below use of finite sets and cardinalities.  It is an assumption of
\* the lemmas, and FinitesHold takes it from the library at the end of the module.
Counted       == \A S : IsFiniteSet(S) => Cardinality(S) \in Nat
EmptySet      == /\ IsFiniteSet({}) /\ Cardinality({}) = 0
                 /\ \A S : IsFiniteSet(S) => (Cardinality(S) = 0 <=> S = {})
Singletons    == /\ \A x : IsFiniteSet({x}) /\ Cardinality({x}) = 1
                 /\ \A S : IsFiniteSet(S) => (Cardinality(S) = 1 <=> \E x : S = {x})
AddElement    == \A S, x : IsFiniteSet(S) /\ x \notin S => Cardinality(S \cup {x}) = Cardinality(S) + 1
RemoveElement == \A S, x : IsFiniteSet(S) /\ x \in S => Cardinality(S \ {x}) = Cardinality(S) - 1
Subsets       == \A S : \A T \in SUBSET S : IsFiniteSet(S) =>
                    IsFiniteSet(T) /\ Cardinality(T) <= Cardinality(S)
Unions        == \A S, T : IsFiniteSet(S) /\ IsFiniteSet(T) =>
                    Cardinality(S \cup T) = Cardinality(S) + Cardinality(T) - Cardinality(S \cap T)
Differences   == \A S, T : IsFiniteSet(S) =>
                    Cardinality(S \ T) = Cardinality(S) - Cardinality(S \cap T)
Products      == \A S, T : IsFiniteSet(S) /\ IsFiniteSet(T) =>
                    /\ IsFiniteSet(S \X T)
                    /\ Cardinality(S \X T) = Cardinality(S) * Cardinality(T)
Intervals     == \A a, b \in Int : IsFiniteSet(a .. b)

Finites ==
    /\ Counted /\ EmptySet /\ Singletons /\ AddElement /\ RemoveElement /\ Subsets
    /\ Unions /\ Differences /\ Products /\ Intervals

\* The sets that are counted are finite.
LEMMA FiniteSets ==
  ASSUME Finites
  PROVE  IsFiniteSet(VA) /\ IsFiniteSet(Slots) /\ IsFiniteSet(Procs \X VA)
<1>1. IsFiniteSet(VA) /\ IsFiniteSet(Slots)
  BY MmapAssumption DEF Finites, Intervals, VA, TRAPFRAME, Slots
<1> QED
  BY <1>1, MmapAssumption, Zenon DEF Finites, Products

\* The addresses at which one page table maps a page.
Row(m, pa) == {va \in VA : m[va] # None /\ m[va].pa = pa}

\* A row and what a range of addresses takes from it are finite.
LEMMA RowFinite ==
  ASSUME Finites, NEW m, NEW pa, NEW vs
  PROVE  /\ IsFiniteSet(Row(m, pa)) /\ Cardinality(Row(m, pa)) \in Nat
         /\ IsFiniteSet(Row(m, pa) \cap vs) /\ Cardinality(Row(m, pa) \cap vs) \in Nat
<1>1. Row(m, pa) \in SUBSET VA /\ Row(m, pa) \cap vs \in SUBSET VA
  BY Zenon DEF Row
<1> QED
  BY <1>1, FiniteSets, Zenon DEF Finites, Counted, Subsets

\* The entries that map a page: a row for each process.
Rest(maps, p, pa) == {m \in Entries(maps, pa) : m[1] # p}

\* All entries are those of one process and the rest.
LEMMA EntriesSplit ==
  ASSUME Finites, NEW maps, NEW p \in Procs, NEW pa
  PROVE  /\ Cardinality(Entries(maps, pa)) \in Nat /\ Cardinality(Rest(maps, p, pa)) \in Nat
         /\ Cardinality(Entries(maps, pa))
              = Cardinality(Rest(maps, p, pa)) + Cardinality(Row(maps[p], pa))
<1>1. PICK E, S, T, R : /\ E = Entries(maps, pa) /\ S = Rest(maps, p, pa)
                        /\ R = Row(maps[p], pa) /\ T = {p} \X R
  BY Zenon
<1>2. E \in SUBSET (Procs \X VA) /\ S \in SUBSET (Procs \X VA)
  BY <1>1, Zenon DEF Entries, Rest
<1>3. IsFiniteSet(E) /\ IsFiniteSet(S) /\ Cardinality(E) \in Nat /\ Cardinality(S) \in Nat
  BY <1>2, FiniteSets, Zenon DEF Finites, Counted, Subsets
<1>4. IsFiniteSet(R) /\ Cardinality(R) \in Nat
  BY <1>1, RowFinite, Zenon
<1>5. IsFiniteSet(T) /\ Cardinality(T) = Cardinality(R)
  <2>1. IsFiniteSet({p}) /\ Cardinality({p}) = 1
    BY Zenon DEF Finites, Singletons
  <2>2. IsFiniteSet(T) /\ Cardinality(T) = Cardinality({p}) * Cardinality(R)
    BY <1>1, <1>4, <2>1, Zenon DEF Finites, Products
  <2> QED
    BY <1>4, <2>1, <2>2
<1>6. E = S \cup T
  BY <1>1 DEF Entries, Rest, Row
<1>7. S \cap T = {}
  BY <1>1 DEF Rest
<1>8. Cardinality(E) = Cardinality(S) + Cardinality(T) - Cardinality(S \cap T)
  BY <1>3, <1>5, <1>6, Zenon DEF Finites, Unions
<1>9. Cardinality(S \cap T) = 0
  BY <1>7, Zenon DEF Finites, EmptySet
<1>10. Cardinality(E) = Cardinality(S) + Cardinality(R)
  BY <1>3, <1>4, <1>5, <1>8, <1>9
<1> QED
  BY <1>1, <1>3, <1>10, Zenon

\* Two sets of page tables differ in one of them.
OnlyRow(maps, next, p) == \A q \in Procs : q # p => next[q] = maps[q]

\* Their counts of a page then differ by its row.
ByRow(maps, next, p, pa) ==
    Cardinality(Entries(next, pa))
      = Cardinality(Entries(maps, pa)) - Cardinality(Row(maps[p], pa))
        + Cardinality(Row(next[p], pa))

\* A step that changes one page table changes the count by its row.
LEMMA EntriesStep ==
  ASSUME Finites, NEW maps, NEW next, NEW p \in Procs, NEW pa, OnlyRow(maps, next, p)
  PROVE  ByRow(maps, next, p, pa)
<1>1. Rest(next, p, pa) = Rest(maps, p, pa)
  BY DEF Rest, Entries, OnlyRow
<1>2. /\ Cardinality(Rest(maps, p, pa)) \in Nat
      /\ Cardinality(Entries(maps, pa))
           = Cardinality(Rest(maps, p, pa)) + Cardinality(Row(maps[p], pa))
      /\ Cardinality(Entries(next, pa))
           = Cardinality(Rest(maps, p, pa)) + Cardinality(Row(next[p], pa))
  BY <1>1, EntriesSplit, Zenon
<1>3. Cardinality(Row(maps[p], pa)) \in Nat /\ Cardinality(Row(next[p], pa)) \in Nat
  BY RowFinite, Zenon
<1> QED
  BY <1>2, <1>3 DEF ByRow

\* kalloc, kaddref and kfree balance when the count follows the rows of one process.
LEMMA RefsStep ==
  ASSUME Finites, RefsExact, NEW p \in Procs,
         \A q \in Procs : q # p => pt'[q] = pt[q] /\ image'[q] = image[q],
         \A pa \in Pages :
            refcnt'[pa] = refcnt[pa]
                          - Cardinality(Row(pt[p], pa)) + Cardinality(Row(pt'[p], pa))
                          - Cardinality(Row(image[p], pa)) + Cardinality(Row(image'[p], pa))
  PROVE  RefsExact' /\ \A pa \in Pages : refcnt'[pa] \in Nat
<1> SUFFICES ASSUME NEW pa \in Pages
             PROVE  /\ refcnt'[pa] = Cardinality(Entries(pt', pa)) + Cardinality(Entries(image', pa))
                    /\ refcnt'[pa] \in Nat
  BY Zenon DEF RefsExact, Entries
<1>1. PICK a, b, c, d :
        /\ a = Cardinality(Row(pt[p], pa)) /\ b = Cardinality(Row(pt'[p], pa))
        /\ c = Cardinality(Row(image[p], pa)) /\ d = Cardinality(Row(image'[p], pa))
  OBVIOUS
<1>2. a \in Nat /\ b \in Nat /\ c \in Nat /\ d \in Nat
  BY <1>1, RowFinite, Zenon
<1>3. PICK x, y, u, v :
        /\ x = Cardinality(Entries(pt, pa)) /\ y = Cardinality(Entries(pt', pa))
        /\ u = Cardinality(Entries(image, pa)) /\ v = Cardinality(Entries(image', pa))
  OBVIOUS
<1>4. x \in Nat /\ y \in Nat /\ u \in Nat /\ v \in Nat
  BY <1>3, EntriesSplit, Zenon
<1>5. y = x - a + b
  <2>1. OnlyRow(pt, pt', p)
    BY Zenon DEF OnlyRow
  <2>2. ByRow(pt, pt', p, pa)
    BY <2>1, EntriesStep, Zenon
  <2> QED
    BY <1>1, <1>3, <2>2, Zenon DEF ByRow
<1>6. v = u - c + d
  <2>1. OnlyRow(image, image', p)
    BY Zenon DEF OnlyRow
  <2>2. ByRow(image, image', p, pa)
    BY <2>1, EntriesStep, Zenon
  <2> QED
    BY <1>1, <1>3, <2>2, Zenon DEF ByRow
<1>7. refcnt[pa] = x + u
  BY <1>3, Zenon DEF RefsExact
<1>8. refcnt'[pa] = refcnt[pa] - a + b - c + d
  BY <1>1, Zenon
<1>9. refcnt'[pa] = y + v /\ refcnt'[pa] \in Nat
  BY <1>2, <1>4, <1>5, <1>6, <1>7, <1>8
<1> QED
  BY <1>3, <1>9, Zenon

\* The case of a step that builds no image.
LEMMA RefsPt ==
  ASSUME Finites, RefsExact, NEW p \in Procs, image' = image, \A q \in Procs : q # p => pt'[q] = pt[q],
         \A pa \in Pages :
            refcnt'[pa] = refcnt[pa]
                          - Cardinality(Row(pt[p], pa)) + Cardinality(Row(pt'[p], pa))
  PROVE  RefsExact' /\ \A pa \in Pages : refcnt'[pa] \in Nat
<1>1. \A q \in Procs : q # p => pt'[q] = pt[q] /\ image'[q] = image[q]
  BY Zenon
<1>2. ASSUME NEW pa \in Pages
      PROVE  refcnt'[pa] = refcnt[pa]
                          - Cardinality(Row(pt[p], pa)) + Cardinality(Row(pt'[p], pa))
                          - Cardinality(Row(image[p], pa)) + Cardinality(Row(image'[p], pa))
  <2>1. PICK a, b, c, x, u : /\ a = Cardinality(Row(pt[p], pa))
                             /\ b = Cardinality(Row(pt'[p], pa))
                             /\ c = Cardinality(Row(image[p], pa))
                             /\ x = Cardinality(Entries(pt, pa))
                             /\ u = Cardinality(Entries(image, pa))
    OBVIOUS
  <2>2. a \in Nat /\ b \in Nat /\ c \in Nat /\ x \in Nat /\ u \in Nat
    BY <2>1, RowFinite, EntriesSplit, Zenon
  <2>3. refcnt[pa] = x + u /\ refcnt'[pa] = refcnt[pa] - a + b
    BY <1>2, <2>1, Zenon DEF RefsExact
  <2>4. refcnt'[pa] = refcnt[pa] - a + b - c + c
    BY <2>2, <2>3
  <2> QED
    BY <2>1, <2>4, Zenon
<1> QED
  BY <1>1, <1>2, RefsStep, Zenon

\* A page with one reference is mapped at one place.
LEMMA OneEntry ==
  ASSUME Finites, RefsExact, NEW pa \in Pages, refcnt[pa] = 1
  PROVE  /\ \A x, y \in Entries(pt, pa) : x = y
         /\ \A x, y \in Entries(image, pa) : x = y
         /\ Entries(pt, pa) = {} \/ Entries(image, pa) = {}
<1>1. PICK E, I : E = Entries(pt, pa) /\ I = Entries(image, pa)
  OBVIOUS
<1>2. IsFiniteSet(E) /\ IsFiniteSet(I)
  <2>1. E \in SUBSET (Procs \X VA) /\ I \in SUBSET (Procs \X VA)
    BY <1>1, Zenon DEF Entries
  <2> QED
    BY <2>1, FiniteSets, Zenon DEF Finites, Subsets
<1>3. Cardinality(E) \in Nat /\ Cardinality(I) \in Nat /\ 1 = Cardinality(E) + Cardinality(I)
  BY <1>1, <1>2, Zenon DEF Finites, Counted, RefsExact
<1>4. \/ Cardinality(E) = 0 /\ Cardinality(I) = 1
      \/ Cardinality(E) = 1 /\ Cardinality(I) = 0
  BY <1>3
<1>5. \/ E = {} /\ \E z : I = {z}
      \/ I = {} /\ \E z : E = {z}
  BY <1>2, <1>4, Zenon DEF Finites, EmptySet, Singletons
<1> QED
  BY <1>1, <1>5, Zenon

\* va lies in an area of p.
Within(p, va) == \E i \in Owned(p) : va \in Span(area[i])

\* HeapPrivate, and the same for the images of kexec.
Private ==
    /\ \A p \in Procs, va \in VA :
          pt[p][va] # None /\ ~Within(p, va) => refcnt[pt[p][va].pa] = 1
    /\ \A p \in Procs, va \in VA : image[p][va] # None => refcnt[image[p][va].pa] = 1

\* The reference counts of pages are right.
Counts == refcnt \in [Pages -> Nat] /\ RefsExact /\ Private

\* The page of an entry.
LEMMA EntryPage ==
  ASSUME Shape, NEW p \in Procs, NEW va \in VA
  PROVE  /\ pt[p][va] # None => pt[p][va].pa \in Pages
         /\ image[p][va] # None => image[p][va].pa \in Pages
<1>1. pt[p][va] # None => pt[p][va] \in PTE
  BY DEF Shape
<1>2. image[p][va] # None => image[p][va] \in PTE
  BY DEF Shape
<1>3. \A e \in PTE : e.pa \in Pages
  BY DEF PTE
<1> QED
  BY <1>1, <1>2, <1>3, Zenon

\* A step takes an area away only together with its pages.
Keeps == \A q \in Procs, w \in VA : pt'[q][w] # None /\ Within(q, w) => Within(q, w)'

\* No other entry of a page table maps the page at va of p.
Alone(p, va) ==
    \A q \in Procs, w \in VA :
       pt[q][w] # None /\ pt[q][w].pa = pt[p][va].pa => q = p /\ w = va

\* A page outside all areas of its process is mapped once.
LEMMA HeapAlone ==
  ASSUME Finites, Shape, Counts, NEW p \in Procs, NEW va \in VA, pt[p][va] # None, ~Within(p, va)
  PROVE  Alone(p, va)
<1>1. PICK pa \in Pages : pa = pt[p][va].pa
  BY EntryPage, Zenon
<1>2. refcnt[pa] = 1 /\ RefsExact
  BY <1>1, Zenon DEF Counts, Private
<1>3. \A x, y \in Entries(pt, pa) : x = y
  BY <1>2, OneEntry, Zenon
<1>4. <<p, va>> \in Entries(pt, pa)
  BY <1>1 DEF Entries
<1>5. ASSUME NEW q \in Procs, NEW w \in VA, pt[q][w] # None, pt[q][w].pa = pa
      PROVE  q = p /\ w = va
  <2>1. <<q, w>> \in Entries(pt, pa)
    BY <1>5 DEF Entries
  <2>2. <<q, w>> = <<p, va>>
    BY <1>3, <1>4, <2>1, Zenon
  <2> QED
    BY <2>2
<1> QED
  BY <1>1, <1>5, Zenon DEF Alone

\* A page of an image is in no page table.
LEMMA ImageAlone ==
  ASSUME Finites, Shape, Counts, NEW p \in Procs, NEW va \in VA, image[p][va] # None,
         NEW q \in Procs, NEW w \in VA, pt[q][w] # None
  PROVE  pt[q][w].pa # image[p][va].pa
<1>1. PICK pa \in Pages : pa = image[p][va].pa
  BY EntryPage, Zenon
<1>2. refcnt[pa] = 1 /\ RefsExact
  BY <1>1, Zenon DEF Counts, Private
<1>3. Entries(pt, pa) = {} \/ Entries(image, pa) = {}
  BY <1>2, OneEntry, Zenon
<1>4. <<p, va>> \in Entries(image, pa)
  BY <1>1 DEF Entries
<1> SUFFICES ASSUME pt[q][w].pa = pa
             PROVE  FALSE
  BY <1>1, Zenon
<1>5. <<q, w>> \in Entries(pt, pa)
  BY DEF Entries
<1> QED
  BY <1>3, <1>4, <1>5, Zenon

\* refcnt is a function to Nat when it counts entries.
LEMMA CountsType ==
  ASSUME \A pa \in Pages : refcnt'[pa] \in Nat, refcnt' = [pa \in Pages |-> refcnt'[pa]]
  PROVE  refcnt' \in [Pages -> Nat]
OBVIOUS

\* Steps that touch no page table.
LEMMA SameCounts ==
  ASSUME Counts, refcnt' = refcnt, pt' = pt, image' = image, Keeps
  PROVE  Counts'
<1>1. refcnt' \in [Pages -> Nat] /\ RefsExact'
  BY Zenon DEF Counts, RefsExact, Entries
<1>2. Private'
  BY Zenon DEF Counts, Private, Keeps
<1> QED
  BY <1>1, <1>2, Zenon DEF Counts

\* No area goes away.
LEMMA SameKeeps ==
  ASSUME area' = area
  PROVE  Keeps
BY Zenon DEF Keeps, Within, Owned

\* mmap_insert.
LEMMA AddKeeps ==
  ASSUME Shape, Firsts, FreeSlots # {}, NEW a \in Area,
         area' = [area EXCEPT ![First(FreeSlots)] = a]
  PROVE  Keeps
<1>1. PICK s : s = First(FreeSlots)
  OBVIOUS
<1>2. /\ area[s] = None
      /\ \A i \in Slots : i # s => area'[i] = area[i]
  BY <1>1, AreaAdded, Zenon
<1> QED
  BY <1>2, Zenon DEF Keeps, Within, Owned

\* kalloc and mappages: the new page has one reference.
LEMMA MapNewCounts ==
  ASSUME Finites, Shape, Counts, NEW p \in Procs, NEW va \in VA, NEW pa \in Pages, NEW perm \in Prot,
         pt[p][va] = None, MapNew(p, va, pa, perm), image' = image, Keeps
  PROVE  Counts'
<1>1. /\ \A q \in Procs : q # p => pt'[q] = pt[q]
      /\ \A w \in VA : w # va => pt'[p][w] = pt[p][w]
      /\ pt'[p][va] # None /\ pt'[p][va].pa = pa
  BY MapNewEntries
<1>2. /\ refcnt[pa] = 0 /\ refcnt'[pa] = 1
      /\ \A x \in Pages : x # pa => refcnt'[x] = refcnt[x]
      /\ refcnt' = [x \in Pages |-> refcnt'[x]]
      /\ \A x \in Pages : refcnt[x] \in Nat
  BY Zenon DEF Counts, MapNew, FreePages
<1>3. ASSUME NEW x \in Pages
      PROVE  refcnt'[x] = refcnt[x] - Cardinality(Row(pt[p], x)) + Cardinality(Row(pt'[p], x))
  <2>0. IsFiniteSet(Row(pt[p], x)) /\ Cardinality(Row(pt[p], x)) \in Nat
    BY RowFinite, Zenon
  <2>1. CASE x = pa
    <3>1. Row(pt'[p], x) = Row(pt[p], x) \cup {va} /\ va \notin Row(pt[p], x)
      BY <1>1, <2>1 DEF Row
    <3>2. Cardinality(Row(pt'[p], x)) = Cardinality(Row(pt[p], x)) + 1
      BY <2>0, <3>1, Zenon DEF Finites, AddElement
    <3> QED
      BY <1>2, <2>0, <2>1, <3>2
  <2>2. CASE x # pa
    <3>1. Row(pt'[p], x) = Row(pt[p], x)
      BY <1>1, <2>2, Zenon DEF Row
    <3> QED
      BY <1>2, <1>3, <2>0, <2>2, <3>1
  <2> QED
    BY <2>1, <2>2
<1>4. RefsExact' /\ \A x \in Pages : refcnt'[x] \in Nat
  <2>1. RefsExact
    BY DEF Counts
  <2> QED
    BY <1>1, <1>3, <2>1, RefsPt, Zenon
<1>5. \A x \in Pages : refcnt[x] = 1 => refcnt'[x] = 1
  BY <1>2
<1>6. Private'
  <2>1. ASSUME NEW q \in Procs, NEW w \in VA, pt'[q][w] # None, ~Within(q, w)'
        PROVE  refcnt'[pt'[q][w].pa] = 1
    <3>1. CASE q = p /\ w = va
      BY <1>1, <1>2, <3>1, Zenon
    <3>2. CASE ~(q = p /\ w = va)
      <4>1. pt'[q][w] = pt[q][w]
        BY <1>1, <3>2, Zenon
      <4>2. pt[q][w].pa \in Pages /\ refcnt[pt[q][w].pa] = 1
        BY <2>1, <4>1, EntryPage, Zenon DEF Counts, Private, Keeps
      <4> QED
        BY <1>5, <4>1, <4>2, Zenon
    <3> QED
      BY <3>1, <3>2
  <2>2. ASSUME NEW q \in Procs, NEW w \in VA, image'[q][w] # None
        PROVE  refcnt'[image'[q][w].pa] = 1
    <3>1. image[q][w].pa \in Pages /\ refcnt[image[q][w].pa] = 1
      BY <2>2, EntryPage, Zenon DEF Counts, Private
    <3> QED
      BY <1>5, <3>1, Zenon
  <2> QED
    BY <2>1, <2>2, Zenon DEF Private
<1>7. refcnt' \in [Pages -> Nat]
  BY <1>2, <1>4, CountsType, Zenon
<1> QED
  BY <1>4, <1>6, <1>7, Zenon DEF Counts

\* kfree of the pages of a range, by row.
LEMMA DroppedRow ==
  ASSUME NEW m, NEW vs, NEW count, NEW pa \in Pages
  PROVE  Dropped(m, vs, count)[pa] = count[pa] - Cardinality(Row(m, pa) \cap vs)
<1>1. {va \in vs \cap VA : m[va] # None /\ m[va].pa = pa} = Row(m, pa) \cap vs
  BY Zenon DEF Row
<1> QED
  BY <1>1, Zenon DEF Dropped

\* uvmunmap: a page loses as many references as entries.
LEMMA UvmunmapCounts ==
  ASSUME Finites, Shape, Counts, NEW p \in Procs, NEW vs, Uvmunmap(p, vs), image' = image,
         Keeps
  PROVE  Counts'
<1>1. /\ \A q \in Procs : q # p => pt'[q] = pt[q]
      /\ \A w \in VA : pt'[p][w] = IF w \in vs THEN None ELSE pt[p][w]
  BY UvmunmapEntries, Zenon
<1>2. /\ \A x \in Pages : refcnt'[x] = refcnt[x] - Cardinality(Row(pt[p], x) \cap vs)
      /\ refcnt' = [x \in Pages |-> refcnt'[x]]
      /\ \A x \in Pages : refcnt[x] \in Nat
  <2>1. refcnt' = Dropped(pt[p], vs, refcnt)
    BY Zenon DEF Uvmunmap
  <2>2. \A x \in Pages : refcnt'[x] = refcnt[x] - Cardinality(Row(pt[p], x) \cap vs)
    <3> TAKE x \in Pages
    <3>1. Dropped(pt[p], vs, refcnt)[x] = refcnt[x] - Cardinality(Row(pt[p], x) \cap vs)
      BY DroppedRow
    <3> QED
      BY <2>1, <3>1, Zenon
  <2>3. refcnt' = [x \in Pages |-> refcnt'[x]]
    BY <2>1 DEF Dropped
  <2> QED
    BY <2>2, <2>3 DEF Counts
<1>3. ASSUME NEW x \in Pages
      PROVE  refcnt'[x] = refcnt[x] - Cardinality(Row(pt[p], x)) + Cardinality(Row(pt'[p], x))
  <2>0. /\ IsFiniteSet(Row(pt[p], x)) /\ Cardinality(Row(pt[p], x)) \in Nat
        /\ Cardinality(Row(pt[p], x) \cap vs) \in Nat
    BY RowFinite, Zenon
  <2>1. Row(pt'[p], x) = Row(pt[p], x) \ vs
    BY <1>1, Zenon DEF Row
  <2>2. Cardinality(Row(pt'[p], x)) = Cardinality(Row(pt[p], x)) - Cardinality(Row(pt[p], x) \cap vs)
    BY <2>0, <2>1, Zenon DEF Finites, Differences
  <2> QED
    BY <1>2, <1>3, <2>0, <2>2
<1>4. RefsExact' /\ \A x \in Pages : refcnt'[x] \in Nat
  <2>1. RefsExact
    BY DEF Counts
  <2> QED
    BY <1>1, <1>3, <2>1, RefsPt, Zenon
<1>5. ASSUME NEW x \in Pages, Row(pt[p], x) \cap vs = {}
      PROVE  refcnt'[x] = refcnt[x]
  <2>1. Cardinality(Row(pt[p], x) \cap vs) = 0
    BY <1>5, Zenon DEF Finites, EmptySet
  <2> QED
    BY <1>2, <1>5, <2>1
<1>6. Private'
  <2>1. ASSUME NEW q \in Procs, NEW w \in VA, pt'[q][w] # None, ~Within(q, w)'
        PROVE  refcnt'[pt'[q][w].pa] = 1
    <3>0. ~Within(q, w)
      BY <2>1, Zenon DEF Keeps
    <3>1. pt'[q][w] = pt[q][w] /\ (q = p => w \notin vs)
      BY <1>1, <2>1, Zenon
    <3>2. pt[q][w].pa \in Pages /\ refcnt[pt[q][w].pa] = 1
      BY <2>1, <3>0, <3>1, EntryPage, Zenon DEF Counts, Private
    <3>3. ASSUME NEW u \in Row(pt[p], pt[q][w].pa), u \in vs
          PROVE  FALSE
      <4>1. u \in VA /\ pt[p][u] # None /\ pt[p][u].pa = pt[q][w].pa
        BY <3>3, Zenon DEF Row
      <4>2. p = q /\ u = w
        <5>1. pt[q][w] # None
          BY <2>1, <3>1, Zenon
        <5>2. Alone(q, w)
          BY <3>0, <5>1, HeapAlone, Zenon
        <5> QED
          BY <4>1, <5>2, Zenon DEF Alone
      <4> QED
        BY <3>1, <3>3, <4>2, Zenon
    <3>4. Row(pt[p], pt[q][w].pa) \cap vs = {}
      BY <3>3, Zenon
    <3> QED
      BY <1>5, <3>1, <3>2, <3>4, Zenon
  <2>2. ASSUME NEW q \in Procs, NEW w \in VA, image'[q][w] # None
        PROVE  refcnt'[image'[q][w].pa] = 1
    <3>1. image[q][w].pa \in Pages /\ refcnt[image[q][w].pa] = 1
      BY <2>2, EntryPage, Zenon DEF Counts, Private
    <3>2. Row(pt[p], image[q][w].pa) = {}
      BY <2>2, ImageAlone, Zenon DEF Row
    <3>3. Row(pt[p], image[q][w].pa) \cap vs = {}
      BY <3>2, Zenon
    <3> QED
      BY <1>5, <3>1, <3>3, Zenon
  <2> QED
    BY <2>1, <2>2, Zenon DEF Private
<1>7. refcnt' \in [Pages -> Nat]
  BY <1>2, <1>4, CountsType, Zenon
<1> QED
  BY <1>4, <1>6, <1>7, Zenon DEF Counts

\* uvmalloc's entries in an old page table r give the new one s.
Allocated(r, s, vs, m) ==
    \A w \in VA : IF w \in vs THEN r[w] = None /\ s[w] # None /\ s[w].pa = m[w] ELSE s[w] = r[w]

\* What uvmalloc does to the reference counts.
LEMMA TakenRow ==
  ASSUME Finites, Counts, NEW vs, vs \subseteq VA, NEW m \in Fill(vs), refcnt' = Taken(vs, m),
         NEW r, NEW s, Allocated(r, s, vs, m)
  PROVE  /\ \A x \in Pages :
               refcnt'[x] = refcnt[x] - Cardinality(Row(r, x)) + Cardinality(Row(s, x))
         /\ \A x \in Pages : refcnt[x] = 1 => refcnt'[x] = 1
         /\ \A w \in vs : refcnt'[m[w]] = 1
         /\ refcnt' = [x \in Pages |-> refcnt'[x]]
<1>1. \A x \in Pages : refcnt'[x] = IF \E w \in vs : m[w] = x THEN 1 ELSE refcnt[x]
  BY Zenon DEF Taken
<1>2. refcnt' = [x \in Pages |-> refcnt'[x]]
  BY DEF Taken
<1>3. \A w \in vs : m[w] \in Pages /\ refcnt[m[w]] = 0
  BY Zenon DEF Fill, FreePages
<1>4. \A v, w \in vs : m[v] = m[w] => v = w
  BY Zenon DEF Fill
<1>5. \A x \in Pages : refcnt[x] \in Nat
  BY DEF Counts
<1>6. ASSUME NEW x \in Pages
      PROVE  refcnt'[x] = refcnt[x] - Cardinality(Row(r, x)) + Cardinality(Row(s, x))
  <2>0. IsFiniteSet(Row(r, x)) /\ Cardinality(Row(r, x)) \in Nat
    BY RowFinite, Zenon
  <2>1. CASE \E w \in vs : m[w] = x
    <3>1. PICK va \in vs : m[va] = x
      BY <2>1
    <3>2. \A w \in VA : w \in Row(s, x) <=> w \in Row(r, x) \/ w = va
      <4> TAKE w \in VA
      <4>1. CASE w \in vs
        BY <1>4, <3>1, <4>1, Zenon DEF Allocated, Row
      <4>2. CASE w \notin vs
        BY <3>1, <4>2, Zenon DEF Allocated, Row
      <4> QED
        BY <4>1, <4>2
    <3>3. va \in VA /\ va \notin Row(r, x)
      BY <3>1, Zenon DEF Allocated, Row
    <3>4. Row(s, x) = Row(r, x) \cup {va}
      BY <3>2, <3>3, Zenon DEF Row
    <3>5. Cardinality(Row(s, x)) = Cardinality(Row(r, x)) + 1
      BY <2>0, <3>3, <3>4, Zenon DEF Finites, AddElement
    <3>6. refcnt[x] = 0 /\ refcnt'[x] = 1
      BY <1>1, <1>3, <1>6, <3>1, Zenon
    <3> QED
      BY <2>0, <3>5, <3>6
  <2>2. CASE ~ \E w \in vs : m[w] = x
    <3>1. \A w \in VA : w \in Row(s, x) <=> w \in Row(r, x)
      <4> TAKE w \in VA
      <4>1. CASE w \in vs
        BY <2>2, <4>1, Zenon DEF Allocated, Row
      <4>2. CASE w \notin vs
        BY <4>2, Zenon DEF Allocated, Row
      <4> QED
        BY <4>1, <4>2
    <3>2. Row(s, x) = Row(r, x)
      BY <3>1, Zenon DEF Row
    <3>3. refcnt'[x] = refcnt[x]
      BY <1>1, <1>6, <2>2, Zenon
    <3> QED
      BY <1>5, <1>6, <2>0, <3>2, <3>3
  <2> QED
    BY <2>1, <2>2
<1>7. \A x \in Pages : refcnt[x] = 1 => refcnt'[x] = 1
  BY <1>1, Zenon
<1>8. \A w \in vs : refcnt'[m[w]] = 1
  BY <1>1, <1>3, Zenon
<1> QED
  BY <1>2, <1>6, <1>7, <1>8, Zenon

\* growproc's uvmalloc.
LEMMA UvmallocCounts ==
  ASSUME Finites, Shape, Counts, NEW p \in Procs, NEW vs, vs \subseteq VA, NEW m \in Fill(vs),
         \A w \in vs : pt[p][w] = None, Uvmalloc(p, vs, m), image' = image, Keeps
  PROVE  Counts'
<1>1. /\ \A q \in Procs : q # p => pt'[q] = pt[q]
      /\ \A w \in VA : IF w \in vs THEN pt'[p][w] # None /\ pt'[p][w].pa = m[w]
                       ELSE pt'[p][w] = pt[p][w]
  BY UvmallocEntries, ZenonT(30)
<1>2. Allocated(pt[p], pt'[p], vs, m)
  BY <1>1, Zenon DEF Allocated
<1>3. refcnt' = Taken(vs, m) /\ RefsExact
  BY Zenon DEF Uvmalloc, Counts
<1>4. /\ \A x \in Pages :
               refcnt'[x] = refcnt[x] - Cardinality(Row(pt[p], x)) + Cardinality(Row(pt'[p], x))
      /\ \A x \in Pages : refcnt[x] = 1 => refcnt'[x] = 1
      /\ \A w \in vs : refcnt'[m[w]] = 1
      /\ refcnt' = [x \in Pages |-> refcnt'[x]]
  BY <1>2, <1>3, TakenRow
<1>5. RefsExact' /\ \A x \in Pages : refcnt'[x] \in Nat
  BY <1>1, <1>3, <1>4, RefsPt, Zenon
<1>6. Private'
  <2>1. ASSUME NEW q \in Procs, NEW w \in VA, pt'[q][w] # None, ~Within(q, w)'
        PROVE  refcnt'[pt'[q][w].pa] = 1
    <3>1. CASE q = p /\ w \in vs
      BY <1>1, <1>4, <3>1, ZenonT(30)
    <3>2. CASE ~(q = p /\ w \in vs)
      <4>1. pt'[q][w] = pt[q][w]
        BY <1>1, <3>2, Zenon
      <4>2. pt[q][w].pa \in Pages /\ refcnt[pt[q][w].pa] = 1
        BY <2>1, <4>1, EntryPage, Zenon DEF Counts, Private, Keeps
      <4> QED
        BY <1>4, <4>1, <4>2, Zenon
    <3> QED
      BY <3>1, <3>2
  <2>2. ASSUME NEW q \in Procs, NEW w \in VA, image'[q][w] # None
        PROVE  refcnt'[image'[q][w].pa] = 1
    <3>1. image[q][w].pa \in Pages /\ refcnt[image[q][w].pa] = 1
      BY <2>2, EntryPage, Zenon DEF Counts, Private
    <3> QED
      BY <1>4, <3>1, Zenon
  <2> QED
    BY <2>1, <2>2, Zenon DEF Private
<1>7. refcnt' \in [Pages -> Nat]
  BY <1>4, <1>5, CountsType, Zenon
<1> QED
  BY <1>5, <1>6, <1>7, Zenon DEF Counts

\* kexec's uvmalloc, in the image.
LEMMA ExecStartCounts ==
  ASSUME Finites, Layout, Counts, NEW p \in Procs, NEW n \in 1 .. PGSIZE * HeapPages, ExecStart(p, n)
  PROVE  Counts'
<1>s. Shape /\ Images(p) /\ pc[p] = "user"
  BY Zenon DEF Layout, Lay, ExecStart, InUser
<1>1. PICK vs, m, r :
         /\ vs = NewPages(0, n) /\ m \in Fill(vs) /\ refcnt' = Taken(vs, m)
         /\ r = [va \in VA |-> IF va \notin vs THEN None
                               ELSE [pa |-> m[va], perm |-> IF va = 0 THEN "R" ELSE "RW"]]
         /\ image' = [image EXCEPT ![p] = r] /\ pt' = pt
  BY Zenon DEF ExecStart
<1>2. image'[p] = r /\ \A q \in Procs : q # p => image'[q] = image[q]
  BY <1>s, <1>1 DEF Shape
<1>3. \A w \in VA : image[p][w] = None
  BY <1>s, Zenon DEF Images
<1>4. vs \subseteq VA
  <2>1. n \in Nat /\ n <= PGSIZE * HeapPages
    BY MmapAssumption DEF PGSIZE
  <2>2. PageUp(0) \in Nat /\ PageUp(n) \in Nat /\ PageUp(n) <= HeapPages
    BY <2>1, PageUpFacts
  <2> QED
    BY <1>1, <2>2, MmapAssumption DEF NewPages, VA, TRAPFRAME
<1>5. Allocated(image[p], image'[p], vs, m)
  <2> SUFFICES ASSUME NEW w \in VA
               PROVE  IF w \in vs THEN r[w] # None /\ r[w].pa = m[w] ELSE r[w] = None
    BY <1>2, <1>3, Zenon DEF Allocated
  <2>1. CASE w \in vs
    <3>1. m[w] \in Pages
      BY <1>1, <2>1, Zenon DEF Fill, FreePages
    <3>2. r[w] = [pa |-> m[w], perm |-> IF w = 0 THEN "R" ELSE "RW"]
      BY <1>1, <2>1
    <3>3. r[w] \in PTE /\ r[w].pa = m[w]
      BY <3>1, <3>2 DEF PTE, Prot
    <3> QED
      BY <2>1, <3>3, MmapAssumption, Zenon
  <2>2. CASE w \notin vs
    BY <1>1, <2>2
  <2> QED
    BY <2>1, <2>2
<1>6. /\ \A x \in Pages :
           refcnt'[x] = refcnt[x] - Cardinality(Row(image[p], x)) + Cardinality(Row(image'[p], x))
      /\ \A x \in Pages : refcnt[x] = 1 => refcnt'[x] = 1
      /\ \A w \in vs : refcnt'[m[w]] = 1
      /\ refcnt' = [x \in Pages |-> refcnt'[x]]
  BY <1>1, <1>4, <1>5, TakenRow
<1>7. RefsExact' /\ \A x \in Pages : refcnt'[x] \in Nat
  <2>1. ASSUME NEW x \in Pages
        PROVE  refcnt'[x] = refcnt[x]
                          - Cardinality(Row(pt[p], x)) + Cardinality(Row(pt'[p], x))
                          - Cardinality(Row(image[p], x)) + Cardinality(Row(image'[p], x))
    <3>1. PICK a, b, c : /\ a = Cardinality(Row(pt[p], x)) /\ b = Cardinality(Row(image[p], x))
                         /\ c = Cardinality(Row(image'[p], x))
      OBVIOUS
    <3>2. a \in Nat /\ b \in Nat /\ c \in Nat
      BY <3>1, RowFinite, Zenon
    <3>3. refcnt[x] \in Nat /\ refcnt'[x] = refcnt[x] - b + c
      BY <1>6, <2>1, <3>1, Zenon DEF Counts
    <3>4. refcnt'[x] = refcnt[x] - a + a - b + c
      BY <3>2, <3>3
    <3> QED
      BY <1>1, <3>1, <3>4, Zenon
  <2>2. \A q \in Procs : q # p => pt'[q] = pt[q] /\ image'[q] = image[q]
    BY <1>1, <1>2, Zenon
  <2>3. RefsExact
    BY DEF Counts
  <2> QED
    BY <2>1, <2>2, <2>3, RefsStep, Zenon
<1>k. Keeps
  BY SameKeeps, Zenon DEF ExecStart
<1>8. Private'
  <2>1. ASSUME NEW q \in Procs, NEW w \in VA, pt'[q][w] # None, ~Within(q, w)'
        PROVE  refcnt'[pt'[q][w].pa] = 1
    <3>1. pt[q][w].pa \in Pages /\ refcnt[pt[q][w].pa] = 1
      BY <1>1, <1>k, <1>s, <2>1, EntryPage, Zenon DEF Counts, Private, Keeps
    <3> QED
      BY <1>1, <1>6, <3>1, Zenon
  <2>2. ASSUME NEW q \in Procs, NEW w \in VA, image'[q][w] # None
        PROVE  refcnt'[image'[q][w].pa] = 1
    <3>1. CASE q = p
      BY <1>3, <1>5, <1>6, <2>2, <3>1, Zenon DEF Allocated
    <3>2. CASE q # p
      <4>1. image'[q] = image[q]
        BY <1>2, <3>2, Zenon
      <4>2. image[q][w].pa \in Pages /\ refcnt[image[q][w].pa] = 1
        BY <1>s, <2>2, <4>1, EntryPage, Zenon DEF Counts, Private
      <4> QED
        BY <1>6, <4>1, <4>2, Zenon
    <3> QED
      BY <3>1, <3>2
  <2> QED
    BY <2>1, <2>2, Zenon DEF Private
<1>9. refcnt' \in [Pages -> Nat]
  BY <1>6, <1>7, CountsType, Zenon
<1> QED
  BY <1>7, <1>8, <1>9, Zenon DEF Counts

\* kexec frees the old heap and takes the image, whose pages keep their counts.
LEMMA ExecEndCounts ==
  ASSUME Finites, Layout, Counts, NEW p \in Procs, ExecEnd(p)
  PROVE  Counts'
<1>s. Shape /\ Covers(p) /\ Sound(p) /\ pc[p] = "exec" /\ Owned(p) = {} /\ RefsExact
  BY Zenon DEF Layout, Lay, ExecEnd, Counts
<1>1. /\ pt'[p] = image[p] /\ \A q \in Procs : q # p => pt'[q] = pt[q]
      /\ image'[p] = NoMap /\ \A q \in Procs : q # p => image'[q] = image[q]
  BY <1>s DEF ExecEnd, Shape
<1>2. \A w \in VA : pt[p][w] # None => w \in Heap(p)
  <2>1. state[p] # "USED"
    BY <1>s, Zenon DEF Sound
  <2>2. \A w \in VA : pt[p][w] # None => w < PageUp(sz[p])
    BY <1>s, <2>1, Zenon DEF Covers
  <2>3. sz[p] \in Nat
    BY <1>s, MmapAssumption DEF Shape, PGSIZE
  <2>4. PageUp(sz[p]) \in Nat
    BY <2>3, PageUpFacts, Zenon
  <2> QED
    BY <2>2, <2>4, Addresses DEF Heap
<1>3. /\ \A x \in Pages : refcnt'[x] = refcnt[x] - Cardinality(Row(pt[p], x))
      /\ refcnt' = [x \in Pages |-> refcnt'[x]]
  <2>1. refcnt' = Dropped(pt[p], Heap(p), refcnt)
    BY Zenon DEF ExecEnd
  <2>2. \A x \in Pages : refcnt'[x] = refcnt[x] - Cardinality(Row(pt[p], x))
    <3> TAKE x \in Pages
    <3>1. Dropped(pt[p], Heap(p), refcnt)[x]
            = refcnt[x] - Cardinality(Row(pt[p], x) \cap Heap(p))
      BY DroppedRow
    <3>2. Row(pt[p], x) \cap Heap(p) = Row(pt[p], x)
      BY <1>2, Zenon DEF Row
    <3> QED
      BY <2>1, <3>1, <3>2, Zenon
  <2>3. refcnt' = [x \in Pages |-> refcnt'[x]]
    BY <2>1 DEF Dropped
  <2> QED
    BY <2>2, <2>3
<1>4. ASSUME NEW x \in Pages
      PROVE  refcnt'[x] = refcnt[x]
                        - Cardinality(Row(pt[p], x)) + Cardinality(Row(pt'[p], x))
                        - Cardinality(Row(image[p], x)) + Cardinality(Row(image'[p], x))
  <2>1. PICK a, b, c, d :
          /\ a = Cardinality(Row(pt[p], x)) /\ b = Cardinality(Row(pt'[p], x))
          /\ c = Cardinality(Row(image[p], x)) /\ d = Cardinality(Row(image'[p], x))
    OBVIOUS
  <2>2. a \in Nat /\ b \in Nat
    BY <2>1, RowFinite, Zenon
  <2>3. c = b
    BY <1>1, <2>1, Zenon
  <2>4. Row(image'[p], x) = {}
    BY <1>1, NoMapFacts, Zenon DEF Row
  <2>5. d = 0
    BY <2>1, <2>4, Zenon DEF Finites, EmptySet
  <2>6. refcnt[x] \in Nat /\ refcnt'[x] = refcnt[x] - a
    BY <1>3, <1>4, <2>1, Zenon DEF Counts
  <2>7. refcnt'[x] = refcnt[x] - a + b - c + d
    BY <2>2, <2>3, <2>5, <2>6
  <2> QED
    BY <2>1, <2>7, Zenon
<1>5. RefsExact' /\ \A x \in Pages : refcnt'[x] \in Nat
  BY <1>s, <1>1, <1>4, RefsStep, Zenon
<1>6. ASSUME NEW x \in Pages, \A w \in VA : pt[p][w] # None => pt[p][w].pa # x
      PROVE  refcnt'[x] = refcnt[x]
  <2>1. Row(pt[p], x) = {}
    BY <1>6, Zenon DEF Row
  <2>2. Cardinality(Row(pt[p], x)) = 0
    BY <2>1, Zenon DEF Finites, EmptySet
  <2> QED
    BY <1>3, <1>6, <2>2 DEF Counts
<1>7. ASSUME NEW q \in Procs, NEW w \in VA, image[q][w] # None
      PROVE  refcnt'[image[q][w].pa] = 1
  <2>1. image[q][w].pa \in Pages /\ refcnt[image[q][w].pa] = 1
    BY <1>s, <1>7, EntryPage, Zenon DEF Counts, Private
  <2>2. \A v \in VA : pt[p][v] # None => pt[p][v].pa # image[q][w].pa
    BY <1>s, <1>7, ImageAlone, Zenon
  <2> QED
    BY <1>6, <2>1, <2>2, Zenon
<1>k. Keeps
  BY SameKeeps, Zenon DEF ExecEnd
<1>8. Private'
  <2>1. ASSUME NEW q \in Procs, NEW w \in VA, pt'[q][w] # None, ~Within(q, w)'
        PROVE  refcnt'[pt'[q][w].pa] = 1
    <3>1. CASE q = p
      <4>1. pt'[q][w] = image[p][w] /\ image[p][w] # None
        BY <1>1, <2>1, <3>1, Zenon
      <4> QED
        BY <1>7, <4>1, Zenon
    <3>2. CASE q # p
      <4>0. pt'[q] = pt[q] /\ ~Within(q, w)
        BY <1>1, <1>k, <2>1, <3>2, Zenon DEF Keeps
      <4>1. pt[q][w].pa \in Pages /\ refcnt[pt[q][w].pa] = 1
        BY <1>s, <2>1, <4>0, EntryPage, Zenon DEF Counts, Private
      <4>2. ASSUME NEW v \in VA, pt[p][v] # None
            PROVE  pt[p][v].pa # pt[q][w].pa
        <5>1. pt[q][w] # None /\ Shape
          BY <1>s, <2>1, <4>0, Zenon
        <5>2. Alone(q, w)
          BY <4>0, <5>1, HeapAlone, Zenon
        <5> QED
          BY <3>2, <4>2, <5>2, Zenon DEF Alone
      <4> QED
        BY <1>6, <4>0, <4>1, <4>2, Zenon
    <3> QED
      BY <3>1, <3>2
  <2>2. ASSUME NEW q \in Procs, NEW w \in VA, image'[q][w] # None
        PROVE  refcnt'[image'[q][w].pa] = 1
    <3>1. image'[q][w] = image[q][w] /\ image[q][w] # None
      BY <1>1, <2>2, NoMapFacts, Zenon
    <3> QED
      BY <1>7, <3>1, Zenon
  <2> QED
    BY <2>1, <2>2, Zenon DEF Private
<1>9. refcnt' \in [Pages -> Nat]
  BY <1>3, <1>5, CountsType, Zenon
<1> QED
  BY <1>5, <1>8, <1>9, Zenon DEF Counts

\* mmap_copy_pages: kaddref counts the entries that the child gets.
LEMMA MmapforkAreaCounts ==
  ASSUME Finites, Layout, Firsts, Counts, NEW p \in Procs, MmapforkArea(p)
  PROVE  Counts'
<1>c. PICK c, i, shared : /\ c = child[p] /\ i = First(ToCopy(p))
                          /\ shared = {va \in Span(area[i]) \cap VA : pt[p][va] # None}
  BY Zenon
<1>s. Shape /\ pc[p] = "mmapfork" /\ ToCopy(p) # {} /\ RefsExact
  BY Zenon DEF Layout, MmapforkArea, Counts
<1>f. c \in Procs /\ c # p
  <2>1. InFork(p, c)
    BY <1>c, <1>s, ForkFacts, Zenon
  <2> QED
    BY <2>1, Zenon DEF InFork
<1>1. i \in Owned(p) /\ area[i] \in Area
  BY <1>c, <1>s, ToCopyFirst, Zenon
<1>2. \A w \in shared : w \in VA /\ Within(p, w) /\ pt[p][w] # None /\ pt[c][w] = None
  <2>1. \A w \in shared : w \in VA /\ Within(p, w) /\ pt[p][w] # None
    BY <1>c, <1>1, Zenon DEF Within
  <2>2. ~Remap(p)
    BY Zenon DEF MmapforkArea
  <2>3. \A w \in shared : pt[c][w] = None
    BY <1>c, <2>2, Zenon DEF Remap
  <2> QED
    BY <2>1, <2>3, Zenon
<1>k. Keeps /\ \A w \in shared : Within(c, w)'
  <2>1. PICK s, b : s = First(FreeSlots) /\ b = [area[i] EXCEPT !.p = c]
    BY Zenon
  <2>2. FreeSlots # {} /\ area' = [area EXCEPT ![First(FreeSlots)] = b]
    BY <1>c, <2>1, Zenon DEF MmapforkArea
  <2>3. b \in Area /\ b.p = c /\ Span(b) = Span(area[i])
    BY <1>1, <1>f, <2>1, CopyOfArea
  <2>4. Keeps
    BY <1>s, <2>2, <2>3, AddKeeps, Zenon
  <2>5. Owned(c)' = Owned(c) \cup {s} /\ area'[s] = b
    BY <1>s, <2>1, <2>2, <2>3, AreaAdded, Zenon
  <2> QED
    BY <1>c, <2>3, <2>4, <2>5, Zenon DEF Within
<1>3. /\ refcnt' = Kaddref(p, shared) /\ image' = image
      /\ pt' = [pt EXCEPT ![c] = [va \in VA |-> IF va \in shared THEN pt[p][va] ELSE pt[c][va]]]
  <2>1. pt' = [pt EXCEPT ![child[p]] = [va \in VA |-> IF va \in shared THEN pt[p][va] ELSE @[va]]]
    BY <1>c, Zenon DEF MmapforkArea
  <2>2. pt' = [pt EXCEPT ![c] = [va \in VA |-> IF va \in shared THEN pt[p][va] ELSE pt[c][va]]]
    BY <1>c, <1>f, <1>s, <2>1 DEF Shape
  <2> QED
    BY <1>c, <2>2, Zenon DEF MmapforkArea
<1>4. /\ \A q \in Procs : q # c => pt'[q] = pt[q]
      /\ \A w \in VA : pt'[c][w] = IF w \in shared THEN pt[p][w] ELSE pt[c][w]
  BY <1>3, <1>f, <1>s DEF Shape
<1>5. /\ \A x \in Pages : refcnt'[x] = refcnt[x] + Cardinality({va \in shared : pt[p][va].pa = x})
      /\ refcnt' = [x \in Pages |-> refcnt'[x]]
      /\ \A x \in Pages : refcnt[x] \in Nat
  BY <1>3 DEF Kaddref, Counts
<1>6. ASSUME NEW x \in Pages
      PROVE  refcnt'[x] = refcnt[x] - Cardinality(Row(pt[c], x)) + Cardinality(Row(pt'[c], x))
  <2>1. PICK G, R : G = {va \in shared : pt[p][va].pa = x} /\ R = Row(pt[c], x)
    BY Zenon
  <2>2. Row(pt'[c], x) = R \cup G
    BY <1>2, <1>4, <2>1, Zenon DEF Row
  <2>3. R \cap G = {}
    BY <1>2, <2>1, Zenon DEF Row
  <2>4. IsFiniteSet(R) /\ Cardinality(R) \in Nat
    BY <2>1, RowFinite, Zenon
  <2>5. IsFiniteSet(G) /\ Cardinality(G) \in Nat
    <3>1. G \in SUBSET VA
      BY <1>2, <2>1, Zenon
    <3> QED
      BY <3>1, FiniteSets, Zenon DEF Finites, Counted, Subsets
  <2>6. Cardinality(R \cap G) = 0
    BY <2>3, Zenon DEF Finites, EmptySet
  <2>7. Cardinality(R \cup G) = Cardinality(R) + Cardinality(G) - Cardinality(R \cap G)
    BY <2>4, <2>5, Zenon DEF Finites, Unions
  <2>8. refcnt'[x] = refcnt[x] + Cardinality(G) /\ refcnt[x] \in Nat
    BY <1>5, <1>6, <2>1, Zenon
  <2>9. refcnt'[x] = refcnt[x] - Cardinality(R) + Cardinality(R \cup G)
    BY <2>4, <2>5, <2>6, <2>7, <2>8
  <2> QED
    BY <2>1, <2>2, <2>9, Zenon
<1>7. RefsExact' /\ \A x \in Pages : refcnt'[x] \in Nat
  BY <1>s, <1>f, <1>3, <1>4, <1>6, RefsPt, Zenon
<1>8. ASSUME NEW x \in Pages, \A w \in shared : pt[p][w].pa # x
      PROVE  refcnt'[x] = refcnt[x]
  <2>1. {va \in shared : pt[p][va].pa = x} = {}
    BY <1>8, Zenon
  <2>2. Cardinality({va \in shared : pt[p][va].pa = x}) = 0
    BY <2>1, Zenon DEF Finites, EmptySet
  <2> QED
    BY <1>5, <1>8, <2>2
<1>9. Private'
  <2>1. ASSUME NEW q \in Procs, NEW w \in VA, pt'[q][w] # None, ~Within(q, w)'
        PROVE  refcnt'[pt'[q][w].pa] = 1
    <3>0. ~Within(q, w)
      BY <1>k, <2>1, Zenon DEF Keeps
    <3>1. pt'[q][w] = pt[q][w]
      BY <1>4, <1>k, <2>1, Zenon
    <3>2. pt[q][w].pa \in Pages /\ refcnt[pt[q][w].pa] = 1
      BY <1>s, <2>1, <3>0, <3>1, EntryPage, Zenon DEF Counts, Private
    <3>3. ASSUME NEW v \in shared, pt[p][v].pa = pt[q][w].pa
          PROVE  FALSE
      <4>1. p = q /\ v = w
        <5>1. pt[q][w] # None /\ Shape /\ v \in VA /\ pt[p][v] # None
          BY <1>s, <1>2, <2>1, <3>1, <3>3, Zenon
        <5>2. Alone(q, w)
          BY <3>0, <5>1, HeapAlone, Zenon
        <5> QED
          BY <3>3, <5>1, <5>2, Zenon DEF Alone
      <4> QED
        BY <1>2, <3>0, <3>3, <4>1, Zenon
    <3> QED
      BY <1>8, <3>1, <3>2, <3>3, Zenon
  <2>2. ASSUME NEW q \in Procs, NEW w \in VA, image'[q][w] # None
        PROVE  refcnt'[image'[q][w].pa] = 1
    <3>1. image[q][w] # None /\ image'[q][w] = image[q][w]
      BY <1>3, <2>2, Zenon
    <3>2. image[q][w].pa \in Pages /\ refcnt[image[q][w].pa] = 1
      BY <1>s, <3>1, EntryPage, Zenon DEF Counts, Private
    <3>3. \A v \in shared : pt[p][v].pa # image[q][w].pa
      BY <1>s, <1>2, <3>1, ImageAlone, ZenonT(30)
    <3> QED
      BY <1>8, <3>1, <3>2, <3>3, Zenon
  <2> QED
    BY <2>1, <2>2, Zenon DEF Private
<1>10. refcnt' \in [Pages -> Nat]
  BY <1>5, <1>7, CountsType, Zenon
<1> QED
  BY <1>7, <1>9, <1>10, Zenon DEF Counts

\* growproc's new pages are where the process has none.
LEMMA GrowCounts ==
  ASSUME Finites, Layout, Counts, NEW p \in Procs, NEW n \in 1 .. PGSIZE * HeapPages, Grow(p, n)
  PROVE  Counts'
<1>0. PICK vs, t : vs = NewPages(sz[p], sz[p] + n) /\ t = sz[p] + n
  OBVIOUS
<1>1. /\ InUser(p) /\ t <= PGSIZE * HeapPages /\ image' = image
      /\ InTheWay(p, vs) = {} /\ area' = area
      /\ \E m \in Fill(vs) : Uvmalloc(p, vs, m)
  BY <1>0 DEF Grow, MMAPBASE
<1>2. sz[p] \in Nat
  BY Sizes, Zenon
<1>3. t \in Nat
  BY <1>0, <1>2, MmapAssumption DEF PGSIZE
<1>4. PageUp(sz[p]) \in Nat /\ PageUp(t) \in Nat /\ PageUp(t) <= HeapPages
  BY <1>1, <1>2, <1>3, PageUpFacts, Zenon
<1>5. \A w \in vs : w \in VA
  BY <1>0, <1>4, MmapAssumption DEF NewPages, VA, TRAPFRAME
<1>6. \A w \in vs : pt[p][w] = None
  BY <1>1, Zenon DEF InTheWay
<1>7. Shape /\ vs \subseteq VA /\ Keeps
  BY <1>1, <1>5, SameKeeps, Zenon DEF Layout
<1> QED
  BY <1>1, <1>6, <1>7, UvmallocCounts

\* A fault and MAP_POPULATE enter a page where there is none.
LEMMA FaultCounts ==
  ASSUME Finites, Layout, Firsts, Counts, NEW p \in Procs, NEW va \in VA, NEW pa \in Pages,
         (\E read \in BOOLEAN : FaultMmap(p, va, pa, read)) \/ FaultHeap(p, va, pa)
  PROVE  Counts'
<1>s. Shape /\ Keeps
  BY SameKeeps, Zenon DEF Layout, FaultMmap, FaultHeap
<1>1. PICK perm \in Prot : MapNew(p, va, pa, perm) /\ pt[p][va] = None /\ image' = image
  <2>1. CASE FaultHeap(p, va, pa)
    <3>1. "RW" \in Prot
      BY DEF Prot
    <3> QED
      BY <2>1, <3>1, Zenon DEF FaultHeap
  <2>2. CASE \E read \in BOOLEAN : FaultMmap(p, va, pa, read)
    <3>1. /\ Covering(p, va) # {} /\ MapNew(p, va, pa, area[First(Covering(p, va))].prot)
          /\ pt[p][va] = None /\ image' = image
      BY <2>2, Zenon DEF FaultMmap
    <3>2. Covering(p, va) \in SUBSET Nat
      BY SlotsNat, Zenon DEF Covering, Owned
    <3>3. First(Covering(p, va)) \in Covering(p, va)
      BY <3>1, <3>2, Zenon DEF Firsts
    <3>4. area[First(Covering(p, va))] \in Area
      BY <1>s, <3>3, Zenon DEF Covering, Owned, Shape
    <3>5. area[First(Covering(p, va))].prot \in Prot
      BY <3>4, Zenon DEF Area
    <3> QED
      BY <3>1, <3>5, Zenon
  <2> QED
    BY <2>1, <2>2
<1> QED
  BY <1>s, <1>1, MapNewCounts, Zenon

\* MAP_POPULATE stops at a page that is mapped already.
LEMMA PopulatePageCounts ==
  ASSUME Finites, Layout, Counts, NEW p \in Procs, NEW pa \in Pages, PopulatePage(p, pa)
  PROVE  Counts'
<1>s. Shape /\ Sound(p) /\ Keeps
  BY SameKeeps, Zenon DEF Layout, Lay, PopulatePage
<1>1. PICK i \in Owned(p) : area[i] = cur[p]
  BY <1>s, Zenon DEF Sound, PopulatePage
<1>2. area[i] \in Area /\ idx[p] \in VA
  BY <1>s, <1>1, Zenon DEF PopulatePage, Owned, Shape
<1>3. cur[p].prot \in Prot
  BY <1>1, <1>2, Zenon DEF Area
<1> QED
  BY <1>s, <1>2, <1>3, MapNewCounts, Zenon DEF PopulatePage

\* uvmcopy's copies are new pages.
LEMMA UvmcopyPageCounts ==
  ASSUME Finites, Layout, Counts, NEW p \in Procs, NEW pa \in Pages, UvmcopyPage(p, pa)
  PROVE  Counts'
<1>c. PICK c, k : c = child[p] /\ k = idx[p]
  OBVIOUS
<1>s. Shape /\ pc[p] = "uvmcopy" /\ image' = image /\ k * PGSIZE < sz[p] /\ Keeps
  BY <1>c, SameKeeps, Zenon DEF Layout, UvmcopyPage
<1>f. c \in Procs /\ CopiesHeap(p, c)
  <2>1. InFork(p, c)
    BY <1>c, <1>s, ForkFacts, Zenon
  <2> QED
    BY <2>1, Zenon DEF InFork
<1>1. k \in VA /\ ~(k < idx[p])
  <2>1. k \in Nat /\ sz[p] \in Nat /\ sz[p] <= PGSIZE * HeapPages
    BY <1>c, <1>s, MmapAssumption DEF Shape, PGSIZE
  <2>2. PageUp(sz[p]) <= HeapPages /\ PageUp(sz[p]) \in Nat /\ k < PageUp(sz[p])
    BY <1>s, <2>1, PageUpFacts
  <2> QED
    BY <1>c, <2>1, <2>2, MmapAssumption DEF VA, TRAPFRAME
<1>2. pt[c][k] = None
  BY <1>f, <1>s, <1>1, Zenon DEF CopiesHeap
<1>3. CASE pt[p][k] = None
  BY <1>c, <1>s, <1>3, SameCounts, Zenon DEF UvmcopyPage
<1>4. CASE pt[p][k] # None
  <2>1. MapNew(c, k, pa, pt[p][k].perm)
    BY <1>c, <1>4, Zenon DEF UvmcopyPage
  <2>2. pt[p][k].perm \in Prot
    <3>1. pt[p][k] \in PTE
      BY <1>s, <1>1, <1>4 DEF Shape
    <3> QED
      BY <3>1, Zenon DEF PTE
  <2> QED
    BY <1>f, <1>s, <1>1, <1>2, <2>1, <2>2, MapNewCounts, Zenon
<1> QED
  BY <1>3, <1>4

\* munmap and mmapfreeproc unmap the area they take.
LEMMA TakeKeeps ==
  ASSUME Shape, NEW p \in Procs, NEW i \in Owned(p), TakeArea(p, i)
  PROVE  Keeps
<1>1. /\ \A q \in Procs : q # p => pt'[q] = pt[q]
      /\ \A w \in VA : pt'[p][w] = IF w \in Span(area[i]) THEN None ELSE pt[p][w]
  BY UvmunmapEntries, Zenon DEF TakeArea
<1>2. \A j \in Slots : j # i => area'[j] = area[j]
  BY Zenon DEF Shape, TakeArea
<1>3. ASSUME NEW q \in Procs, NEW w \in VA, pt'[q][w] # None, NEW j \in Owned(q), w \in Span(area[j])
      PROVE  j \in Owned(q)' /\ area'[j] = area[j]
  <2>1. j # i
    BY <1>1, <1>3, Zenon DEF Owned
  <2> QED
    BY <1>2, <1>3, <2>1, Zenon DEF Owned
<1> QED
  BY <1>3, Zenon DEF Keeps, Within

\* freeproc unmaps all areas of the slot.
LEMMA FreeKeeps ==
  ASSUME Shape, NEW c \in Procs, NEW vs, Freeproc(c, vs)
  PROVE  Keeps
<1>1. PICK all : all = vs \cup Heap(c) \cup UNION {Span(area[i]) : i \in Owned(c)}
  BY Zenon
<1>2. /\ \A q \in Procs : q # c => pt'[q] = pt[q]
      /\ \A w \in VA : pt'[c][w] = IF w \in all THEN None ELSE pt[c][w]
  <2>1. Uvmunmap(c, all)
    BY <1>1, Zenon DEF Freeproc
  <2> QED
    BY <2>1, UvmunmapEntries, Zenon
<1>3. \A w \in VA, j \in Owned(c) : w \in Span(area[j]) => pt'[c][w] = None
  BY <1>1, <1>2, Zenon
<1>4. \A i \in Slots : area'[i] = IF i \in Owned(c) THEN None ELSE area[i]
  BY Zenon DEF Freeproc
<1>5. ASSUME NEW q \in Procs, NEW w \in VA, pt'[q][w] # None, NEW j \in Owned(q), w \in Span(area[j])
      PROVE  j \in Owned(q)' /\ area'[j] = area[j]
  <2>1. j \notin Owned(c)
    BY <1>3, <1>5, Zenon DEF Owned
  <2> QED
    BY <1>4, <1>5, <2>1, Zenon DEF Owned
<1> QED
  BY <1>5, Zenon DEF Keeps, Within

\* munmap, exit, exec and growproc unmap; so does freeproc.
LEMMA UnmapCounts ==
  ASSUME Finites, Layout, Firsts, Counts, NEW p \in Procs,
         \/ \E addr \in 0 .. MAXVA : Kmunmap(p, addr)
         \/ \E n \in 1 .. PGSIZE * HeapPages : Shrink(p, n)
         \/ MmapfreeArea(p) \/ Reap(p) \/ UvmcopyFail(p) \/ MmapforkFail(p)
  PROVE  Counts'
<1>s. Shape
  BY Zenon DEF Layout
<1>1. PICK q \in Procs : (\E vs : Uvmunmap(q, vs)) /\ image' = image /\ Keeps
  <2>1. CASE UvmcopyFail(p) \/ MmapforkFail(p)
    <3>1. pc[p] \in {"uvmcopy", "mmapfork"}
      BY <2>1, Zenon DEF UvmcopyFail, MmapforkFail
    <3>2. InFork(p, child[p])
      BY <3>1, ForkFacts, Zenon
    <3>3. child[p] \in Procs
      BY <3>2, Zenon DEF InFork
    <3>4. PICK vs : Freeproc(child[p], vs) /\ image' = image
      BY <2>1, Zenon DEF UvmcopyFail, MmapforkFail, ForkFail
    <3>5. Keeps
      BY <1>s, <3>3, <3>4, FreeKeeps, Zenon
    <3> QED
      BY <3>3, <3>4, <3>5, Zenon DEF Freeproc
  <2>2. CASE Reap(p)
    <3>1. Freeproc(p, {}) /\ image' = image
      BY <2>2, Zenon DEF Reap
    <3>2. Keeps
      BY <1>s, <3>1, FreeKeeps, Zenon
    <3> QED
      BY <3>1, <3>2, Zenon DEF Freeproc
  <2>3. CASE MmapfreeArea(p) \/ \E addr \in 0 .. MAXVA : Kmunmap(p, addr)
    <3>1. PICK S : S \subseteq Owned(p) /\ S # {} /\ TakeArea(p, First(S)) /\ image' = image
      BY <2>3, Zenon DEF Kmunmap, MmapfreeArea, Starts
    <3>2. S \in SUBSET Nat
      BY <3>1, SlotsNat, Zenon DEF Owned
    <3>3. First(S) \in Owned(p)
      BY <3>1, <3>2, Zenon DEF Firsts
    <3>4. Keeps
      BY <1>s, <3>1, <3>3, TakeKeeps, Zenon
    <3> QED
      BY <3>1, <3>4, Zenon DEF TakeArea
  <2>4. CASE \E n \in 1 .. PGSIZE * HeapPages : Shrink(p, n)
    <3>1. (\E vs : Uvmunmap(p, vs)) /\ image' = image /\ area' = area
      BY <2>4, Zenon DEF Shrink
    <3> QED
      BY <3>1, SameKeeps, Zenon
  <2> QED
    BY <2>1, <2>2, <2>3, <2>4
<1> QED
  BY <1>s, <1>1, UvmunmapCounts, Zenon

\* Every step keeps the counts of pages.
LEMMA StepCounts ==
  ASSUME Finites, Layout, Firsts, Counts, MmapCall(Area) \/ Step
  PROVE  Counts'
<1>1. ASSUME NEW p \in Procs,
             \/ PopulateEnd(p)
             \/ \E n \in 1 .. PGSIZE * HeapPages : SbrkLazy(p, n)
             \/ \E c \in Procs : ForkStart(p, c)
             \/ UvmcopyEnd(p) \/ ForkEnd(p) \/ ExitStart(p) \/ ExitEnd(p)
             \/ \E f \in Files : Close(p, f)
      PROVE  Counts'
  <2>1. refcnt' = refcnt /\ pt' = pt /\ image' = image /\ area' = area
    BY <1>1, Zenon DEF PopulateEnd, SbrkLazy, ForkStart, UvmcopyEnd, ForkEnd, ExitStart, ExitEnd, Close
  <2> QED
    BY <2>1, SameKeeps, SameCounts, Zenon
<1>7. ASSUME NEW p \in Procs, NEW a \in Area, NEW populate \in BOOLEAN, Kmmap(p, a, populate)
      PROVE  Counts'
  <2>1. /\ refcnt' = refcnt /\ pt' = pt /\ image' = image
        /\ FreeSlots # {} /\ area' = [area EXCEPT ![First(FreeSlots)] = a]
    BY <1>7, Zenon DEF Kmmap
  <2>2. Keeps
    BY <1>7, <2>1, AddKeeps, Zenon DEF Layout
  <2> QED
    BY <2>1, <2>2, SameCounts, Zenon
<1>2. ASSUME NEW p \in Procs,
             \/ \E addr \in 0 .. MAXVA : Kmunmap(p, addr)
             \/ \E n \in 1 .. PGSIZE * HeapPages : Shrink(p, n)
             \/ MmapfreeArea(p) \/ Reap(p) \/ UvmcopyFail(p) \/ MmapforkFail(p)
      PROVE  Counts'
  BY <1>2, UnmapCounts, Zenon
<1>3. ASSUME NEW p \in Procs, NEW pa \in Pages, PopulatePage(p, pa) \/ UvmcopyPage(p, pa)
      PROVE  Counts'
  BY <1>3, PopulatePageCounts, UvmcopyPageCounts, Zenon
<1>4. ASSUME NEW p \in Procs, NEW va \in VA, NEW pa \in Pages,
             (\E read \in BOOLEAN : FaultMmap(p, va, pa, read)) \/ FaultHeap(p, va, pa)
      PROVE  Counts'
  BY <1>4, FaultCounts, Zenon
<1>5. ASSUME NEW p \in Procs, NEW n \in 1 .. PGSIZE * HeapPages, Grow(p, n) \/ ExecStart(p, n)
      PROVE  Counts'
  BY <1>5, GrowCounts, ExecStartCounts, Zenon
<1>6. ASSUME NEW p \in Procs, MmapforkArea(p) \/ ExecEnd(p)
      PROVE  Counts'
  BY <1>6, MmapforkAreaCounts, ExecEndCounts, Zenon
<1> QED
  BY <1>1, <1>2, <1>3, <1>4, <1>5, <1>6, <1>7, Zenon DEF MmapCall, Step

------------------------------------------------------------------------------
(* Counting the references to files *)

\* The processes with a descriptor for f, and the entries of mmaptable that hold it.
Holders(fds, f) == {p \in Procs : f \in fds[p]}

Holds(table, f) == {i \in Slots : table[i] # None /\ table[i].f = f}

\* The reference counts of files are right.
Filed == fref \in [Files -> Nat] /\ FileRefsExact

\* Both are finite.
LEMMA HoldsFinite ==
  ASSUME Finites, NEW fds, NEW table, NEW f
  PROVE  /\ IsFiniteSet(Holders(fds, f)) /\ Cardinality(Holders(fds, f)) \in Nat
         /\ IsFiniteSet(Holds(table, f)) /\ Cardinality(Holds(table, f)) \in Nat
<1>1. Holders(fds, f) \in SUBSET Procs /\ Holds(table, f) \in SUBSET Slots
  BY Zenon DEF Holders, Holds
<1> QED
  BY <1>1, MmapAssumption, FiniteSets, Zenon DEF Finites, Counted, Subsets

\* How the count of a file is made up, before and after a step.
LEMMA FiledFacts ==
  ASSUME Filed, NEW f \in Files
  PROVE  /\ fref[f] \in Nat
         /\ fref[f] = Cardinality(Holders(ofile, f)) + Cardinality(Holds(area, f))
<1>1. fref[f] \in Nat
  BY DEF Filed
<1>2. fref[f] = Cardinality(Holders(ofile, f)) + Cardinality(Holds(area, f))
  BY Zenon DEF Filed, FileRefsExact, Holders, Holds
<1> QED
  BY <1>1, <1>2

LEMMA FiledNext ==
  ASSUME Finites, fref' = [f \in Files |-> fref'[f]],
         \A f \in Files :
            fref'[f] = Cardinality(Holders(ofile', f)) + Cardinality(Holds(area', f))
  PROVE  Filed'
<1>1. FileRefsExact'
  BY Zenon DEF FileRefsExact, Holders, Holds
<1>2. ASSUME NEW f \in Files
      PROVE  fref'[f] \in Nat
  <2>1. Cardinality(Holders(ofile', f)) \in Nat /\ Cardinality(Holds(area', f)) \in Nat
    BY HoldsFinite, Zenon
  <2> QED
    BY <1>2, <2>1
<1>3. fref' \in [Files -> Nat]
  BY <1>2
<1> QED
  BY <1>1, <1>3, Zenon DEF Filed

\* Steps that touch no file.
LEMMA SameFiled ==
  ASSUME Filed, fref' = fref, ofile' = ofile, area' = area
  PROVE  Filed'
BY Zenon DEF Filed, FileRefsExact

\* mmap_insert and filedup.
LEMMA FiledAdd ==
  ASSUME Finites, Filed, NEW a \in Area, NEW s \in Slots, area[s] = None, area'[s] = a,
         \A i \in Slots : i # s => area'[i] = area[i],
         fref' = Filedup(a.f, fref), ofile' = ofile
  PROVE  Filed'
<1>0. a # None /\ a.f \in Files \cup {None}
  BY MmapAssumption, Zenon DEF Area
<1>1. fref' = [f \in Files |-> fref'[f]]
  BY <1>0, MmapAssumption, Zenon DEF Filed, Filedup
<1>2. ASSUME NEW f \in Files
      PROVE  fref'[f] = Cardinality(Holders(ofile', f)) + Cardinality(Holds(area', f))
  <2>1. PICK H, M : H = Cardinality(Holders(ofile, f)) /\ M = Holds(area, f)
    OBVIOUS
  <2>2. H \in Nat /\ IsFiniteSet(M) /\ Cardinality(M) \in Nat
    BY <2>1, HoldsFinite, Zenon
  <2>3. fref[f] \in Nat /\ fref[f] = H + Cardinality(M)
    BY <1>2, <2>1, FiledFacts, Zenon
  <2>4. CASE a.f = f
    <3>1. fref'[f] = fref[f] + 1
      BY <1>2, <2>4, MmapAssumption DEF Filed, Filedup
    <3>2. Holds(area', f) = M \cup {s} /\ s \notin M
      <4>1. \A i \in Slots : i \in Holds(area', f) <=> i \in M \/ i = s
        BY <1>0, <2>1, <2>4, Zenon DEF Holds
      <4> QED
        BY <2>1, <4>1, Zenon DEF Holds
    <3>3. Cardinality(Holds(area', f)) = Cardinality(M) + 1
      BY <2>2, <3>2, Zenon DEF Finites, AddElement
    <3>4. fref'[f] = H + Cardinality(Holds(area', f))
      BY <2>2, <2>3, <3>1, <3>3
    <3> QED
      BY <2>1, <3>4, Zenon
  <2>5. CASE a.f # f
    <3>1. fref'[f] = fref[f]
      BY <1>0, <1>2, <2>5, MmapAssumption DEF Filed, Filedup
    <3>2. Holds(area', f) = M
      BY <1>0, <2>1, <2>5, Zenon DEF Holds
    <3> QED
      BY <2>1, <2>3, <3>1, <3>2, Zenon
  <2> QED
    BY <2>4, <2>5
<1> QED
  BY <1>1, <1>2, FiledNext, Zenon

\* The areas D leave mmaptable.
LEMMA HoldsDrop ==
  ASSUME Finites, NEW D, \A i \in D : i \in Slots /\ area[i] # None,
         \A i \in Slots : area'[i] = IF i \in D THEN None ELSE area[i], NEW f
  PROVE  Cardinality(Holds(area', f))
           = Cardinality(Holds(area, f)) - Cardinality({i \in D : area[i].f = f})
<1>1. Holds(area', f) = Holds(area, f) \ {i \in D : area[i].f = f}
  BY Zenon DEF Holds
<1>2. Holds(area, f) \cap {i \in D : area[i].f = f} = {i \in D : area[i].f = f}
  BY Zenon DEF Holds
<1>3. IsFiniteSet(Holds(area, f))
  BY HoldsFinite, Zenon
<1>4. Cardinality(Holds(area, f) \ {i \in D : area[i].f = f})
        = Cardinality(Holds(area, f)) - Cardinality(Holds(area, f) \cap {i \in D : area[i].f = f})
  BY <1>3, Zenon DEF Finites, Differences
<1> QED
  BY <1>1, <1>2, <1>4, Zenon

\* They give back as many references as there are of them.
LEMMA FiledDrop ==
  ASSUME Finites, Filed, NEW D, \A i \in D : i \in Slots /\ area[i] # None,
         \A i \in Slots : area'[i] = IF i \in D THEN None ELSE area[i],
         fref' = [f \in Files |-> fref[f] - Cardinality({i \in D : area[i].f = f})],
         ofile' = ofile
  PROVE  Filed'
<1>1. fref' = [f \in Files |-> fref'[f]]
  OBVIOUS
<1>2. ASSUME NEW f \in Files
      PROVE  fref'[f] = Cardinality(Holders(ofile', f)) + Cardinality(Holds(area', f))
  <2>1. PICK H, m, d : /\ H = Cardinality(Holders(ofile, f)) /\ m = Cardinality(Holds(area, f))
                       /\ d = Cardinality({i \in D : area[i].f = f})
    BY Zenon
  <2>2. H \in Nat /\ m \in Nat
    BY <2>1, HoldsFinite, Zenon
  <2>3. d \in Nat
    <3>1. {i \in D : area[i].f = f} \in SUBSET Slots
      BY Zenon
    <3> QED
      BY <2>1, <3>1, FiniteSets, Zenon DEF Finites, Counted, Subsets
  <2>4. fref[f] = H + m /\ fref'[f] = fref[f] - d
    BY <1>2, <2>1, FiledFacts, Zenon
  <2>5. Cardinality(Holds(area', f)) = m - d
    BY <2>1, HoldsDrop, Zenon
  <2>6. fref'[f] = H + Cardinality(Holds(area', f))
    BY <2>2, <2>3, <2>4, <2>5
  <2> QED
    BY <2>1, <2>6, Zenon
<1> QED
  BY <1>1, <1>2, FiledNext, Zenon

\* mmap_take_start, mmap_take_any and fileclose.
LEMMA FiledTake ==
  ASSUME Finites, Shape, Filed, NEW s \in Slots, area[s] # None, area' = [area EXCEPT ![s] = None],
         fref' = Fileclose(area[s].f, fref), ofile' = ofile
  PROVE  Filed'
<1>0. area[s] \in Area
  BY DEF Shape
<1>1. area[s].f \in Files \cup {None}
  BY <1>0, Zenon DEF Area
<1>2. \A i \in Slots : area'[i] = IF i \in {s} THEN None ELSE area[i]
  BY DEF Shape
<1>3. ASSUME NEW f \in Files
      PROVE  fref'[f] = fref[f] - Cardinality({i \in {s} : area[i].f = f})
  <2>0. fref[f] \in Nat
    BY <1>3, FiledFacts, Zenon
  <2>1. CASE area[s].f = f
    <3>1. {i \in {s} : area[i].f = f} = {s}
      BY <2>1, Zenon
    <3>2. Cardinality({i \in {s} : area[i].f = f}) = 1
      BY <3>1, Zenon DEF Finites, Singletons
    <3>3. fref'[f] = fref[f] - 1
      BY <1>3, <2>1, MmapAssumption DEF Filed, Fileclose
    <3> QED
      BY <3>2, <3>3
  <2>2. CASE area[s].f # f
    <3>1. {i \in {s} : area[i].f = f} = {}
      BY <2>2, Zenon
    <3>2. Cardinality({i \in {s} : area[i].f = f}) = 0
      BY <3>1, Zenon DEF Finites, EmptySet
    <3>3. fref'[f] = fref[f]
      BY <1>1, <1>3, <2>2, MmapAssumption DEF Filed, Fileclose
    <3> QED
      BY <2>0, <3>2, <3>3
  <2> QED
    BY <2>1, <2>2
<1>4. fref' = [f \in Files |-> fref'[f]]
  BY <1>1, MmapAssumption, Zenon DEF Filed, Fileclose
<1>5. fref' = [f \in Files |-> fref[f] - Cardinality({i \in {s} : area[i].f = f})]
  <2>1. [f \in Files |-> fref'[f]]
          = [f \in Files |-> fref[f] - Cardinality({i \in {s} : area[i].f = f})]
    BY <1>3, Zenon
  <2> QED
    BY <1>4, <2>1, Zenon
<1>6. \A i \in {s} : i \in Slots /\ area[i] # None
  BY Zenon
<1> QED
  BY <1>2, <1>5, <1>6, FiledDrop, Zenon

\* One process's descriptors change, and the counts of the files in the difference.
LEMMA FiledFds ==
  ASSUME Finites, Shape, Filed, NEW p \in Procs, area' = area,
         \A q \in Procs : q # p => ofile'[q] = ofile[q],
         fref' = [f \in Files |-> fref'[f]],
         \A f \in Files :
            \/ (f \in ofile[p] <=> f \in ofile'[p]) /\ fref'[f] = fref[f]
            \/ f \notin ofile[p] /\ f \in ofile'[p] /\ fref'[f] = fref[f] + 1
            \/ f \in ofile[p] /\ f \notin ofile'[p] /\ fref'[f] = fref[f] - 1
  PROVE  Filed'
<1>1. ASSUME NEW f \in Files
      PROVE  fref'[f] = Cardinality(Holders(ofile', f)) + Cardinality(Holds(area', f))
  <2>1. PICK H, m : H = Holders(ofile, f) /\ m = Cardinality(Holds(area, f))
    OBVIOUS
  <2>2. IsFiniteSet(H) /\ Cardinality(H) \in Nat /\ m \in Nat
    BY <2>1, HoldsFinite, Zenon
  <2>3. fref[f] = Cardinality(H) + m
    BY <1>1, <2>1, FiledFacts, Zenon
  <2>4. CASE (f \in ofile[p] <=> f \in ofile'[p]) /\ fref'[f] = fref[f]
    <3>1. Holders(ofile', f) = H
      BY <2>1, <2>4, Zenon DEF Holders
    <3> QED
      BY <2>1, <2>3, <2>4, <3>1, Zenon
  <2>5. CASE f \notin ofile[p] /\ f \in ofile'[p] /\ fref'[f] = fref[f] + 1
    <3>1. \A q \in Procs : q \in Holders(ofile', f) <=> q \in H \/ q = p
      BY <2>1, <2>5, Zenon DEF Holders
    <3>2. Holders(ofile', f) = H \cup {p} /\ p \notin H
      BY <2>1, <2>5, <3>1, Zenon DEF Holders
    <3>3. Cardinality(Holders(ofile', f)) = Cardinality(H) + 1
      BY <2>2, <3>2, Zenon DEF Finites, AddElement
    <3>4. fref'[f] = Cardinality(Holders(ofile', f)) + m
      BY <2>2, <2>3, <2>5, <3>3, SMTT(30)
    <3> QED
      BY <2>1, <3>4, Zenon
  <2>6. CASE f \in ofile[p] /\ f \notin ofile'[p] /\ fref'[f] = fref[f] - 1
    <3>1. \A q \in Procs : q \in Holders(ofile', f) <=> q \in H /\ q # p
      BY <2>1, <2>6, Zenon DEF Holders
    <3>2. Holders(ofile', f) = H \ {p} /\ p \in H
      BY <2>1, <2>6, <3>1, Zenon DEF Holders
    <3>3. Cardinality(Holders(ofile', f)) = Cardinality(H) - 1
      BY <2>2, <3>2, Zenon DEF Finites, RemoveElement
    <3>4. fref'[f] = Cardinality(Holders(ofile', f)) + m
      BY <2>2, <2>3, <2>6, <3>3
    <3> QED
      BY <2>1, <3>4, Zenon
  <2> QED
    BY <1>1, <2>4, <2>5, <2>6, Zenon
<1> QED
  BY <1>1, FiledNext, Zenon

\* kmmap and mmapfork hold the file of a new area.
LEMMA AddingFiled ==
  ASSUME Finites, Layout, Firsts, Filed, NEW p \in Procs,
         (\E a \in Area, populate \in BOOLEAN : Kmmap(p, a, populate)) \/ MmapforkArea(p)
  PROVE  Filed'
<1>s. Shape
  BY DEF Layout
<1>1. PICK a \in Area : /\ area' = [area EXCEPT ![First(FreeSlots)] = a]
                        /\ fref' = Filedup(a.f, fref) /\ ofile' = ofile /\ FreeSlots # {}
  <2>1. CASE \E a \in Area, populate \in BOOLEAN : Kmmap(p, a, populate)
    BY <2>1, Zenon DEF Kmmap
  <2>2. CASE MmapforkArea(p)
    <3>1. PICK c, i, b : /\ c = child[p] /\ i = First(ToCopy(p))
                         /\ b = [area[i] EXCEPT !.p = c]
      BY Zenon
    <3>2. pc[p] = "mmapfork" /\ ToCopy(p) # {}
      BY <2>2, Zenon DEF MmapforkArea
    <3>3. InFork(p, c)
      BY <3>1, <3>2, ForkFacts, Zenon
    <3>4. c \in Procs /\ area[i] \in Area
      BY <1>s, <3>1, <3>2, <3>3, ToCopyFirst, Zenon DEF InFork
    <3>5. b \in Area /\ b.f = area[i].f
      BY <3>1, <3>4, CopyOfArea
    <3> QED
      BY <2>2, <3>1, <3>5, Zenon DEF MmapforkArea
  <2> QED
    BY <2>1, <2>2
<1>2. PICK s : s = First(FreeSlots)
  OBVIOUS
<1>3. /\ s \in Slots /\ area[s] = None /\ area'[s] = a
      /\ \A i \in Slots : i # s => area'[i] = area[i]
  BY <1>s, <1>1, <1>2, AreaAdded, Zenon
<1> QED
  BY <1>1, <1>3, FiledAdd, Zenon

\* munmap, and mmapfreeproc in exit and exec, close the file of the area they take.
LEMMA TakingFiled ==
  ASSUME Finites, Layout, Firsts, Filed, NEW p \in Procs,
         (\E addr \in 0 .. MAXVA : Kmunmap(p, addr)) \/ MmapfreeArea(p)
  PROVE  Filed'
<1>s. Shape
  BY DEF Layout
<1>1. PICK S : S \subseteq Owned(p) /\ S # {} /\ TakeArea(p, First(S)) /\ ofile' = ofile
  BY Zenon DEF Kmunmap, MmapfreeArea, Starts
<1>2. S \in SUBSET Nat
  BY <1>1, SlotsNat, Zenon DEF Owned
<1>3. PICK s : s = First(S)
  OBVIOUS
<1>4. s \in Owned(p)
  BY <1>1, <1>2, <1>3, Zenon DEF Firsts
<1>5. s \in Slots /\ area[s] # None
  BY <1>4, Zenon DEF Owned
<1> QED
  BY <1>s, <1>1, <1>3, <1>5, FiledTake, Zenon DEF TakeArea

\* freeproc closes the files of all areas of the slot.
LEMMA FreeingFiled ==
  ASSUME Finites, Filed, NEW c, NEW vs, Freeproc(c, vs), ofile' = ofile
  PROVE  Filed'
<1>1. \A i \in Owned(c) : i \in Slots /\ area[i] # None
  BY Zenon DEF Owned
<1>2. \A i \in Slots : area'[i] = IF i \in Owned(c) THEN None ELSE area[i]
  BY Zenon DEF Freeproc
<1>3. fref' = [f \in Files |-> fref[f] - Cardinality({i \in Owned(c) : area[i].f = f})]
  BY Zenon DEF Freeproc
<1> QED
  BY <1>1, <1>2, <1>3, FiledDrop, Zenon

\* kfork dups the parent's files for the child, which has none.
LEMMA ForkEndFiled ==
  ASSUME Finites, Layout, Filed, NEW p \in Procs, ForkEnd(p)
  PROVE  Filed'
<1>c. PICK c : c = child[p]
  OBVIOUS
<1>s. Shape /\ pc[p] = "mmapfork"
  BY Zenon DEF Layout, ForkEnd
<1>f. c \in Procs /\ ofile[c] = {}
  <2>1. InFork(p, c)
    BY <1>c, <1>s, ForkFacts, Zenon
  <2> QED
    BY <2>1, Zenon DEF InFork
<1>1. /\ area' = area /\ ofile'[c] = ofile[p] /\ \A q \in Procs : q # c => ofile'[q] = ofile[q]
  BY <1>c, <1>f, <1>s DEF ForkEnd, Shape
<1>2. /\ fref' = [f \in Files |-> fref'[f]]
      /\ \A f \in Files : fref'[f] = IF f \in ofile[p] THEN fref[f] + 1 ELSE fref[f]
  BY DEF ForkEnd
<1>3. \A f \in Files :
            \/ (f \in ofile[c] <=> f \in ofile'[c]) /\ fref'[f] = fref[f]
            \/ f \notin ofile[c] /\ f \in ofile'[c] /\ fref'[f] = fref[f] + 1
            \/ f \in ofile[c] /\ f \notin ofile'[c] /\ fref'[f] = fref[f] - 1
  BY <1>f, <1>1, <1>2, Zenon
<1> QED
  BY <1>s, <1>f, <1>1, <1>2, <1>3, FiledFds, Zenon

\* kexit and sys_close.
LEMMA ClosingFiled ==
  ASSUME Finites, Layout, Filed, NEW p \in Procs, ExitEnd(p) \/ \E f \in Files : Close(p, f)
  PROVE  Filed'
<1>s. Shape
  BY DEF Layout
<1>1. CASE ExitEnd(p)
  <2>1. area' = area /\ ofile'[p] = {} /\ \A q \in Procs : q # p => ofile'[q] = ofile[q]
    BY <1>s, <1>1 DEF ExitEnd, Shape
  <2>2. /\ fref' = [f \in Files |-> fref'[f]]
        /\ \A f \in Files : fref'[f] = IF f \in ofile[p] THEN fref[f] - 1 ELSE fref[f]
    BY <1>1 DEF ExitEnd
  <2>3. \A f \in Files :
            \/ (f \in ofile[p] <=> f \in ofile'[p]) /\ fref'[f] = fref[f]
            \/ f \notin ofile[p] /\ f \in ofile'[p] /\ fref'[f] = fref[f] + 1
            \/ f \in ofile[p] /\ f \notin ofile'[p] /\ fref'[f] = fref[f] - 1
    BY <2>1, <2>2, Zenon
  <2> QED
    BY <1>s, <2>1, <2>2, <2>3, FiledFds, Zenon
<1>2. CASE \E f \in Files : Close(p, f)
  <2>0. PICK g \in Files : Close(p, g)
    BY <1>2
  <2>1. /\ area' = area /\ g \in ofile[p] /\ ofile'[p] = ofile[p] \ {g}
        /\ \A q \in Procs : q # p => ofile'[q] = ofile[q]
    BY <1>s, <2>0 DEF Close, Shape
  <2>2. /\ fref' = [f \in Files |-> fref'[f]]
        /\ fref'[g] = fref[g] - 1 /\ \A f \in Files : f # g => fref'[f] = fref[f]
    BY <2>0, MmapAssumption, Zenon DEF Close, Fileclose, Filed
  <2>3. \A f \in Files :
            \/ (f \in ofile[p] <=> f \in ofile'[p]) /\ fref'[f] = fref[f]
            \/ f \notin ofile[p] /\ f \in ofile'[p] /\ fref'[f] = fref[f] + 1
            \/ f \in ofile[p] /\ f \notin ofile'[p] /\ fref'[f] = fref[f] - 1
    BY <2>1, <2>2, Zenon
  <2> QED
    BY <1>s, <2>1, <2>2, <2>3, FiledFds, Zenon
<1> QED
  BY <1>1, <1>2

\* Every step keeps the counts of files.
LEMMA StepFiled ==
  ASSUME Finites, Layout, Firsts, Filed, MmapCall(Area) \/ Step
  PROVE  Filed'
<1>1. ASSUME NEW p \in Procs,
             \/ \E pa \in Pages : PopulatePage(p, pa) \/ UvmcopyPage(p, pa)
             \/ PopulateEnd(p)
             \/ \E va \in VA, pa \in Pages :
                   (\E read \in BOOLEAN : FaultMmap(p, va, pa, read)) \/ FaultHeap(p, va, pa)
             \/ \E n \in 1 .. PGSIZE * HeapPages :
                   SbrkLazy(p, n) \/ Grow(p, n) \/ Shrink(p, n) \/ ExecStart(p, n)
             \/ \E c \in Procs : ForkStart(p, c)
             \/ UvmcopyEnd(p) \/ ExitStart(p) \/ ExecEnd(p)
      PROVE  Filed'
  <2>1. fref' = fref /\ ofile' = ofile /\ area' = area
    BY <1>1, Zenon DEF PopulatePage, UvmcopyPage, PopulateEnd, FaultMmap, FaultHeap, SbrkLazy, Grow,
                       Shrink, ExecStart, ForkStart, UvmcopyEnd, ExitStart, ExecEnd
  <2> QED
    BY <2>1, SameFiled, Zenon
<1>2. ASSUME NEW p \in Procs,
             \/ \E a \in Area, populate \in BOOLEAN : Kmmap(p, a, populate)
             \/ MmapforkArea(p)
      PROVE  Filed'
  BY <1>2, AddingFiled, Zenon
<1>3. ASSUME NEW p \in Procs, (\E addr \in 0 .. MAXVA : Kmunmap(p, addr)) \/ MmapfreeArea(p)
      PROVE  Filed'
  BY <1>3, TakingFiled, Zenon
<1>4. ASSUME NEW p \in Procs, UvmcopyFail(p) \/ MmapforkFail(p) \/ Reap(p)
      PROVE  Filed'
  <2>1. PICK c, vs : Freeproc(c, vs) /\ ofile' = ofile
    BY <1>4, Zenon DEF UvmcopyFail, MmapforkFail, Reap, ForkFail
  <2> QED
    BY <2>1, FreeingFiled, Zenon
<1>5. ASSUME NEW p \in Procs, ForkEnd(p) \/ ExitEnd(p) \/ \E f \in Files : Close(p, f)
      PROVE  Filed'
  BY <1>5, ForkEndFiled, ClosingFiled, Zenon
<1> QED
  BY <1>1, <1>2, <1>3, <1>4, <1>5, Zenon DEF MmapCall, Step

------------------------------------------------------------------------------
(* The inductive invariant *)

\* mmapfork: the child gets one more area of the file, and the parent has one more behind it.
LEMMA MmapforkCounts ==
  ASSUME Finites, Layout, Firsts, NEW p \in Procs, MmapforkArea(p)
  PROVE  CountsAreas(p, child[p])'
<1>c. PICK c, i, s, b : /\ c = child[p] /\ i = First(ToCopy(p)) /\ s = First(FreeSlots)
                        /\ b = [area[i] EXCEPT !.p = c]
  BY Zenon
<1>s. Shape /\ pc[p] = "mmapfork" /\ ToCopy(p) # {} /\ FreeSlots # {} /\ CountsAreas(p, child[p])
  BY Zenon DEF Layout, Lay, MmapforkArea
<1>f. c \in Procs /\ c # p
  <2>1. InFork(p, c)
    BY <1>c, <1>s, ForkFacts, Zenon
  <2> QED
    BY <2>1, Zenon DEF InFork
<1>1. /\ i \in Owned(p) /\ i \in Nat /\ area[i] \in Area /\ i >= idx[p]
      /\ \A k \in Owned(p) : k < i + 1 <=> (k < idx[p] \/ k = i)
  BY <1>c, <1>s, ToCopyFirst, Zenon
<1>2. b \in Area /\ b.p = c /\ b.f = area[i].f
  <2>1. area[i] \in Area /\ c \in Procs /\ b = [area[i] EXCEPT !.p = c]
    BY <1>c, <1>1, <1>f, Zenon
  <2> QED
    BY <2>1, CopyOfArea
<1>3. area' = [area EXCEPT ![First(FreeSlots)] = b]
  BY <1>c, Zenon DEF MmapforkArea
<1>4. /\ area'[s] = b /\ \A j \in Slots : j # s => area'[j] = area[j]
      /\ Owned(c)' = Owned(c) \cup {s} /\ s \notin Owned(c)
      /\ \A q : q # c => SameAreas(q)
  BY <1>c, <1>s, <1>2, <1>3, AreaAdded, ZenonT(30)
<1>5. Owned(p)' = Owned(p) /\ \A k \in Owned(p) : area'[k] = area[k]
  BY <1>4, <1>f, Zenon DEF SameAreas
<1>6. \A j \in Owned(c) : j \in Slots /\ j # s /\ area'[j] = area[j]
  BY <1>4, Zenon DEF Owned
<1>7. child'[p] = c /\ idx'[p] = i + 1 /\ ~(i < idx[p])
  BY <1>c, <1>s, <1>1 DEF MmapforkArea, Shape
<1>8. ASSUME NEW f \in Files
      PROVE  Cardinality({j \in Owned(c)' : area'[j].f = f})
               = Cardinality({k \in Owned(p)' : k < idx'[p] /\ area'[k].f = f})
  <2>1. PICK A, B : /\ A = {j \in Owned(c) : area[j].f = f}
                    /\ B = {k \in Owned(p) : k < idx[p] /\ area[k].f = f}
    BY Zenon
  <2>2. Cardinality(A) = Cardinality(B)
    BY <1>c, <1>s, <1>8, <2>1, Zenon DEF CountsAreas
  <2>3. IsFiniteSet(A) /\ IsFiniteSet(B)
    <3>1. A \in SUBSET Slots /\ B \in SUBSET Slots
      BY <2>1, Zenon DEF Owned
    <3> QED
      BY <3>1, FiniteSets, Zenon DEF Finites, Subsets
  <2>4. \A k \in Owned(p)' : k < idx'[p] /\ area'[k].f = f
                             <=> (k < idx[p] \/ k = i) /\ area[k].f = f
    BY <1>1, <1>5, <1>7, Zenon
  <2>5. CASE area[i].f = f
    <3>1. {j \in Owned(c)' : area'[j].f = f} = A \cup {s} /\ s \notin A
      BY <1>2, <1>4, <1>6, <2>1, <2>5, Zenon
    <3>2. {k \in Owned(p)' : k < idx'[p] /\ area'[k].f = f} = B \cup {i} /\ i \notin B
      BY <1>1, <1>5, <1>7, <2>1, <2>4, <2>5, Zenon
    <3>3. /\ Cardinality(A \cup {s}) = Cardinality(A) + 1
          /\ Cardinality(B \cup {i}) = Cardinality(B) + 1
      BY <2>3, <3>1, <3>2, Zenon DEF Finites, AddElement
    <3> QED
      BY <2>2, <3>1, <3>2, <3>3, Zenon
  <2>6. CASE area[i].f # f
    <3>1. {j \in Owned(c)' : area'[j].f = f} = A
      BY <1>2, <1>4, <1>6, <2>1, <2>6, Zenon
    <3>2. {k \in Owned(p)' : k < idx'[p] /\ area'[k].f = f} = B
      BY <1>1, <1>5, <1>7, <2>1, <2>4, <2>6, Zenon
    <3> QED
      BY <2>2, <3>1, <3>2, Zenon
  <2> QED
    BY <2>5, <2>6
<1> QED
  BY <1>7, <1>8, Zenon DEF CountsAreas

------------------------------------------------------------------------------
(* Panics *)

\* The heap of a process, in pages.
LEMMA HeapPagesOf ==
  ASSUME Shape, NEW p \in Procs
  PROVE  /\ PageUp(sz[p]) \in Nat /\ PageUp(sz[p]) <= MMAPBASE
         /\ \A va \in VA : va \in Heap(p) <=> va < PageUp(sz[p])
<1>1. sz[p] \in Nat /\ sz[p] <= PGSIZE * HeapPages
  BY MmapAssumption DEF Shape, PGSIZE
<1>2. PageUp(sz[p]) \in Nat
  BY <1>1, PageUpFacts, Zenon
<1>3. PageUp(sz[p]) <= HeapPages
  BY <1>1, MmapAssumption DEF PageUp, PGSIZE
<1>4. \A va \in VA : va \in Heap(p) <=> va < PageUp(sz[p])
  BY <1>2, Addresses DEF Heap
<1> QED
  BY <1>2, <1>3, <1>4 DEF MMAPBASE

\* An area with an address outside the range of mappings is misplaced.
LEMMA OutOfRange ==
  ASSUME NEW p \in Procs, NEW i \in Owned(p), NEW va \in Span(area[i]),
         va < MMAPBASE \/ va >= TRAPFRAME, va \in Int
  PROVE  Misplaced(p)
<1>1. va \notin MmapVA
  BY MmapAssumption DEF MmapVA, MMAPBASE, TRAPFRAME
<1> QED
  BY <1>1, Zenon DEF Misplaced

\* Addresses of an area are numbers.
LEMMA SpanInt ==
  ASSUME NEW a \in Area, NEW va \in Span(a)
  PROVE  va \in Int
BY MmapAssumption DEF Area, Span, MAXVA, TRAPFRAME

\* The calls that panic do so in a process with a misplaced area.
LEMMA PanicMisplaced ==
  ASSUME Layout, Firsts, NEW p \in Procs, Panic(p)
  PROVE  Misplaced(p)
<1>s. Shape /\ Covers(p) /\ Sound(p) /\ CopiesAreas(p, child[p])
  BY Zenon DEF Layout, Lay
<1>a. \A i \in Owned(p) : area[i] \in Area
  BY <1>s, Zenon DEF Shape, Owned
<1>h. ASSUME NEW i \in Owned(p), High(area[i])
      PROVE  Misplaced(p)
  <2>1. PICK va \in Span(area[i]) : va >= TRAPFRAME
    BY <1>h, Zenon DEF High
  <2>2. va \in Int
    BY <1>a, <2>1, SpanInt, Zenon
  <2> QED
    BY <2>1, <2>2, OutOfRange, Zenon
<1>w. ASSUME NEW i \in Owned(p), NEW va \in Span(area[i]), va >= MAXVA
      PROVE  Misplaced(p)
  <2>1. va \in Int
    BY <1>a, SpanInt, Zenon
  <2>2. va >= TRAPFRAME
    BY <1>w, <2>1, MmapAssumption DEF MAXVA, TRAPFRAME
  <2> QED
    BY <2>1, <2>2, OutOfRange, Zenon
<1>1. CASE UnmapPanics(p)
  <2>1. CASE \E i \in Owned(p) : High(area[i])
    BY <1>h, <2>1, Zenon
  <2>2. CASE Owned(p) # {} /\ High(area[First(Owned(p))])
    <3>1. Owned(p) \in SUBSET Nat
      BY SlotsNat, Zenon DEF Owned
    <3>2. First(Owned(p)) \in Owned(p)
      BY <2>2, <3>1, Zenon DEF Firsts
    <3> QED
      BY <1>h, <2>2, <3>2, Zenon
  <2> QED
    BY <1>1, <2>1, <2>2, Zenon DEF UnmapPanics
<1>2. CASE WalkPanics(p)
  <2>1. CASE \E i \in Owned(p) : \E va \in Span(area[i]) : va >= MAXVA
    BY <1>w, <2>1, Zenon
  <2>2. CASE pc[p] = "populate" /\ idx[p] \in Span(cur[p]) /\ idx[p] >= MAXVA
    <3>1. PICK i \in Owned(p) : area[i] = cur[p]
      BY <1>s, <2>2, Zenon DEF Sound
    <3> QED
      BY <1>w, <2>2, <3>1, Zenon
  <2> QED
    BY <1>2, <2>1, <2>2, Zenon DEF WalkPanics
<1>3. CASE GrowPanics(p)
  <2>1. PICK n \in 1 .. PGSIZE * MMAPBASE - sz[p] : InTheWay(p, NewPages(sz[p], sz[p] + n)) # {}
    BY <1>3, Zenon DEF GrowPanics
  <2>2. PICK va : va \in NewPages(sz[p], sz[p] + n) /\ pt[p][va] # None
    BY <2>1, Zenon DEF InTheWay
  <2>3. sz[p] \in Nat /\ PageUp(sz[p]) \in Nat
    BY <1>s, HeapPagesOf, Sizes, Zenon DEF Layout
  <2>4. n \in Nat /\ sz[p] + n \in Nat /\ sz[p] + n <= PGSIZE * MMAPBASE
    BY <2>1, <2>3, MmapAssumption DEF PGSIZE, MMAPBASE
  <2>5. PageUp(sz[p] + n) \in Nat /\ PageUp(sz[p] + n) <= MMAPBASE
    BY <2>4, Addresses, SMT DEF PageUp, PGSIZE
  <2>6. va \in Nat /\ va < MMAPBASE /\ ~(va < PageUp(sz[p]))
    BY <2>2, <2>3, <2>5, Addresses DEF NewPages
  <2>7. va \in VA
    BY <2>6, Addresses, Zenon
  <2>8. state[p] = "RUNNABLE"
    BY <1>3, Zenon DEF GrowPanics, InUser
  <2>9. PICK i \in Owned(p) : va \in Span(area[i])
    BY <1>s, <2>2, <2>6, <2>7, <2>8 DEF Covers
  <2> QED
    BY <2>6, <2>9, OutOfRange
<1>4. CASE MmapforkPanics(p)
  <2>1. PICK c, i : c = child[p] /\ i = First(ToCopy(p))
    OBVIOUS
  <2>2. /\ pc[p] = "mmapfork" /\ ToCopy(p) # {}
        /\ High(area[i]) \/ \E va \in Span(area[i]) \cap VA : pt[p][va] # None /\ pt[c][va] # None
    BY <1>4, <2>1, Zenon DEF MmapforkPanics, Remap
  <2>3. i \in Owned(p) /\ i \in Nat /\ i >= idx[p]
    BY <1>s, <2>1, <2>2, ToCopyFirst, Zenon
  <2>4. CASE High(area[i])
    BY <1>h, <2>3, <2>4, Zenon
  <2>5. ASSUME NEW va \in VA, va \in Span(area[i]), pt[c][va] # None
        PROVE  Misplaced(p)
    <3>0. PageUp(sz[p]) \in Nat /\ PageUp(sz[p]) <= MMAPBASE /\ va \in Nat /\ MMAPBASE \in Nat
      BY <1>s, <2>5, HeapPagesOf, Addresses, Zenon
    <3>1. CASE va < PageUp(sz[p])
      <4>1. va < MMAPBASE /\ va \in Int
        BY <3>0, <3>1
      <4> QED
        BY <2>3, <2>5, <4>1, OutOfRange, Zenon
    <3>2. CASE ~(va < PageUp(sz[p]))
      <4>1. Copied(p, va)
        BY <1>s, <2>1, <2>2, <2>5, <3>2, Zenon DEF CopiesAreas
      <4>2. PICK k \in Owned(p) : k < idx[p] /\ va \in Span(area[k])
        BY <4>1, Zenon DEF Copied
      <4>3. k # i
        <5>1. idx[p] \in Nat
          BY <1>s DEF Shape
        <5> QED
          BY <2>3, <4>2, <5>1
      <4> QED
        BY <2>3, <2>5, <4>2, <4>3, Zenon DEF Misplaced
    <3> QED
      BY <3>1, <3>2
  <2> QED
    BY <2>2, <2>4, <2>5, Zenon
<1> QED
  BY <1>1, <1>2, <1>3, <1>4, Zenon DEF Panic

\* PanicOnlyMisplaced, with the type of panicked.
Stopped == panicked \in Procs \cup {None} /\ PanicOnlyMisplaced

------------------------------------------------------------------------------
(* The inductive invariant *)

\* Layout, the counts of pages and of files, and what a panic says.
Inductive == Layout /\ Counts /\ Filed /\ Stopped

\* At boot nothing is mapped and init holds every file once.
LEMMA InitInductive ==
  ASSUME Finites, Init
  PROVE  Inductive
<1>1. Layout
  BY InitLayout, Zenon
<1>2. Counts
  <2>1. \A p \in Procs, va \in VA : pt[p][va] = None /\ image[p][va] = None
    BY NoMapFacts, Zenon DEF Init
  <2>2. refcnt \in [Pages -> Nat]
    BY DEF Init
  <2>3. ASSUME NEW pa \in Pages
        PROVE  refcnt[pa] = Cardinality(Entries(pt, pa)) + Cardinality(Entries(image, pa))
    <3>1. Entries(pt, pa) = {} /\ Entries(image, pa) = {}
      <4>1. \A m \in Procs \X VA : m[1] \in Procs /\ m[2] \in VA
        OBVIOUS
      <4> QED
        BY <2>1, <4>1, Zenon DEF Entries
    <3>2. Cardinality(Entries(pt, pa)) = 0 /\ Cardinality(Entries(image, pa)) = 0
      BY <3>1, Zenon DEF Finites, EmptySet
    <3>3. refcnt[pa] = 0
      BY <2>3, Zenon DEF Init
    <3> QED
      BY <3>2, <3>3
  <2> QED
    BY <2>1, <2>2, <2>3, Zenon DEF Counts, RefsExact, Private
<1>3. Filed
  <2>1. fref \in [Files -> Nat]
    BY DEF Init
  <2>2. ASSUME NEW f \in Files
        PROVE  fref[f] = Cardinality({p \in Procs : f \in ofile[p]})
                         + Cardinality({i \in Slots : area[i] # None /\ area[i].f = f})
    <3>1. {p \in Procs : f \in ofile[p]} = {InitProc}
      BY <2>2, MmapAssumption, Zenon DEF Init
    <3>2. {i \in Slots : area[i] # None /\ area[i].f = f} = {}
      BY Zenon DEF Init
    <3>3. /\ Cardinality({p \in Procs : f \in ofile[p]}) = 1
          /\ Cardinality({i \in Slots : area[i] # None /\ area[i].f = f}) = 0
      BY <3>1, <3>2, Zenon DEF Finites, EmptySet, Singletons
    <3>4. fref[f] = 1
      BY <2>2, Zenon DEF Init
    <3> QED
      BY <3>3, <3>4
  <2> QED
    BY <2>1, <2>2, Zenon DEF Filed, FileRefsExact
<1>4. Stopped
  BY Zenon DEF Init, Stopped, PanicOnlyMisplaced
<1> QED
  BY <1>1, <1>2, <1>3, <1>4, Zenon DEF Inductive

\* A step that changes at most panicked keeps layout and counts.
LEMMA SameInductive ==
  ASSUME Layout, Counts, Filed,
         UNCHANGED <<refcnt, pt, sz, area, ofile, fref, state, pc, child, cur, image, idx>>
  PROVE  Layout' /\ Counts' /\ Filed'
<1>1. /\ refcnt' = refcnt /\ pt' = pt /\ sz' = sz /\ area' = area /\ ofile' = ofile
      /\ fref' = fref /\ state' = state /\ pc' = pc /\ child' = child /\ cur' = cur
      /\ image' = image /\ idx' = idx
  OBVIOUS
<1>2. Counts' /\ Filed'
  BY <1>1, SameKeeps, SameCounts, SameFiled, Zenon
<1>3. Shape' /\ Apart'
  BY <1>1, Zenon DEF Layout, Shape, Apart
<1>4. \A q \in Procs : Lay(q)'
  <2>1. \A q \in Procs \ {} : /\ SameMemory(q) /\ SameCall(q) /\ ofile'[q] = ofile[q]
                              /\ child[q] \notin {}
    BY <1>1, Zenon DEF SameMemory, SameAreas, SameCall, Owned
  <2>2. \A q \in Procs \ {} : Lay(q)'
    BY <2>1, OthersLay, Zenon
  <2> QED
    BY <2>2, Zenon
<1> QED
  BY <1>2, <1>3, <1>4, Zenon DEF Layout

\* Every step keeps the inductive invariant.
LEMMA StepInductive ==
  ASSUME Finites, Firsts, Inductive, [Next]_vars
  PROVE  Inductive'
<1>s. Layout /\ Counts /\ Filed /\ Stopped
  BY Zenon DEF Inductive
<1>1. CASE (MmapCall(Area) \/ Step) /\ panicked' = panicked /\ panicked = None
  <2>1. \A p \in Procs : MmapforkArea(p) => CountsAreas(p, child[p])'
    BY <1>s, MmapforkCounts, Zenon
  <2>2. Layout'
    BY <1>1, <1>s, <2>1, StepLayout, Zenon
  <2>3. Counts' /\ Filed'
    BY <1>1, <1>s, StepCounts, StepFiled, Zenon
  <2>4. Stopped'
    BY <1>1, Zenon DEF Stopped, PanicOnlyMisplaced
  <2> QED
    BY <2>2, <2>3, <2>4, Zenon DEF Inductive
<1>2. CASE UNCHANGED vars
  <2>1. /\ UNCHANGED <<refcnt, pt, sz, area, ofile, fref, state, pc, child, cur, image, idx>>
        /\ area' = area /\ panicked' = panicked
    BY <1>2 DEF vars
  <2>2. Layout' /\ Counts' /\ Filed'
    BY <1>s, <2>1, SameInductive, Zenon
  <2>3. Stopped'
    BY <1>s, <2>1, Zenon DEF Stopped, PanicOnlyMisplaced, Misplaced, Owned
  <2> QED
    BY <2>2, <2>3, Zenon DEF Inductive
<1>3. ASSUME NEW p \in Procs, Panic(p)
      PROVE  Inductive'
  <2>1. /\ UNCHANGED <<refcnt, pt, sz, area, ofile, fref, state, pc, child, cur, image, idx>>
        /\ panicked' = p
    BY <1>3, Zenon DEF Panic
  <2>2. Layout' /\ Counts' /\ Filed'
    BY <1>s, <2>1, SameInductive, Zenon
  <2>3. Misplaced(p) /\ area' = area
    BY <1>3, <1>s, <2>1, PanicMisplaced
  <2>4. Stopped'
    BY <2>1, <2>3, Zenon DEF Stopped, PanicOnlyMisplaced, Misplaced, Owned
  <2> QED
    BY <2>2, <2>4, Zenon DEF Inductive
<1> QED
  BY <1>1, <1>2, <1>3, Zenon DEF Next, NextWith

\* The invariant that the runs check says the same as the inductive one.
LEMMA InductiveImplies ==
  ASSUME Inductive
  PROVE  MmapInv
<1>s. Shape /\ Apart /\ Counts /\ Filed /\ Stopped /\ \A p \in Procs : Lay(p)
  BY Zenon DEF Inductive, Layout
<1>1. TypeOK
  BY <1>s, Zenon DEF Shape, Counts, Filed, Stopped, TypeOK
<1>2. RefsExact /\ FileRefsExact
  BY <1>s, Zenon DEF Counts, Filed
<1>3. ResidentCovered
  <2> SUFFICES ASSUME NEW p \in Procs, NEW va \in Resident(p)
               PROVE  \/ Covering(p, va) # {}
                      \/ va \in Heap(p)
                      \/ va < MMAPBASE /\ state[p] = "USED"
    BY Zenon DEF ResidentCovered
  <2>1. va \in VA /\ pt[p][va] # None /\ Covers(p)
    BY <1>s, Zenon DEF Resident, Lay
  <2>2. va < PageUp(sz[p]) => va \in Heap(p)
    BY <1>s, <2>1, HeapPagesOf, Zenon
  <2> QED
    BY <2>1, <2>2, Zenon DEF Covers, Covering
<1>4. AreasOwned
  <2> SUFFICES ASSUME NEW i \in Slots, area[i] # None
               PROVE  state[area[i].p] \in {"USED", "RUNNABLE"}
    BY Zenon DEF AreasOwned
  <2>1. area[i] \in Area
    BY <1>s DEF Shape
  <2>2. area[i].p \in Procs
    BY <2>1, Zenon DEF Area
  <2>3. i \in Owned(area[i].p) /\ Owns(area[i].p)
    BY <1>s, <2>2, Zenon DEF Owned, Lay
  <2> QED
    BY <2>3, Zenon DEF Owns
<1>5. HeapPrivate
  BY <1>s, Zenon DEF Counts, Private, Within, HeapPrivate, Covering, Resident
<1>6. WritableCovered
  <2> SUFFICES ASSUME NEW p \in Procs, state[p] = "RUNNABLE", NEW va \in Resident(p) \ Heap(p),
                      pt[p][va].perm = "RW"
               PROVE  \E i \in Covering(p, va) : area[i].prot = "RW"
    BY Zenon DEF WritableCovered
  <2>1. va \in VA /\ pt[p][va] # None /\ va \notin Heap(p) /\ Writes(p)
    BY <1>s, Zenon DEF Resident, Lay
  <2>2. ~(va < PageUp(sz[p]))
    BY <1>s, <2>1, HeapPagesOf, Zenon
  <2> QED
    BY <2>1, <2>2, Zenon DEF Writes, Covering
<1>7. SlotsSound
  <2> SUFFICES ASSUME NEW p \in Procs
               PROVE  /\ Sound(p)
                      /\ child[p] # None => \A q \in Procs \ {p} : child[q] # child[p]
    BY Zenon DEF SlotsSound, Sound
  <2> QED
    BY <1>s, Zenon DEF Lay, Apart
<1>8. ForkCopies
  <2> SUFFICES ASSUME NEW p \in Procs, NEW c, c = child[p], NEW Done,
                      Done = {k \in Owned(p) : k < idx[p]}
               PROVE
       /\ pc[p] = "uvmcopy" =>
            /\ sz[c] = 0 /\ Owned(c) = {} /\ idx[p] <= PageUp(sz[p])
            /\ \A va \in VA : IF va < idx[p] THEN pt[c][va] # None <=> pt[p][va] # None
                                             ELSE pt[c][va] = None
       /\ pc[p] = "mmapfork" =>
            /\ sz[c] = sz[p]
            /\ \A va \in VA : IF va \in Heap(p) THEN pt[c][va] # None <=> pt[p][va] # None
                               ELSE pt[c][va] = IF \E k \in Done : va \in Span(area[k])
                                                THEN pt[p][va] ELSE None
            /\ \A k \in Done : \E i \in Owned(c) : area[i] = [area[k] EXCEPT !.p = c]
            /\ \A f \in Files : Cardinality({i \in Owned(c) : area[i].f = f})
                                  = Cardinality({k \in Done : area[k].f = f})
    BY ZenonT(30) DEF ForkCopies
  <2>1. CopiesHeap(p, c) /\ CopiesAreas(p, c) /\ CountsAreas(p, c)
    BY <1>s, Zenon DEF Lay
  <2>2. CASE pc[p] = "uvmcopy"
    BY <2>1, <2>2, Zenon DEF CopiesHeap
  <2>3. CASE pc[p] = "mmapfork"
    <3>1. \A va : Copied(p, va) <=> \E k \in Done : va \in Span(area[k])
      BY Zenon DEF Copied
    <3>2. \A f : {k \in Done : area[k].f = f} = {k \in Owned(p) : k < idx[p] /\ area[k].f = f}
      BY Zenon
    <3>3. sz[c] = sz[p] /\ \A k \in Done : \E i \in Owned(c) : area[i] = [area[k] EXCEPT !.p = c]
      BY <2>1, <2>3, Zenon DEF CopiesAreas
    <3>4. \A f \in Files : Cardinality({i \in Owned(c) : area[i].f = f})
                             = Cardinality({k \in Done : area[k].f = f})
      BY <2>1, <2>3, <3>2, Zenon DEF CountsAreas
    <3>5. \A va \in VA : IF va \in Heap(p) THEN pt[c][va] # None <=> pt[p][va] # None
                         ELSE pt[c][va] = IF \E k \in Done : va \in Span(area[k])
                                          THEN pt[p][va] ELSE None
      <4>1. \A va \in VA : va \in Heap(p) <=> va < PageUp(sz[p])
        BY <1>s, HeapPagesOf, Zenon
      <4> QED
        BY <2>1, <2>3, <3>1, <4>1, Zenon DEF CopiesAreas
    <3> QED
      BY <2>3, <3>3, <3>4, <3>5, Zenon
  <2> QED
    BY <2>2, <2>3, Zenon
<1>9. ImagesSound
  BY <1>s, Zenon DEF Lay, Images, Counts, Private, ImagesSound
<1> QED
  BY <1>1, <1>2, <1>3, <1>4, <1>5, <1>6, <1>7, <1>8, <1>9, Zenon DEF MmapInv

------------------------------------------------------------------------------
(* The facts of the library *)

INSTANCE FiniteSetTheorems

\* The loops that look for the first of several indices find one.
LEMMA FirstsHold == Firsts
<1> SUFFICES ASSUME NEW S \in SUBSET Nat, S # {}
             PROVE  First(S) \in S /\ \A j \in S : First(S) <= j
  BY Zenon DEF Firsts
<1>1. PICK R : R = OpToRel(<, Nat)
  BY Zenon
<1>2. IsWellFoundedOn(R, Nat)
  BY <1>1, NatLessThanWellFounded, Zenon
<1>3. PICK x \in S : \A y \in S : ~(<<y, x>> \in R)
  BY <1>2, WFMin, Zenon
<1>4. \A y \in S : ~(y < x)
  BY <1>1, <1>3, Zenon DEF OpToRel
<1>5. \A y \in S : x <= y
  BY <1>4
<1> QED
  BY <1>5, Zenon DEF First

\* The facts about finite sets are theorems of the library.
LEMMA FinitesHold == Finites
<1>1. Counted /\ EmptySet /\ Singletons
  BY FS_CardinalityType, FS_EmptySet, FS_Singleton, Zenon DEF Counted, EmptySet, Singletons
<1>2. AddElement /\ RemoveElement
  BY FS_AddElement, FS_RemoveElement, Zenon DEF AddElement, RemoveElement
<1>3. Subsets /\ Unions /\ Differences
  BY FS_Subset, FS_Union, FS_Difference, Zenon DEF Subsets, Unions, Differences
<1>4. Products /\ Intervals
  BY FS_Product, FS_Interval, Zenon DEF Products, Intervals
<1> QED
  BY <1>1, <1>2, <1>3, <1>4, Zenon DEF Finites

\* The inductive invariant holds in every reachable state.
LEMMA Always == Spec => []Inductive
<1>1. Init => Inductive
  BY FinitesHold, InitInductive
<1>2. Inductive /\ [Next]_vars => Inductive'
  BY FinitesHold, FirstsHold, StepInductive, SMTT(30)
<1> QED
  BY <1>1, <1>2, PTL DEF Spec

------------------------------------------------------------------------------
(* Theorems *)

\* The bookkeeping of memory is exact in every state, whatever the number of processes,
\* pages, files and areas: kaddref, kalloc and kfree balance, filedup and fileclose
\* balance, every mapped page lies in an area or in the heap of its process, pages outside
\* all areas are private, and what a running process can write outside its heap it mapped
\* PROT_WRITE.  Areas may lie anywhere and overlap.
THEOREM MmapInvariant == Spec => []MmapInv
<1>1. Inductive => MmapInv
  BY InductiveImplies
<1> QED
  BY <1>1, Always, PTL

\* The closes of a failing mmapfork, made with np->lock held, are never the last of a
\* file: the parent has at least as many areas of it as the child.
THEOREM ForkCloses == Spec => []ForkCloseNotLast
<1>1. Inductive => ForkCloseNotLast
  <2> SUFFICES ASSUME Inductive, NEW p \in Procs, pc[p] = "mmapfork", NEW f \in Files
               PROVE  Cardinality({i \in Owned(child[p]) : area[i].f = f})
                        <= Cardinality({i \in Owned(p) : area[i].f = f})
    BY Zenon DEF ForkCloseNotLast
  <2>1. CountsAreas(p, child[p])
    BY Zenon DEF Inductive, Layout, Lay
  <2>2. PICK A, B, C : /\ A = {i \in Owned(child[p]) : area[i].f = f}
                       /\ B = {k \in Owned(p) : k < idx[p] /\ area[k].f = f}
                       /\ C = {i \in Owned(p) : area[i].f = f}
    BY Zenon
  <2>3. Cardinality(A) = Cardinality(B)
    BY <2>1, <2>2, Zenon DEF CountsAreas
  <2>4. B \in SUBSET C /\ C \in SUBSET Slots
    BY <2>2, Zenon DEF Owned
  <2>5. IsFiniteSet(C)
    BY <2>4, FinitesHold, FiniteSets, FS_Subset, Zenon
  <2>6. Cardinality(B) <= Cardinality(C)
    BY <2>4, <2>5, FS_Subset, Zenon
  <2> QED
    BY <2>2, <2>3, <2>6, Zenon
<1> QED
  BY <1>1, Always, PTL

\* Nothing panics ("mappages: remap", "walk", "kfree") as long as the areas of a process
\* keep to the range from MMAPBASE to the trapframe and apart, whatever was faulted in,
\* unmapped, inherited or replaced before.
THEOREM PanicNeedsMisplaced == Spec => []PanicOnlyMisplaced
<1>1. Inductive => PanicOnlyMisplaced
  BY Zenon DEF Inductive, Stopped
<1> QED
  BY <1>1, Always, PTL

\* kfork lets the child run only when it shares every page the parent has outside its heap
\* and has a page wherever the parent has one in the heap.
THEOREM ForkSharesAll == Spec => ForkShares
<1>1. ASSUME Inductive, NEW p \in Procs, ForkEnd(p), NEW va \in VA
      PROVE  IF va \in Heap(p) THEN pt[child[p]][va] # None <=> pt[p][va] # None
             ELSE pt[child[p]][va] = pt[p][va]
  <2>1. pc[p] = "mmapfork" /\ ToCopy(p) = {} /\ state[p] = "RUNNABLE"
    <3>1. pc[p] = "mmapfork" /\ ToCopy(p) = {}
      BY <1>1, Zenon DEF ForkEnd
    <3>2. state[p] = "RUNNABLE"
      BY <1>1, <3>1 DEF Inductive, Layout, Lay, Sound
    <3> QED
      BY <3>1, <3>2
  <2>2. Shape /\ Covers(p) /\ CopiesAreas(p, child[p])
    BY <1>1, Zenon DEF Inductive, Layout, Lay
  <2>3. va \in Heap(p) <=> va < PageUp(sz[p])
    BY <1>1, <2>2, HeapPagesOf, Zenon
  <2>4. \A k \in Owned(p) : k < idx[p]
    <3>1. idx[p] \in Nat /\ Owned(p) \subseteq Nat
      BY <2>2, SlotsNat DEF Shape, Owned
    <3>2. \A k \in Owned(p) : ~(k >= idx[p])
      BY <2>1, Zenon DEF ToCopy
    <3> QED
      BY <3>1, <3>2
  <2>5. CASE va \notin Heap(p)
    <3>1. pt[child[p]][va] = IF Copied(p, va) THEN pt[p][va] ELSE None
      BY <1>1, <2>1, <2>2, <2>3, <2>5, Zenon DEF CopiesAreas
    <3>2. pt[p][va] # None => Copied(p, va)
      <4>1. state[p] # "USED"
        BY <2>1
      <4> QED
        BY <1>1, <2>2, <2>3, <2>4, <2>5, <4>1, Zenon DEF Covers, Copied
    <3> QED
      BY <2>5, <3>1, <3>2, Zenon
  <2>6. CASE va \in Heap(p)
    BY <1>1, <2>1, <2>2, <2>3, <2>6, Zenon DEF CopiesAreas
  <2> QED
    BY <2>5, <2>6
<1>2. Inductive => [\A p \in Procs : ForkEnd(p) =>
         \A va \in VA :
            IF va \in Heap(p) THEN pt[child[p]][va] # None <=> pt[p][va] # None
            ELSE pt[child[p]][va] = pt[p][va]]_vars
  BY <1>1, Zenon
<1> QED
  BY <1>2, Always, PTL DEF ForkShares
=============================================================================
