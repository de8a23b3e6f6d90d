------------------------------- MODULE KAlloc -------------------------------
(***************************************************************************)
(* kernel/kalloc.c: the physical page allocator with reference counts,     *)
(* used by several threads.  The free list runs through the free pages     *)
(* themselves: mem[g] is what the first word of page g holds.  Threads     *)
(* write to the pages they have, kalloc and kfree fill pages with junk     *)
(* without the lock, and kfree takes the lock twice.                       *)
(***************************************************************************)
EXTENDS Naturals, Sequences, FiniteSets

CONSTANTS
    Pages,                \* physical pages, in the order of their addresses
    Threads, Null,
    Junk,                 \* what memset or an owner leaves in a page's first word
    Boot                  \* the thread that runs kinit

ASSUME KAllocAssumption ==
    /\ Pages \subseteq Nat /\ IsFiniteSet(Pages) /\ IsFiniteSet(Threads)
    /\ Null \notin Pages /\ Junk \notin Pages \cup {Null}
    /\ Boot \in Threads

VARIABLES
    freelist, refcnt, mem,
    pc, page,     \* where each thread is, and its page there
    own,          \* the pages each thread has a reference to
    fresh,        \* the pages freerange has not come to yet
    list          \* the free list from its end to its head, as it should be

vars == <<freelist, refcnt, mem, pc, page, own, fresh, list>>

TypeOK ==
    /\ freelist \in Pages \cup {Null}
    /\ refcnt \in [Pages -> Nat]
    /\ mem \in [Pages -> Pages \cup {Null, Junk}]
    /\ pc \in [Threads -> {"idle", "fill", "junk", "link"}]
    /\ page \in [Threads -> Pages \cup {Null}]
    /\ own \in [Threads -> SUBSET Pages]
    /\ fresh \subseteq Pages
    /\ list \in Seq(Pages)

Init ==
    /\ freelist = Null
    /\ refcnt = [g \in Pages |-> 0]
    /\ mem = [g \in Pages |-> Junk]
    /\ pc = [t \in Threads |-> "idle"]
    /\ page = [t \in Threads |-> Null]
    /\ own = [t \in Threads |-> {}]
    /\ fresh = Pages
    /\ list = <<>>

Booted == fresh = {} /\ pc[Boot] = "idle"

\* t goes on with page g.
Goto(t, l, g) ==
    /\ pc' = [pc EXCEPT ![t] = l]
    /\ page' = [page EXCEPT ![t] = g]

\* freerange goes from low to high addresses; it sets the count to 1 for kfree,
\* which takes it back to 0.
Freerange(g) ==
    /\ pc[Boot] = "idle" /\ g \in fresh /\ \A h \in fresh : g <= h
    /\ fresh' = fresh \ {g}
    /\ Goto(Boot, "junk", g)
    /\ UNCHANGED <<freelist, refcnt, mem, own, list>>

Kalloc(t) ==
    /\ Booted /\ pc[t] = "idle"
    /\ freelist # Null
    /\ freelist' = mem[freelist]
    /\ refcnt' = [refcnt EXCEPT ![freelist] = 1]
    /\ Goto(t, "fill", freelist)
    /\ list' = SubSeq(list, 1, Len(list) - 1)
    /\ UNCHANGED <<mem, own, fresh>>

\* kalloc's memset; the caller has the page.
KallocFill(t) ==
    /\ pc[t] = "fill"
    /\ mem' = [mem EXCEPT ![page[t]] = Junk]
    /\ own' = [own EXCEPT ![t] = @ \cup {page[t]}]
    /\ Goto(t, "idle", Null)
    /\ UNCHANGED <<freelist, refcnt, fresh, list>>

\* The owner of a page stores anything in it.
Store(t, g) ==
    /\ pc[t] = "idle" /\ g \in own[t]
    /\ mem' = [mem EXCEPT ![g] = Junk]
    /\ UNCHANGED <<freelist, refcnt, pc, page, own, fresh, list>>

\* t shares its page with u (mmap_copy_pages).
Kaddref(t, u, g) ==
    /\ pc[t] = "idle" /\ g \in own[t] /\ g \notin own[u]
    /\ refcnt' = [refcnt EXCEPT ![g] = @ + 1]
    /\ own' = [own EXCEPT ![u] = @ \cup {g}]
    /\ UNCHANGED <<freelist, mem, pc, page, fresh, list>>

\* The first critical section of kfree.
Kfree(t, g) ==
    /\ pc[t] = "idle" /\ g \in own[t]
    /\ refcnt' = [refcnt EXCEPT ![g] = @ - 1]
    /\ own' = [own EXCEPT ![t] = @ \ {g}]
    /\ IF refcnt[g] = 1 THEN Goto(t, "junk", g) ELSE UNCHANGED <<pc, page>>
    /\ UNCHANGED <<freelist, mem, fresh, list>>

\* Mutant: the page is linked before it is filled with junk.
KfreeJunkLinked(t) ==
    /\ pc[t] = "junk"
    /\ mem' = [mem EXCEPT ![page[t]] = freelist]
    /\ freelist' = page[t]
    /\ list' = Append(list, page[t])
    /\ Goto(t, "link", page[t])
    /\ UNCHANGED <<refcnt, own, fresh>>

\* kfree's memset
KfreeJunk(t) ==
    /\ pc[t] = "junk"
    /\ mem' = [mem EXCEPT ![page[t]] = Junk]
    /\ Goto(t, "link", page[t])
    /\ UNCHANGED <<freelist, refcnt, own, fresh, list>>

\* The second critical section of kfree.
KfreeLink(t) ==
    /\ pc[t] = "link"
    /\ mem' = [mem EXCEPT ![page[t]] = freelist]
    /\ freelist' = page[t]
    /\ list' = Append(list, page[t])
    /\ Goto(t, "idle", Null)
    /\ UNCHANGED <<refcnt, own, fresh>>

Next ==
    \/ \E g \in Pages : Freerange(g)
    \/ \E t \in Threads : Kalloc(t) \/ KallocFill(t) \/ KfreeJunk(t) \/ KfreeLink(t)
    \/ \E t \in Threads, g \in Pages : Kfree(t, g)
    \/ \E t, u \in Threads, g \in Pages : Kaddref(t, u, g)
    \/ \E t \in Threads, g \in Pages : Store(t, g)

Spec == Init /\ [][Next]_vars

------------------------------------------------------------------------------
(* Properties *)

Listed  == {list[k] : k \in 1 .. Len(list)}
Limbo   == {page[t] : t \in {u \in Threads : pc[u] \in {"junk", "link"}}}
Filling == {page[t] : t \in {u \in Threads : pc[u] = "fill"}}
InUse   == UNION {own[t] : t \in Threads}

\* The pointers in the pages are the free list, whatever owners and memset write
\* without the lock: kalloc hands out each free page once and kfree loses none.
ListIntact ==
    /\ freelist = IF list = <<>> THEN Null ELSE list[Len(list)]
    /\ \A k \in 1 .. Len(list) : mem[list[k]] = IF k = 1 THEN Null ELSE list[k - 1]
    /\ \A j, k \in 1 .. Len(list) : list[j] = list[k] => j = k

\* refcnt counts the references there are, so kfree and kaddref do not panic
\* ("kfree ref", "kaddref ref") and a page in use is not freed.
RefsExact ==
    \A g \in Pages :
       refcnt[g] = Cardinality({t \in Threads : g \in own[t]})
                 + Cardinality({t \in Threads : pc[t] = "fill" /\ page[t] = g})

\* Every page is in exactly one place: not released yet, on the free list, being
\* freed by one thread, being handed out to one thread, or in use.
OnePlace ==
    /\ \A t, u \in Threads : t # u /\ page[t] # Null => page[t] # page[u]
    /\ Pages = fresh \cup Listed \cup Limbo \cup Filling \cup InUse
    /\ fresh \cap (Listed \cup Limbo \cup Filling \cup InUse) = {}
    /\ Listed \cap (Limbo \cup Filling \cup InUse) = {}
    /\ (Limbo \cup Filling) \cap InUse = {}

\* A thread has a page in hand exactly while it is inside kalloc or kfree.
InHand == \A t \in Threads : pc[t] = "idle" <=> page[t] = Null

\* What kalloc, kaddref and kfree rely on without a lock around the whole call: the
\* free list intact, exact counts, and no page in two places or in none.  No caller
\* leaks a page or gives one back twice.
KAllocInv == TypeOK /\ InHand /\ ListIntact /\ RefsExact /\ OnePlace
=============================================================================
