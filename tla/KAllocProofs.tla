---------------------------- MODULE KAllocProofs ----------------------------
(***************************************************************************)
(* KAllocInv holds for any number of pages and threads.  A page is in one  *)
(* of four places, which the first lemma states page by page; the lemmas   *)
(* on counts are about the owners of one page.                             *)
(***************************************************************************)
EXTENDS KAlloc, FiniteSetTheorems, SequenceTheorems, TLAPS

Linked(g) == \E k \in 1 .. Len(list) : list[k] = g
Moving(g) == \E t \in Threads : page[t] = g
Owned(g)  == \E t \in Threads : g \in own[t]

\* OnePlace for each page
Placed ==
    /\ \A t, u \in Threads : t # u /\ page[t] # Null => page[t] # page[u]
    /\ \A g \in Pages :
         /\ g \in fresh \/ Linked(g) \/ Moving(g) \/ Owned(g)
         /\ g \in fresh => ~Linked(g) /\ ~Moving(g) /\ ~Owned(g)
         /\ Linked(g) => ~Moving(g) /\ ~Owned(g)
         /\ Moving(g) => ~Owned(g)

Owners(g)  == {t \in Threads : g \in own[t]}
Fillers(g) == {t \in Threads : pc[t] = "fill" /\ page[t] = g}

Counted == \A g \in Pages : refcnt[g] = Cardinality(Owners(g)) + Cardinality(Fillers(g))

Inductive == TypeOK /\ InHand /\ ListIntact /\ Counted /\ Placed

LEMMA PlacedIsOnePlace ==
    ASSUME TypeOK, InHand
    PROVE  Placed <=> OnePlace
<1>1. \A g \in Pages : Linked(g) <=> g \in Listed
  BY DEF Linked, Listed
<1>2. \A g \in Pages : Moving(g) <=> g \in Limbo \cup Filling
  BY KAllocAssumption DEF Moving, Limbo, Filling, InHand, TypeOK
<1>3. \A g \in Pages : Owned(g) <=> g \in InUse
  BY DEF Owned, InUse
<1>4. Listed \subseteq Pages
  BY ElementOfSeq DEF Listed, TypeOK
<1>5. Limbo \cup Filling \subseteq Pages
  BY KAllocAssumption DEF Limbo, Filling, InHand, TypeOK
<1>6. InUse \subseteq Pages /\ fresh \subseteq Pages
  BY DEF InUse, TypeOK
<1> QED
  BY <1>1, <1>2, <1>3, <1>4, <1>5, <1>6 DEF Placed, OnePlace

LEMMA InductiveIsKAllocInv == Inductive <=> KAllocInv
<1>1. Counted <=> RefsExact
  BY DEF Counted, RefsExact, Owners, Fillers
<1> QED
  BY <1>1, PlacedIsOnePlace DEF Inductive, KAllocInv

LEMMA FiniteOwners ==
    ASSUME NEW g
    PROVE  IsFiniteSet(Owners(g)) /\ IsFiniteSet(Fillers(g))
BY FS_Subset, KAllocAssumption DEF Owners, Fillers

LEMMA InitInv == Init => Inductive
<1> SUFFICES ASSUME Init PROVE Inductive
  OBVIOUS
<1>1. \A g : Owners(g) = {} /\ Fillers(g) = {}
  BY DEF Init, Owners, Fillers
<1>2. Counted
  <2>1. \A g : Cardinality(Owners(g)) = 0 /\ Cardinality(Fillers(g)) = 0
    BY <1>1, FS_EmptySet, Zenon
  <2>2. \A g \in Pages : refcnt[g] = 0
    BY DEF Init
  <2> QED
    BY <2>1, <2>2 DEF Counted
<1>3. TypeOK
  BY EmptySeq DEF Init, TypeOK
<1>4. Len(list) = 0
  BY DEF Init
<1> QED
  BY <1>2, <1>3, <1>4, KAllocAssumption
  DEF Init, Inductive, InHand, ListIntact, Placed, Linked, Moving, Owned

LEMMA FreerangeInv ==
    ASSUME Inductive, NEW g \in Pages, Freerange(g)
    PROVE  Inductive'
<1>1. TypeOK' /\ InHand'
  BY KAllocAssumption DEF Inductive, TypeOK, InHand, Freerange, Goto
<1>2. ListIntact'
  BY DEF Inductive, ListIntact, Freerange, Goto
<1>3. Counted'
  <2>1. \A h : Owners(h)' = Owners(h) /\ Fillers(h)' = Fillers(h)
    BY KAllocAssumption DEF Inductive, TypeOK, Owners, Fillers, Freerange, Goto
  <2> QED
    BY <2>1 DEF Inductive, Counted, Freerange
<1>4. Placed'
  <2>1. \A h \in Pages : (Linked(h)' <=> Linked(h)) /\ (Owned(h)' <=> Owned(h))
    BY DEF Linked, Owned, Freerange
  <2>2. \A h \in Pages : Moving(h)' <=> Moving(h) \/ h = g
    BY KAllocAssumption DEF Inductive, TypeOK, InHand, Moving, Freerange, Goto
  <2>3. \A t, u \in Threads : t # u /\ page'[t] # Null => page'[t] # page'[u]
    BY KAllocAssumption DEF Inductive, TypeOK, Placed, Moving, InHand, Freerange, Goto
  <2> QED
    BY <2>1, <2>2, <2>3 DEF Inductive, Placed, Freerange
<1> QED
  BY <1>1, <1>2, <1>3, <1>4 DEF Inductive

\* The free list without its head, and with a page in front of it
LEMMA Popped ==
    ASSUME TypeOK, list # <<>>, list' = SubSeq(list, 1, Len(list) - 1)
    PROVE  /\ list' \in Seq(Pages) /\ Len(list) \in Nat \ {0} /\ Len(list') = Len(list) - 1
           /\ \A k \in 1 .. Len(list') : list'[k] = list[k]
<1>1. list \in Seq(Pages) /\ Len(list) \in Nat \ {0}
  BY EmptySeq DEF TypeOK
<1>2. PICK n \in Nat : n = Len(list) - 1
  BY <1>1
<1>3. \A k \in 1 .. n : list[k] \in Pages
  BY <1>1, <1>2, ElementOfSeq
<1>4. 1 \in Int /\ n \in Int
  OBVIOUS
<1>5. /\ SubSeq(list, 1, n) \in Seq(Pages)
      /\ Len(SubSeq(list, 1, n)) = IF 1 <= n THEN n - 1 + 1 ELSE 0
      /\ \A k \in 1 .. n - 1 + 1 : SubSeq(list, 1, n)[k] = list[1 + k - 1]
  BY <1>3, <1>4, SubSeqProperties
<1>6. list' = SubSeq(list, 1, n)
  BY <1>2
<1>7. list' \in Seq(Pages) /\ Len(list') = n
  BY <1>5, <1>6
<1>8. \A k \in 1 .. n : list'[k] = list[k]
  BY <1>5, <1>6
<1> QED
  BY <1>1, <1>2, <1>7, <1>8

LEMMA Pushed ==
    ASSUME TypeOK, NEW g \in Pages, list' = Append(list, g)
    PROVE  /\ list' \in Seq(Pages) /\ list' # <<>> /\ Len(list) \in Nat /\ Len(list') = Len(list) + 1
           /\ list'[Len(list')] = g
           /\ \A k \in 1 .. Len(list) : list'[k] = list[k]
BY AppendProperties, LenProperties DEF TypeOK

LEMMA KallocInv ==
    ASSUME Inductive, NEW t \in Threads, Kalloc(t)
    PROVE  Inductive'
<1>1. list # <<>> /\ freelist = list[Len(list)] /\ freelist \in Pages
  BY DEF Inductive, ListIntact, TypeOK, Kalloc
<1>2. /\ list' \in Seq(Pages) /\ Len(list) \in Nat \ {0} /\ Len(list') = Len(list) - 1
      /\ \A k \in 1 .. Len(list') : list'[k] = list[k]
  BY <1>1, Popped DEF Inductive, Kalloc
<1>3. mem[freelist] = IF Len(list) = 1 THEN Null ELSE list[Len(list) - 1]
  BY <1>1, <1>2 DEF Inductive, ListIntact
<1>4. list' = <<>> <=> Len(list) = 1
  BY <1>2, EmptySeq
<1>5. \A k \in 1 .. Len(list) : list[k] \in Pages
  BY ElementOfSeq DEF Inductive, TypeOK
<1>6. freelist' \in Pages \cup {Null}
  BY <1>2, <1>3, <1>5 DEF Kalloc
<1>7. TypeOK' /\ InHand'
  BY <1>1, <1>2, <1>6, KAllocAssumption DEF Inductive, TypeOK, InHand, Kalloc, Goto
<1>8. ListIntact'
  BY <1>1, <1>2, <1>3, <1>4 DEF Inductive, ListIntact, Kalloc
<1>9. PICK h \in Pages : h = freelist
  BY <1>1
<1>10. Linked(h) /\ ~Moving(h) /\ ~Owned(h) /\ h \notin fresh
  BY <1>1, <1>2, <1>9 DEF Inductive, Placed, Linked
<1>11. Counted'
  <2>1. \A g \in Pages : Owners(g)' = Owners(g)
    BY DEF Owners, Kalloc
  <2>2. \A g \in Pages : g # h => Fillers(g)' = Fillers(g)
    BY <1>9, KAllocAssumption DEF Inductive, TypeOK, InHand, Fillers, Kalloc, Goto
  <2>3. Owners(h) = {} /\ Fillers(h)' = {t}
    BY <1>9, <1>10 DEF Inductive, TypeOK, Owners, Fillers, Owned, Moving, Kalloc, Goto
  <2>4. Cardinality(Owners(h)) = 0 /\ Cardinality(Fillers(h)') = 1
    BY <2>3, FS_EmptySet, FS_Singleton, Zenon
  <2>5. refcnt' = [refcnt EXCEPT ![h] = 1]
    BY <1>9 DEF Kalloc
  <2> QED
    BY <2>1, <2>2, <2>4, <2>5 DEF Inductive, TypeOK, Counted
<1>12. Placed'
  <2>1. \A g \in Pages : Linked(g)' <=> Linked(g) /\ g # h
    <3>1. list[Len(list)] = h
      BY <1>1, <1>9
    <3>2. \A j, k \in 1 .. Len(list) : list[j] = list[k] => j = k
      BY DEF Inductive, ListIntact
    <3> QED
      BY <1>2, <3>1, <3>2 DEF Linked
  <2>2. \A g \in Pages : Moving(g)' <=> Moving(g) \/ g = h
    BY <1>9, KAllocAssumption DEF Inductive, TypeOK, InHand, Moving, Kalloc, Goto
  <2>3. \A g \in Pages : Owned(g)' <=> Owned(g)
    BY DEF Owned, Kalloc
  <2>4. \A u, v \in Threads : u # v /\ page'[u] # Null => page'[u] # page'[v]
    BY <1>9, <1>10, KAllocAssumption DEF Inductive, TypeOK, Placed, Moving, InHand, Kalloc, Goto
  <2> QED
    BY <1>10, <2>1, <2>2, <2>3, <2>4 DEF Inductive, Placed, Kalloc
<1> QED
  BY <1>7, <1>8, <1>11, <1>12 DEF Inductive

LEMMA KallocFillInv ==
    ASSUME Inductive, NEW t \in Threads, KallocFill(t)
    PROVE  Inductive'
<1>1. PICK h \in Pages : h = page[t]
  BY KAllocAssumption, Zenon DEF Inductive, TypeOK, InHand, KallocFill
<1>2. Moving(h) /\ ~Linked(h) /\ ~Owned(h)
  BY <1>1 DEF Inductive, Placed, Moving
<1>3. TypeOK' /\ InHand'
  BY <1>1, KAllocAssumption DEF Inductive, TypeOK, InHand, KallocFill, Goto
<1>4. ListIntact'
  BY <1>1, <1>2, ElementOfSeq DEF Inductive, TypeOK, ListIntact, Linked, KallocFill
<1>5. Counted'
  <2>1. \A g \in Pages : g # h => Owners(g)' = Owners(g) /\ Fillers(g)' = Fillers(g)
    BY <1>1, KAllocAssumption DEF Inductive, TypeOK, Owners, Fillers, KallocFill, Goto
  <2>2. Owners(h) = {} /\ Owners(h)' = {t}
    BY <1>1, <1>2 DEF Inductive, TypeOK, Owners, Owned, KallocFill
  <2>3. Fillers(h) = {t} /\ Fillers(h)' = {}
    BY <1>1, KAllocAssumption DEF Inductive, TypeOK, InHand, Placed, Fillers, KallocFill, Goto
  <2>4. /\ Cardinality(Owners(h)) = 0 /\ Cardinality(Owners(h)') = 1
        /\ Cardinality(Fillers(h)) = 1 /\ Cardinality(Fillers(h)') = 0
    BY <2>2, <2>3, FS_EmptySet, FS_Singleton, Zenon
  <2>5. refcnt' = refcnt
    BY DEF KallocFill
  <2> QED
    BY <2>1, <2>4, <2>5 DEF Inductive, Counted
<1>6. Placed'
  <2>1. \A g \in Pages : Linked(g)' <=> Linked(g)
    BY DEF Linked, KallocFill
  <2>2. \A g \in Pages : Moving(g)' <=> Moving(g) /\ g # h
    BY <1>1, KAllocAssumption DEF Inductive, TypeOK, Placed, Moving, KallocFill, Goto
  <2>3. \A g \in Pages : Owned(g)' <=> Owned(g) \/ g = h
    BY <1>1 DEF Inductive, TypeOK, Owned, KallocFill
  <2>4. \A u, v \in Threads : u # v /\ page'[u] # Null => page'[u] # page'[v]
    BY DEF Inductive, TypeOK, Placed, KallocFill, Goto
  <2> QED
    BY <1>2, <2>1, <2>2, <2>3, <2>4 DEF Inductive, Placed, KallocFill
<1> QED
  BY <1>3, <1>4, <1>5, <1>6 DEF Inductive

LEMMA StoreInv ==
    ASSUME Inductive, NEW t \in Threads, NEW h \in Pages, Store(t, h)
    PROVE  Inductive'
<1>1. TypeOK' /\ InHand'
  BY KAllocAssumption DEF Inductive, TypeOK, InHand, Store
<1>2. ~Linked(h)
  BY DEF Inductive, Placed, Owned, Store
<1>3. ListIntact'
  BY <1>2, ElementOfSeq DEF Inductive, TypeOK, ListIntact, Linked, Store
<1>4. Counted'
  BY DEF Inductive, Counted, Owners, Fillers, Store
<1>5. Placed'
  BY DEF Inductive, Placed, Linked, Moving, Owned, Store
<1> QED
  BY <1>1, <1>3, <1>4, <1>5 DEF Inductive

LEMMA KaddrefInv ==
    ASSUME Inductive, NEW t \in Threads, NEW u \in Threads, NEW h \in Pages, Kaddref(t, u, h)
    PROVE  Inductive'
<1>1. TypeOK' /\ InHand'
  BY KAllocAssumption DEF Inductive, TypeOK, InHand, Kaddref
<1>2. ListIntact'
  BY DEF Inductive, ListIntact, Kaddref
<1>3. Counted'
  <2>1. \A g \in Pages : Fillers(g)' = Fillers(g)
    BY DEF Fillers, Kaddref
  <2>2. \A g \in Pages : g # h => Owners(g)' = Owners(g)
    BY DEF Inductive, TypeOK, Owners, Kaddref
  <2>3. Owners(h)' = Owners(h) \cup {u} /\ u \notin Owners(h)
    BY DEF Inductive, TypeOK, Owners, Kaddref
  <2>4. Cardinality(Owners(h)') = Cardinality(Owners(h)) + 1
    BY <2>3, FiniteOwners, FS_AddElement, Zenon
  <2>5. Cardinality(Owners(h)) \in Nat /\ Cardinality(Fillers(h)) \in Nat
    BY FiniteOwners, FS_CardinalityType
  <2>6. refcnt' = [refcnt EXCEPT ![h] = refcnt[h] + 1]
    BY DEF Kaddref
  <2> QED
    BY <2>1, <2>2, <2>4, <2>5, <2>6 DEF Inductive, TypeOK, Counted
<1>4. Placed'
  <2>1. \A g \in Pages : Owned(g)' <=> Owned(g)
    BY DEF Inductive, TypeOK, Owned, Kaddref
  <2> QED
    BY <2>1 DEF Inductive, Placed, Linked, Moving, Kaddref
<1> QED
  BY <1>1, <1>2, <1>3, <1>4 DEF Inductive

\* The last reference is found by the count, and only then is the page in hand.
LEMMA KfreeInv ==
    ASSUME Inductive, NEW t \in Threads, NEW h \in Pages, Kfree(t, h)
    PROVE  Inductive'
<1>1. Owned(h) /\ ~Moving(h) /\ ~Linked(h) /\ h \notin fresh
  BY DEF Inductive, Placed, Owned, Kfree
<1>2. Fillers(h) = {} /\ Fillers(h)' = {}
  BY <1>1, KAllocAssumption DEF Inductive, TypeOK, Moving, Fillers, Kfree, Goto
<1>3. Owners(h)' = Owners(h) \ {t} /\ t \in Owners(h)
  BY DEF Inductive, TypeOK, Owners, Kfree
<1>4. Cardinality(Owners(h)') = Cardinality(Owners(h)) - 1
  BY <1>3, FiniteOwners, FS_RemoveElement, Zenon
<1>5. Cardinality(Fillers(h)) = 0 /\ Cardinality(Fillers(h)') = 0
  BY <1>2, FS_EmptySet, Zenon
<1>6. refcnt[h] = Cardinality(Owners(h)) /\ refcnt[h] \in Nat
  <2>1. refcnt[h] = Cardinality(Owners(h)) + Cardinality(Fillers(h)) /\ refcnt[h] \in Nat
    BY DEF Inductive, TypeOK, Counted
  <2>2. Cardinality(Owners(h)) \in Nat
    BY FiniteOwners, FS_CardinalityType
  <2> QED
    BY <1>5, <2>1, <2>2
<1>7. refcnt[h] # 0
  <2>1. Owners(h) # {}
    BY <1>3
  <2> QED
    BY <1>6, <2>1, FiniteOwners, FS_EmptySet
<1>8. refcnt[h] = 1 <=> Owners(h)' = {}
  <2>1. IsFiniteSet(Owners(h)')
    BY <1>3, FiniteOwners, FS_Subset
  <2>2. Cardinality(Owners(h)') = 0 <=> Owners(h)' = {}
    BY <2>1, FS_EmptySet, Zenon
  <2> QED
    BY <1>4, <1>6, <2>2
<1>9. Owned(h)' <=> refcnt[h] # 1
  BY <1>8 DEF Owned, Owners
<1>10. TypeOK' /\ InHand'
  BY <1>6, <1>7, KAllocAssumption, SMTT(30) DEF Inductive, TypeOK, InHand, Kfree, Goto
<1>11. ListIntact'
  BY DEF Inductive, ListIntact, Kfree
<1>12. Counted'
  <2>1. \A g \in Pages : g # h => Owners(g)' = Owners(g)
    BY DEF Inductive, TypeOK, Owners, Kfree
  <2>2. \A g \in Pages : g # h => Fillers(g)' = Fillers(g)
    BY KAllocAssumption DEF Inductive, TypeOK, InHand, Fillers, Kfree, Goto
  <2>3. refcnt' = [refcnt EXCEPT ![h] = refcnt[h] - 1]
    BY DEF Kfree
  <2> QED
    BY <1>4, <1>5, <1>6, <2>1, <2>2, <2>3 DEF Inductive, TypeOK, Counted
<1>13. Placed'
  <2>1. \A g \in Pages : Linked(g)' <=> Linked(g)
    BY DEF Linked, Kfree
  <2>2. \A g \in Pages : g # h => (Owned(g)' <=> Owned(g))
    BY DEF Inductive, TypeOK, Owned, Kfree
  <2>3. \A g \in Pages : Moving(g)' <=> Moving(g) \/ (g = h /\ refcnt[h] = 1)
    BY KAllocAssumption DEF Inductive, TypeOK, InHand, Moving, Kfree, Goto
  <2>4. \A u, v \in Threads : u # v /\ page'[u] # Null => page'[u] # page'[v]
    BY <1>1, KAllocAssumption DEF Inductive, TypeOK, Placed, Moving, InHand, Kfree, Goto
  <2> QED
    BY <1>1, <1>9, <2>1, <2>2, <2>3, <2>4 DEF Inductive, Placed, Kfree
<1> QED
  BY <1>10, <1>11, <1>12, <1>13 DEF Inductive

LEMMA KfreeJunkInv ==
    ASSUME Inductive, NEW t \in Threads, KfreeJunk(t)
    PROVE  Inductive'
<1>1. PICK h \in Pages : h = page[t]
  BY KAllocAssumption, Zenon DEF Inductive, TypeOK, InHand, KfreeJunk
<1>2. Moving(h) /\ ~Linked(h)
  BY <1>1 DEF Inductive, Placed, Moving
<1>3. page' = page
  BY DEF Inductive, TypeOK, KfreeJunk, Goto
<1>4. TypeOK' /\ InHand'
  BY <1>1, KAllocAssumption DEF Inductive, TypeOK, InHand, KfreeJunk, Goto
<1>5. ListIntact'
  BY <1>1, <1>2, ElementOfSeq DEF Inductive, TypeOK, ListIntact, Linked, KfreeJunk
<1>6. Counted'
  <2>1. \A g \in Pages : Fillers(g)' = Fillers(g) /\ Owners(g)' = Owners(g)
    BY <1>3 DEF Inductive, TypeOK, Owners, Fillers, KfreeJunk, Goto
  <2> QED
    BY <2>1 DEF Inductive, Counted, KfreeJunk
<1>7. Placed'
  BY <1>3 DEF Inductive, Placed, Linked, Moving, Owned, KfreeJunk
<1> QED
  BY <1>4, <1>5, <1>6, <1>7 DEF Inductive

LEMMA KfreeLinkInv ==
    ASSUME Inductive, NEW t \in Threads, KfreeLink(t)
    PROVE  Inductive'
<1>1. PICK h \in Pages : h = page[t]
  BY KAllocAssumption DEF Inductive, TypeOK, InHand, KfreeLink
<1>2. Moving(h) /\ ~Linked(h) /\ ~Owned(h) /\ h \notin fresh
  BY <1>1 DEF Inductive, Placed, Moving
<1>3. /\ list' \in Seq(Pages) /\ list' # <<>> /\ Len(list) \in Nat /\ Len(list') = Len(list) + 1
      /\ list'[Len(list) + 1] = h
      /\ \A k \in 1 .. Len(list) : list'[k] = list[k]
  BY <1>1, Pushed DEF Inductive, KfreeLink
<1>4. TypeOK' /\ InHand'
  BY <1>1, <1>3, KAllocAssumption DEF Inductive, TypeOK, InHand, KfreeLink, Goto
<1>5. ListIntact'
  <2>1. mem' = [mem EXCEPT ![h] = freelist] /\ freelist' = h
    BY <1>1 DEF KfreeLink
  <2>2. \A k \in 1 .. Len(list) : list[k] \in Pages /\ list[k] # h
    BY <1>2, ElementOfSeq DEF Inductive, TypeOK, Linked
  <2>3. list = <<>> <=> Len(list) = 0
    BY EmptySeq DEF Inductive, TypeOK
  <2>4. (freelist = IF list = <<>> THEN Null ELSE list[Len(list)])'
    BY <1>3, <2>1
  <2>5. \A k \in 1 .. Len(list) : mem'[list'[k]] = IF k = 1 THEN Null ELSE list'[k - 1]
    <3> SUFFICES ASSUME NEW k \in 1 .. Len(list)
                 PROVE  mem'[list'[k]] = IF k = 1 THEN Null ELSE list'[k - 1]
      OBVIOUS
    <3>1. mem'[list'[k]] = mem[list[k]]
      BY <1>3, <2>1, <2>2 DEF Inductive, TypeOK
    <3>2. mem[list[k]] = IF k = 1 THEN Null ELSE list[k - 1]
      BY DEF Inductive, ListIntact
    <3>3. k # 1 => list'[k - 1] = list[k - 1]
      BY <1>3
    <3> QED
      BY <3>1, <3>2, <3>3
  <2>6. mem'[h] = IF Len(list) = 0 THEN Null ELSE list'[Len(list)]
    <3>1. mem'[h] = freelist
      BY <2>1 DEF Inductive, TypeOK
    <3>2. Len(list) # 0 => list'[Len(list)] = list[Len(list)]
      BY <1>3
    <3> QED
      BY <2>3, <3>1, <3>2 DEF Inductive, ListIntact
  <2>7. \A j, k \in 1 .. Len(list) + 1 : list'[j] = list'[k] => j = k
    BY <1>3, <2>2 DEF Inductive, ListIntact
  <2> QED
    BY <1>3, <2>4, <2>5, <2>6, <2>7 DEF ListIntact
<1>6. Counted'
  <2>1. \A g \in Pages : Fillers(g)' = Fillers(g)
    BY KAllocAssumption DEF Inductive, TypeOK, Fillers, KfreeLink, Goto
  <2>2. \A g \in Pages : Owners(g)' = Owners(g)
    BY DEF Owners, KfreeLink
  <2> QED
    BY <2>1, <2>2 DEF Inductive, Counted, KfreeLink
<1>7. Placed'
  <2>1. \A g \in Pages : Linked(g)' <=> Linked(g) \/ g = h
    BY <1>3 DEF Linked
  <2>2. \A g \in Pages : Moving(g)' <=> Moving(g) /\ g # h
    BY <1>1, KAllocAssumption DEF Inductive, TypeOK, Placed, Moving, KfreeLink, Goto
  <2>3. \A g \in Pages : Owned(g)' <=> Owned(g)
    BY DEF Owned, KfreeLink
  <2>4. \A u, v \in Threads : u # v /\ page'[u] # Null => page'[u] # page'[v]
    BY DEF Inductive, TypeOK, Placed, KfreeLink, Goto
  <2> QED
    BY <1>2, <2>1, <2>2, <2>3, <2>4 DEF Inductive, Placed, KfreeLink
<1> QED
  BY <1>4, <1>5, <1>6, <1>7 DEF Inductive

LEMMA StepInv == Inductive /\ [Next]_vars => Inductive'
<1> SUFFICES ASSUME Inductive, [Next]_vars PROVE Inductive'
  OBVIOUS
<1>1. ASSUME NEW g \in Pages, Freerange(g) PROVE Inductive'
  BY <1>1, FreerangeInv
<1>2. ASSUME NEW t \in Threads, Kalloc(t) \/ KallocFill(t) \/ KfreeJunk(t) \/ KfreeLink(t)
      PROVE  Inductive'
  BY <1>2, KallocInv, KallocFillInv, KfreeJunkInv, KfreeLinkInv
<1>3. ASSUME NEW t \in Threads, NEW g \in Pages, Kfree(t, g) \/ Store(t, g) PROVE Inductive'
  BY <1>3, KfreeInv, StoreInv
<1>4. ASSUME NEW t \in Threads, NEW u \in Threads, NEW g \in Pages, Kaddref(t, u, g)
      PROVE  Inductive'
  BY <1>4, KaddrefInv
<1>5. CASE UNCHANGED vars
  BY <1>5 DEF vars, Inductive, TypeOK, InHand, ListIntact, Counted, Owners, Fillers, Placed,
              Linked, Moving, Owned
<1> QED
  BY <1>1, <1>2, <1>3, <1>4, <1>5 DEF Next

\* However many pages and threads there are, kalloc, kfree and kaddref keep the free
\* list intact, the counts exact and every page in one place, though memset and the
\* owners write without kmem.lock and kfree lets go of it between its two sections.
THEOREM KAllocInvariant == Spec => []KAllocInv
<1>1. Init => Inductive
  BY InitInv
<1>2. Inductive /\ [Next]_vars => Inductive'
  BY StepInv
<1>3. Inductive => KAllocInv
  BY InductiveIsKAllocInv
<1> QED
  BY <1>1, <1>2, <1>3, PTL DEF Spec
=============================================================================
