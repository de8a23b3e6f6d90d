--------------------------- MODULE BufCacheProofs ---------------------------
(***************************************************************************)
(* CacheInv holds for any number of processes, buffers and blocks.         *)
(***************************************************************************)
EXTENDS BufCache, FiniteSetTheorems, WellFoundedInduction, TLAPS

Users(i) == {p \in Procs : b[p] = i}
Pins(i)  == IF i \in pinned THEN 1 ELSE 0

\* What the rest of CacheInv follows from.
Inductive ==
    /\ TypeOK /\ OneCopy /\ RefsExact /\ NoLostWakeup
    /\ Holding /\ Coherent /\ Unwritten

------------------------------------------------------------------------------
(* Numbers and lists *)

\* A set of natural numbers with a bound has a largest element.
LEMMA MaxExists ==
    ASSUME NEW N \in Nat, NEW S, S \subseteq 1 .. N, S # {}
    PROVE  Max(S) \in S
<1> DEFINE T == {N - k : k \in S}
           R == OpToRel(<, Nat)
<1>1. T \subseteq Nat /\ T # {}
  <2>1. \A k \in S : k \in 1 .. N
    OBVIOUS
  <2>2. \A k \in S : N - k \in Nat
    BY <2>1
  <2> QED
    BY <2>2, Zenon
<1>2. IsWellFoundedOn(R, Nat)
  BY NatLessThanWellFounded, Zenon
<1>3. \E x \in T : \A y \in T : ~ (<<y, x>> \in R)
  <2> HIDE DEF T, R
  <2> QED
    BY <1>1, <1>2, WFMin, Zenon
<1>4. PICK x \in T : \A y \in T : ~(y < x)
  BY <1>1, <1>3, Zenon DEF OpToRel
<1>5. PICK m \in S : x = N - m
  OBVIOUS
<1>6. \A k \in S : m >= k
  BY <1>4, <1>5
<1> QED
  BY <1>6, Zenon DEF Max

LEMMA MovedToFront ==
    ASSUME NBUF \in Nat \ {0}, NEW s \in Bijection(Bufs, Bufs), NEW i \in Bufs
    PROVE  MoveToFront(s, i) \in Bijection(Bufs, Bufs)
<1> DEFINE at == CHOOSE k \in Bufs : s[k] = i
           t  == [k \in Bufs |-> IF k = 1 THEN i ELSE IF k <= at THEN s[k - 1] ELSE s[k]]
<1>1. s \in [Bufs -> Bufs] /\ (\A j, k \in Bufs : s[j] = s[k] => j = k)
      /\ \A j \in Bufs : \E k \in Bufs : s[k] = j
  BY DEF Bijection, Injection, Surjection, IsInjective
<1>2. at \in Bufs /\ s[at] = i
  BY <1>1
<1> HIDE DEF at
<1>3. t \in [Bufs -> Bufs]
  <2>1. \A k \in Bufs : k # 1 /\ k <= at => k - 1 \in Bufs
    BY <1>2 DEF Bufs
  <2> QED
    BY <1>1, <2>1
<1>4. ASSUME NEW j \in Bufs, NEW k \in Bufs, t[j] = t[k] PROVE j = k
  <2> DEFINE from(m) == IF m = 1 THEN at ELSE IF m <= at THEN m - 1 ELSE m
  <2>1. \A m \in Bufs : from(m) \in Bufs /\ t[m] = s[from(m)]
    BY <1>2 DEF Bufs
  <2>2. from(j) = from(k)
    <3> HIDE DEF from, t
    <3> QED
      BY <1>1, <1>4, <2>1
  <2> QED
    BY <1>2, <2>2 DEF Bufs
<1>5. ASSUME NEW j \in Bufs PROVE \E k \in Bufs : t[k] = j
  <2>1. PICK k \in Bufs : s[k] = j
    BY <1>1
  <2>2. CASE k = at
    BY <1>2, <2>1, <2>2 DEF Bufs
  <2>3. CASE k < at
    <3>1. k + 1 \in Bufs /\ t[k + 1] = j
      BY <1>2, <2>1, <2>3 DEF Bufs
    <3> QED
      BY <3>1
  <2>4. CASE k > at
    BY <1>2, <2>1, <2>4 DEF Bufs
  <2> QED
    BY <1>2, <2>2, <2>3, <2>4 DEF Bufs
<1>6. t \in Bijection(Bufs, Bufs)
  BY <1>3, <1>4, <1>5, Zenon DEF Bijection, Injection, Surjection, IsInjective
<1> QED
  BY <1>6 DEF MoveToFront, at

------------------------------------------------------------------------------
(* Counts *)

LEMMA FiniteUsers ==
    ASSUME NEW i
    PROVE  IsFiniteSet(Users(i)) /\ Cardinality(Users(i)) \in Nat
BY FS_Subset, FS_CardinalityType, BufCacheAssumption DEF Users

LEMMA Unused ==
    ASSUME RefsExact, NEW i \in Bufs
    PROVE  refcnt[i] = 0 <=> i \notin pinned /\ \A p \in Procs : b[p] # i
<1>1. refcnt[i] = Cardinality(Users(i)) + Pins(i)
  BY DEF RefsExact, Users, Pins
<1>2. Cardinality(Users(i)) = 0 <=> Users(i) = {}
  BY FiniteUsers, FS_EmptySet
<1>3. refcnt[i] = 0 <=> Users(i) = {} /\ i \notin pinned
  BY <1>1, <1>2, FiniteUsers DEF Pins
<1> QED
  BY <1>3 DEF Users

LEMMA InductiveIsCacheInv == Inductive => CacheInv
<1> SUFFICES ASSUME Inductive PROVE CacheInv
  OBVIOUS
<1>1. ReadsLatest
  BY DEF Inductive, TypeOK, Holding, Holder, Coherent, ReadsLatest, Bufs
<1>2. NothingLost
  <2>1. \A i \in Bufs : refcnt[i] \in Nat
    BY DEF Inductive, TypeOK
  <2>2. \A i \in Bufs : i \in pinned \/ (\E p \in Procs : b[p] = i) => refcnt[i] > 0
    BY <2>1, Unused DEF Inductive
  <2>3. \A n \in Blocks, i \in Bufs : blockno[i] = n /\ valid[i] => data[i] = latest[n]
    BY BufCacheAssumption DEF Inductive, Coherent
  <2> QED
    BY <2>2, <2>3 DEF Inductive, Unwritten, NothingLost
<1> QED
  BY <1>1, <1>2 DEF Inductive, CacheInv

LEMMA InitInv == Init => Inductive
<1> SUFFICES ASSUME Init PROVE Inductive
  OBVIOUS
<1>1. lru \in Bijection(Bufs, Bufs)
  <2>1. \A k \in Bufs : NBUF + 1 - k \in Bufs /\ NBUF + 1 - (NBUF + 1 - k) = k
    BY BufCacheAssumption DEF Bufs
  <2>2. lru \in [Bufs -> Bufs] /\ \A k \in Bufs : lru[k] = NBUF + 1 - k
    BY <2>1 DEF Init
  <2>3. \A j, k \in Bufs : lru[j] = lru[k] => j = k
    BY <2>1, <2>2
  <2>4. \A j \in Bufs : \E k \in Bufs : lru[k] = j
    BY <2>1, <2>2
  <2> QED
    BY <2>2, <2>3, <2>4 DEF Bijection, Injection, Surjection, IsInjective
<1>2. TypeOK
  BY <1>1, BufCacheAssumption DEF Init, TypeOK, Bufs
<1>3. RefsExact
  <2>1. \A i \in Bufs : {p \in Procs : b[p] = i} = {}
    BY DEF Init, Bufs
  <2>2. \A i \in Bufs : Cardinality({p \in Procs : b[p] = i}) = 0
    BY <2>1, FS_EmptySet, Zenon
  <2> QED
    BY <2>2 DEF Init, RefsExact
<1> QED
  BY <1>2, <1>3, BufCacheAssumption
  DEF Init, Inductive, OneCopy, NoLostWakeup, Holding, Holder, Coherent, Unwritten

------------------------------------------------------------------------------
(* bget *)

LEMMA BgetHitInv ==
    ASSUME Inductive, NEW p \in Procs, NEW n \in Blocks, BgetHit(p, n)
    PROVE  Inductive'
<1>1. PICK i \in Bufs : blockno[i] = n /\ refcnt' = [refcnt EXCEPT ![i] = @ + 1]
                         /\ b' = [b EXCEPT ![p] = i]
  BY Zenon DEF BgetHit
<1>2. b[p] = 0 /\ i # 0 /\ pc[p] = "idle" /\ pc' = [pc EXCEPT ![p] = "lock"] /\ p \notin asleep
  BY DEF Inductive, Holding, BgetHit, At, Goto, Bufs
<1>3. TypeOK'
  <2>1. refcnt' \in [Bufs -> Nat] /\ b' \in [Procs -> 0 .. NBUF]
    <3>1. i \in 0 .. NBUF
      BY DEF Bufs
    <3>2. refcnt[i] + 1 \in Nat
      BY DEF Inductive, TypeOK
    <3> QED
      BY <1>1, <3>1, <3>2 DEF Inductive, TypeOK
  <2>2. (asleep \subseteq {q \in Procs : pc[q] = "lock"})'
    BY <1>2 DEF Inductive, TypeOK, BgetHit
  <2> QED
    BY <1>2, <2>1, <2>2 DEF Inductive, TypeOK, BgetHit
<1>4. OneCopy' /\ NoLostWakeup' /\ Coherent'
  BY <1>1, <1>2, BufCacheAssumption
  DEF Inductive, TypeOK, OneCopy, Holder, NoLostWakeup, Coherent, BgetHit
<1>5. Holding'
  BY <1>1, <1>2, BufCacheAssumption DEF Inductive, TypeOK, Holding, Holder, BgetHit
<1>6. Unwritten'
  BY <1>1, <1>2 DEF Inductive, TypeOK, Unwritten, BgetHit
<1>7. RefsExact'
  <2>1. Users(i)' = Users(i) \cup {p} /\ p \notin Users(i)
    BY <1>1, <1>2 DEF Inductive, TypeOK, Users
  <2>2. \A j \in Bufs : j # i => Users(j)' = Users(j)
    BY <1>1, <1>2 DEF Inductive, TypeOK, Users, Bufs
  <2>3. Cardinality(Users(i)') = Cardinality(Users(i)) + 1
    BY <2>1, FiniteUsers, FS_AddElement, SMTT(30)
  <2>4. \A j \in Bufs : refcnt[j] = Cardinality(Users(j)) + Pins(j) /\ Pins(j)' = Pins(j)
    BY DEF Inductive, RefsExact, Users, Pins, BgetHit
  <2>5. Pins(i) \in Nat /\ Cardinality(Users(i)) \in Nat
    BY FiniteUsers DEF Pins
  <2>6. \A j \in Bufs : refcnt'[j] = Cardinality(Users(j)') + Pins(j)'
    BY <1>1, <2>2, <2>3, <2>4, <2>5 DEF Inductive, TypeOK
  <2> QED
    BY <2>6 DEF RefsExact, Users, Pins
<1> QED
  BY <1>3, <1>4, <1>5, <1>6, <1>7 DEF Inductive

\* The victim is in nobody's hands and not ahead of the disk.
LEMMA BgetMissInv ==
    ASSUME Inductive, NEW p \in Procs, NEW n \in Blocks, BgetMiss(p, n)
    PROVE  Inductive'
<1>1. PICK i \in Bufs : i = Victim /\ refcnt[i] = 0
  <2>1. Max(Recyclable) \in Recyclable
    BY MaxExists, BufCacheAssumption DEF BgetMiss, Recyclable, Bufs
  <2>2. lru \in [Bufs -> Bufs]
    BY DEF Inductive, TypeOK, Bijection, Injection
  <2> QED
    BY <2>1, <2>2, Zenon DEF Recyclable, Victim
<1>2. i \notin pinned /\ \A q \in Procs : b[q] # i
  BY <1>1, Unused DEF Inductive
<1>3. /\ blockno' = [blockno EXCEPT ![i] = n] /\ valid' = [valid EXCEPT ![i] = FALSE]
      /\ refcnt' = [refcnt EXCEPT ![i] = 1] /\ b' = [b EXCEPT ![p] = i]
      /\ \A j \in Bufs : blockno[j] # n
  BY <1>1 DEF BgetMiss
<1>4. b[p] = 0 /\ i # 0 /\ pc[p] = "idle" /\ pc' = [pc EXCEPT ![p] = "lock"] /\ p \notin asleep
  BY DEF Inductive, Holding, BgetMiss, At, Goto, Bufs
<1>5. TypeOK'
  <2>1. refcnt' \in [Bufs -> Nat] /\ b' \in [Procs -> 0 .. NBUF]
    BY <1>3 DEF Inductive, TypeOK, Bufs
  <2>2. (asleep \subseteq {q \in Procs : pc[q] = "lock"})'
    BY <1>4 DEF Inductive, TypeOK, BgetMiss
  <2>3. blockno' \in [Bufs -> Blocks \cup {None}] /\ valid' \in [Bufs -> BOOLEAN]
    BY <1>3 DEF Inductive, TypeOK
  <2> QED
    BY <1>4, <2>1, <2>2, <2>3 DEF Inductive, TypeOK, BgetMiss
<1>6. OneCopy' /\ NoLostWakeup' /\ Coherent'
  <2>1. OneCopy'
    BY <1>2, <1>3, <1>4, BufCacheAssumption DEF Inductive, TypeOK, OneCopy, Holder, BgetMiss
  <2>2. NoLostWakeup'
    BY <1>3, <1>4 DEF Inductive, TypeOK, NoLostWakeup, BgetMiss
  <2>3. Coherent'
    BY <1>3 DEF Inductive, TypeOK, Coherent, BgetMiss
  <2> QED
    BY <2>1, <2>2, <2>3
<1>7. Holding'
  BY <1>2, <1>3, <1>4, BufCacheAssumption DEF Inductive, TypeOK, Holding, Holder, BgetMiss
<1>8. Unwritten'
  BY <1>2, <1>3, <1>4 DEF Inductive, TypeOK, Unwritten, BgetMiss
<1>9. RefsExact'
  <2>1. Users(i)' = {p}
    BY <1>2, <1>3 DEF Inductive, TypeOK, Users
  <2>2. \A j \in Bufs : j # i => Users(j)' = Users(j)
    BY <1>3, <1>4 DEF Inductive, TypeOK, Users, Bufs
  <2>3. Cardinality(Users(i)') = 1
    BY <2>1, FS_Singleton, Zenon
  <2>4. \A j \in Bufs : refcnt[j] = Cardinality(Users(j)) + Pins(j) /\ Pins(j)' = Pins(j)
    BY DEF Inductive, RefsExact, Users, Pins, BgetMiss
  <2>5. Pins(i)' = 0
    BY <1>2 DEF Pins, BgetMiss
  <2>6. \A j \in Bufs : refcnt'[j] = Cardinality(Users(j)') + Pins(j)'
    BY <1>3, <2>2, <2>3, <2>4, <2>5 DEF Inductive, TypeOK
  <2> QED
    BY <2>6 DEF RefsExact, Users, Pins
<1> QED
  BY <1>5, <1>6, <1>7, <1>8, <1>9 DEF Inductive

------------------------------------------------------------------------------
(* The sleep lock *)

\* Nothing that is counted changes.
LEMMA SameRefs ==
    ASSUME RefsExact, UNCHANGED <<refcnt, b, pinned>>
    PROVE  RefsExact'
BY DEF RefsExact

\* A process that is stuck has no buffer, like one that is idle.
LEMMA BgetPanicInv ==
    ASSUME Inductive, NEW p \in Procs, NEW n \in Blocks, BgetPanic(p, n)
    PROVE  Inductive'
<1>1. b[p] = 0 /\ pc[p] = "idle" /\ pc' = [pc EXCEPT ![p] = "panic"] /\ p \notin asleep
  BY DEF Inductive, Holding, BgetPanic, At, Goto
<1>2. TypeOK'
  <2>1. (asleep \subseteq {q \in Procs : pc[q] = "lock"})'
    BY <1>1 DEF Inductive, TypeOK, BgetPanic
  <2> QED
    BY <1>1, <2>1 DEF Inductive, TypeOK, BgetPanic, cache
<1>3. OneCopy' /\ NoLostWakeup' /\ Coherent'
  BY <1>1 DEF Inductive, TypeOK, OneCopy, Holder, NoLostWakeup, Coherent, BgetPanic, cache
<1>4. Holding' /\ Unwritten'
  BY <1>1 DEF Inductive, TypeOK, Holding, Holder, Unwritten, BgetPanic, cache
<1>5. RefsExact'
  BY SameRefs DEF Inductive, BgetPanic, cache
<1> QED
  BY <1>2, <1>3, <1>4, <1>5 DEF Inductive

LEMMA Buffer ==
    ASSUME Inductive, NEW p \in Procs, pc[p] \notin {"idle", "panic"}
    PROVE  b[p] \in Bufs /\ blockno[b[p]] \in Blocks
BY DEF Inductive, TypeOK, Holding, Bufs

LEMMA AcquiresleepInv ==
    ASSUME Inductive, NEW p \in Procs, Acquiresleep(p)
    PROVE  Inductive'
<1>1. PICK i \in Bufs : i = b[p]
  BY Buffer DEF Acquiresleep, At
<1>2. /\ locked[i] = None /\ locked' = [locked EXCEPT ![i] = p] /\ pc[p] = "lock" /\ p \notin asleep
      /\ pc' = [pc EXCEPT ![p] = IF valid[i] THEN "held" ELSE "read"]
  BY <1>1 DEF Acquiresleep, At, Goto
<1>3. TypeOK'
  <2>1. (asleep \subseteq {q \in Procs : pc[q] = "lock"})'
    BY <1>2 DEF Inductive, TypeOK, Acquiresleep
  <2>2. locked' \in [Bufs -> Procs \cup {None}]
    BY <1>2 DEF Inductive, TypeOK
  <2>3. pc' \in [Procs -> {"idle", "lock", "read", "held", "dirty", "unpin", "release", "panic"}]
    BY <1>2 DEF Inductive, TypeOK
  <2> QED
    BY <2>1, <2>2, <2>3 DEF Inductive, TypeOK, Acquiresleep, cache
<1>4. OneCopy'
  BY <1>1, <1>2, BufCacheAssumption DEF Inductive, TypeOK, OneCopy, Holder, Acquiresleep, cache
<1>5. NoLostWakeup' /\ Coherent'
  BY <1>1, <1>2, BufCacheAssumption DEF Inductive, TypeOK, NoLostWakeup, Coherent, Acquiresleep, cache
<1>6. Holding'
  BY <1>1, <1>2, BufCacheAssumption DEF Inductive, TypeOK, Holding, Holder, Acquiresleep, cache
<1>7. Unwritten'
  BY <1>1, <1>2 DEF Inductive, TypeOK, Unwritten, Acquiresleep, cache
<1>8. RefsExact'
  BY SameRefs DEF Inductive, Acquiresleep, cache
<1> QED
  BY <1>3, <1>4, <1>5, <1>6, <1>7, <1>8 DEF Inductive

LEMMA AcquiresleepWaitInv ==
    ASSUME Inductive, NEW p \in Procs, AcquiresleepWait(p)
    PROVE  Inductive'
<1>1. RefsExact'
  BY SameRefs DEF Inductive, AcquiresleepWait, cache
<1>2. TypeOK'
  BY DEF Inductive, TypeOK, AcquiresleepWait, At, cache
<1>3. OneCopy' /\ NoLostWakeup' /\ Holding' /\ Coherent' /\ Unwritten'
  BY DEF Inductive, OneCopy, NoLostWakeup, Holding, Holder, Coherent, Unwritten, AcquiresleepWait, At, cache
<1> QED
  BY <1>1, <1>2, <1>3 DEF Inductive

LEMMA ReleasesleepInv ==
    ASSUME Inductive, NEW p \in Procs, Releasesleep(p)
    PROVE  Inductive'
<1>1. PICK i \in Bufs : i = b[p]
  BY Buffer DEF Releasesleep, At
<1>2. /\ locked' = [locked EXCEPT ![i] = None] /\ pc[p] = "held" /\ p \notin asleep
      /\ pc' = [pc EXCEPT ![p] = "release"] /\ asleep' = {q \in asleep : b[q] # i}
  BY <1>1 DEF Releasesleep, At, Goto
<1>3. TypeOK'
  <2>1. (asleep \subseteq {q \in Procs : pc[q] = "lock"})'
    BY <1>2 DEF Inductive, TypeOK
  <2> QED
    BY <1>2, <2>1, Zenon DEF Inductive, TypeOK, Releasesleep, cache
<1>4. OneCopy'
  BY <1>1, <1>2, BufCacheAssumption DEF Inductive, TypeOK, OneCopy, Holder, Releasesleep, cache
<1>5. NoLostWakeup'
  BY <1>1, <1>2 DEF Inductive, TypeOK, NoLostWakeup, Releasesleep
<1>6. Coherent'
  BY DEF Inductive, Coherent, Releasesleep, cache
<1>7. Holding'
  BY <1>1, <1>2, BufCacheAssumption DEF Inductive, TypeOK, Holding, Holder, Releasesleep, cache
<1>8. Unwritten'
  BY <1>1, <1>2 DEF Inductive, TypeOK, Unwritten, Releasesleep, cache
<1>9. RefsExact'
  BY SameRefs DEF Inductive, Releasesleep, cache
<1> QED
  BY <1>3, <1>4, <1>5, <1>6, <1>7, <1>8, <1>9 DEF Inductive

------------------------------------------------------------------------------
(* The holder of a buffer, and the disk *)

LEMMA BreadInv ==
    ASSUME Inductive, NEW p \in Procs, Bread(p)
    PROVE  Inductive'
<1>1. PICK i \in Bufs : i = b[p] /\ blockno[i] \in Blocks
  BY Buffer DEF Bread, At
<1>2. /\ data' = [data EXCEPT ![i] = disk[blockno[i]]] /\ valid' = [valid EXCEPT ![i] = TRUE]
      /\ pc[p] = "read" /\ p \notin asleep /\ pc' = [pc EXCEPT ![p] = "held"]
  BY <1>1 DEF Bread, At, Goto
<1>3. ~valid[i] /\ locked[i] = p /\ Holder(p)
  BY <1>1, <1>2 DEF Inductive, Holding, Holder, OneCopy
<1>4. disk[blockno[i]] = latest[blockno[i]]
  BY <1>1, <1>3 DEF Inductive, Unwritten, OneCopy, Holding
<1>5. TypeOK'
  <2>1. (asleep \subseteq {q \in Procs : pc[q] = "lock"})'
    BY <1>2 DEF Inductive, TypeOK, Bread
  <2>2. data' \in [Bufs -> Values] /\ valid' \in [Bufs -> BOOLEAN]
    BY <1>1, <1>2 DEF Inductive, TypeOK
  <2> QED
    BY <1>2, <2>1, <2>2 DEF Inductive, TypeOK, Bread
<1>6. OneCopy' /\ NoLostWakeup'
  BY <1>1, <1>2, BufCacheAssumption DEF Inductive, TypeOK, OneCopy, Holder, NoLostWakeup, Bread
<1>7. Coherent'
  BY <1>2, <1>4 DEF Inductive, TypeOK, Coherent, Bread
<1>8. Holding'
  BY <1>1, <1>2, <1>3, BufCacheAssumption DEF Inductive, TypeOK, OneCopy, Holding, Holder, Bread
<1>9. Unwritten'
  BY <1>1, <1>2 DEF Inductive, TypeOK, Unwritten, Bread
<1>10. RefsExact'
  BY SameRefs DEF Inductive, Bread
<1> QED
  BY <1>5, <1>6, <1>7, <1>8, <1>9, <1>10 DEF Inductive

LEMMA ModifyInv ==
    ASSUME Inductive, NEW p \in Procs, NEW v \in Values, Modify(p, v)
    PROVE  Inductive'
<1>1. PICK i \in Bufs, n \in Blocks : i = b[p] /\ blockno[i] = n
  BY Buffer DEF Modify, At
<1>2. /\ data' = [data EXCEPT ![i] = v] /\ latest' = [latest EXCEPT ![n] = v]
      /\ pc[p] = "held" /\ p \notin asleep /\ pc' = [pc EXCEPT ![p] = "dirty"]
  BY <1>1 DEF Modify, Store, At, Goto
<1>3. valid[i] /\ Holder(p)
  BY <1>1, <1>2 DEF Inductive, Holding, Holder
<1>4. \A j \in Bufs : blockno[j] = n => j = i
  BY <1>1, BufCacheAssumption DEF Inductive, OneCopy
<1>5. TypeOK'
  <2>1. (asleep \subseteq {q \in Procs : pc[q] = "lock"})'
    BY <1>2 DEF Inductive, TypeOK, Modify
  <2>2. data' \in [Bufs -> Values] /\ latest' \in [Blocks -> Values]
    BY <1>2 DEF Inductive, TypeOK
  <2> QED
    BY <1>2, <2>1, <2>2 DEF Inductive, TypeOK, Modify
<1>6. OneCopy' /\ NoLostWakeup'
  BY <1>1, <1>2, BufCacheAssumption DEF Inductive, TypeOK, OneCopy, Holder, NoLostWakeup, Modify
<1>7. Coherent'
  BY <1>1, <1>2, <1>4 DEF Inductive, TypeOK, Coherent, Modify
<1>8. Holding'
  <2>1. \A q \in Procs : q # p /\ pc[q] = "unpin" => b[q] \in Bufs /\ blockno[b[q]] \in Blocks \ {n}
    BY <1>1, <1>3, <1>4, Buffer DEF Inductive, OneCopy, Holder
  <2> QED
    BY <1>1, <1>2, <1>3, <2>1, BufCacheAssumption DEF Inductive, TypeOK, Holding, Holder, Modify
<1>9. Unwritten'
  BY <1>1, <1>2, <1>3 DEF Inductive, TypeOK, Unwritten, Modify
<1>10. RefsExact'
  BY SameRefs DEF Inductive, Modify
<1> QED
  BY <1>5, <1>6, <1>7, <1>8, <1>9, <1>10 DEF Inductive

LEMMA BwriteInv ==
    ASSUME Inductive, NEW p \in Procs, Bwrite(p)
    PROVE  Inductive'
<1>1. PICK i \in Bufs, n \in Blocks : i = b[p] /\ blockno[i] = n
  BY Buffer DEF Bwrite, At
<1>2. /\ disk' = [disk EXCEPT ![n] = data[i]] /\ pc[p] = "dirty" /\ p \notin asleep
      /\ pc' = [pc EXCEPT ![p] = IF i \in pinned THEN "unpin" ELSE "held"]
  BY <1>1 DEF Bwrite, At, Goto
<1>3. valid[i] /\ data[i] = latest[n]
  BY <1>1, <1>2, BufCacheAssumption DEF Inductive, Holding, Holder, Coherent
<1>4. TypeOK'
  <2>1. (asleep \subseteq {q \in Procs : pc[q] = "lock"})'
    BY <1>2 DEF Inductive, TypeOK, Bwrite
  <2>2. disk' \in [Blocks -> Values]
    BY <1>2 DEF Inductive, TypeOK
  <2>3. pc' \in [Procs -> {"idle", "lock", "read", "held", "dirty", "unpin", "release", "panic"}]
    BY <1>2 DEF Inductive, TypeOK
  <2> QED
    BY <2>1, <2>2, <2>3 DEF Inductive, TypeOK, Bwrite, cache
<1>5. OneCopy' /\ NoLostWakeup'
  BY <1>1, <1>2, BufCacheAssumption DEF Inductive, TypeOK, OneCopy, Holder, NoLostWakeup, Bwrite, cache
<1>6. Coherent'
  BY DEF Inductive, Coherent, Bwrite, cache
<1>7. Holding'
  BY <1>1, <1>2, <1>3, BufCacheAssumption, Buffer DEF Inductive, TypeOK, Holding, Holder, Bwrite, cache
<1>8. Unwritten'
  BY <1>1, <1>2, <1>3 DEF Inductive, TypeOK, Unwritten, Bwrite, cache
<1>9. RefsExact'
  BY SameRefs DEF Inductive, Bwrite, cache
<1> QED
  BY <1>4, <1>5, <1>6, <1>7, <1>8, <1>9 DEF Inductive

LEMMA InstallInv ==
    ASSUME Inductive, NEW p \in Procs, Install(p)
    PROVE  Inductive'
<1>1. pc[p] = "held" /\ p \notin asleep /\ pc' = [pc EXCEPT ![p] = "dirty"]
  BY DEF Install, At, Goto
<1>2. TypeOK'
  <2>1. (asleep \subseteq {q \in Procs : pc[q] = "lock"})'
    BY <1>1 DEF Inductive, TypeOK, Install
  <2> QED
    BY <1>1, <2>1 DEF Inductive, TypeOK, Install, cache
<1>3. OneCopy' /\ NoLostWakeup' /\ Coherent'
  BY <1>1 DEF Inductive, TypeOK, OneCopy, Holder, NoLostWakeup, Coherent, Install, cache
<1>4. Holding' /\ Unwritten'
  BY <1>1 DEF Inductive, TypeOK, Holding, Holder, Unwritten, Install, cache
<1>5. RefsExact'
  BY SameRefs DEF Inductive, Install, cache
<1> QED
  BY <1>2, <1>3, <1>4, <1>5 DEF Inductive

LEMMA BpinInv ==
    ASSUME Inductive, NEW p \in Procs, NEW v \in Values, Bpin(p, v)
    PROVE  Inductive'
<1>1. PICK i \in Bufs, n \in Blocks : i = b[p] /\ blockno[i] = n
  BY Buffer DEF Bpin, At
<1>2. /\ data' = [data EXCEPT ![i] = v] /\ latest' = [latest EXCEPT ![n] = v]
      /\ pc[p] = "held" /\ pinned' = pinned \cup {i}
      /\ refcnt' = IF i \in pinned THEN refcnt ELSE [refcnt EXCEPT ![i] = refcnt[i] + 1]
  BY <1>1 DEF Bpin, Store, At
<1>3. valid[i] /\ Holder(p)
  BY <1>1, <1>2 DEF Inductive, Holding, Holder
<1>4. \A j \in Bufs : blockno[j] = n => j = i
  BY <1>1, BufCacheAssumption DEF Inductive, OneCopy
<1>5. TypeOK'
  <2>1. data' \in [Bufs -> Values] /\ latest' \in [Blocks -> Values] /\ pinned' \subseteq Bufs
    BY <1>2 DEF Inductive, TypeOK
  <2>2. refcnt' \in [Bufs -> Nat]
    BY <1>2 DEF Inductive, TypeOK
  <2> QED
    BY <2>1, <2>2 DEF Inductive, TypeOK, Bpin
<1>6. OneCopy' /\ NoLostWakeup'
  BY DEF Inductive, OneCopy, Holder, NoLostWakeup, Bpin
<1>7. Coherent'
  BY <1>1, <1>2, <1>4 DEF Inductive, TypeOK, Coherent, Bpin
<1>8. Holding'
  <2>1. \A q \in Procs : q # p /\ pc[q] = "unpin" => b[q] \in Bufs /\ blockno[b[q]] \in Blocks \ {n}
    BY <1>1, <1>3, <1>4, Buffer DEF Inductive, OneCopy, Holder
  <2> QED
    BY <1>1, <1>2, <2>1 DEF Inductive, TypeOK, Holding, Holder, Bpin
<1>9. Unwritten'
  BY <1>1, <1>2, <1>3 DEF Inductive, TypeOK, Unwritten, Bpin
<1>10. RefsExact'
  <2>1. \A j \in Bufs : refcnt[j] = Cardinality(Users(j)) + Pins(j) /\ Users(j)' = Users(j)
    BY DEF Inductive, RefsExact, Users, Pins, Bpin
  <2>2. \A j \in Bufs : j # i => Pins(j)' = Pins(j)
    BY <1>2 DEF Pins
  <2>3. Pins(i)' = 1 /\ Pins(i) = (IF i \in pinned THEN 1 ELSE 0)
    BY <1>2 DEF Pins
  <2>4. Cardinality(Users(i)) \in Nat
    BY FiniteUsers
  <2>5. \A j \in Bufs : refcnt'[j] = Cardinality(Users(j)') + Pins(j)'
    BY <1>2, <2>1, <2>2, <2>3, <2>4 DEF Inductive, TypeOK
  <2> QED
    BY <2>5 DEF RefsExact, Users, Pins
<1> QED
  BY <1>5, <1>6, <1>7, <1>8, <1>9, <1>10 DEF Inductive

LEMMA BunpinInv ==
    ASSUME Inductive, NEW p \in Procs, Bunpin(p)
    PROVE  Inductive'
<1>1. PICK i \in Bufs, n \in Blocks : i = b[p] /\ blockno[i] = n
  BY Buffer DEF Bunpin, At
<1>2. /\ refcnt' = [refcnt EXCEPT ![i] = refcnt[i] - 1] /\ pinned' = pinned \ {i}
      /\ pc[p] = "unpin" /\ p \notin asleep /\ pc' = [pc EXCEPT ![p] = "held"]
  BY <1>1 DEF Bunpin, At, Goto
<1>3. valid[i] /\ Holder(p) /\ i \in pinned /\ disk[n] = latest[n] /\ locked[i] = p
  BY <1>1, <1>2 DEF Inductive, Holding, Holder, OneCopy
<1>4. refcnt[i] \in Nat \ {0}
  BY <1>3, Unused DEF Inductive, TypeOK
<1>5. TypeOK'
  <2>1. (asleep \subseteq {q \in Procs : pc[q] = "lock"})'
    BY <1>2 DEF Inductive, TypeOK, Bunpin
  <2>2. refcnt' \in [Bufs -> Nat] /\ pinned' \subseteq Bufs
    BY <1>2, <1>4 DEF Inductive, TypeOK
  <2> QED
    BY <1>2, <2>1, <2>2 DEF Inductive, TypeOK, Bunpin
<1>6. OneCopy' /\ NoLostWakeup' /\ Coherent'
  BY <1>1, <1>2 DEF Inductive, TypeOK, OneCopy, Holder, NoLostWakeup, Coherent, Bunpin
<1>7. Holding'
  <2>1. \A q \in Procs : q # p /\ Holder(q) => b[q] # i
    BY <1>3 DEF Inductive, OneCopy
  <2> QED
    BY <1>1, <1>2, <2>1 DEF Inductive, TypeOK, Holding, Holder, Bunpin
<1>8. Unwritten'
  BY <1>1, <1>2, <1>3 DEF Inductive, TypeOK, Unwritten, Bunpin
<1>9. RefsExact'
  <2>1. \A j \in Bufs : refcnt[j] = Cardinality(Users(j)) + Pins(j) /\ Users(j)' = Users(j)
    BY DEF Inductive, RefsExact, Users, Pins, Bunpin
  <2>2. \A j \in Bufs : j # i => Pins(j)' = Pins(j)
    BY <1>2 DEF Pins
  <2>3. Pins(i)' = 0 /\ Pins(i) = 1
    BY <1>2, <1>3 DEF Pins
  <2>4. Cardinality(Users(i)) \in Nat
    BY FiniteUsers
  <2>5. \A j \in Bufs : refcnt'[j] = Cardinality(Users(j)') + Pins(j)'
    BY <1>2, <2>1, <2>2, <2>3, <2>4 DEF Inductive, TypeOK
  <2> QED
    BY <2>5 DEF RefsExact, Users, Pins
<1> QED
  BY <1>5, <1>6, <1>7, <1>8, <1>9 DEF Inductive

LEMMA BrelseInv ==
    ASSUME Inductive, NEW p \in Procs, Brelse(p)
    PROVE  Inductive'
<1>1. PICK i \in Bufs : i = b[p]
  BY Buffer DEF Brelse, At
<1>2. /\ refcnt' = [refcnt EXCEPT ![i] = refcnt[i] - 1] /\ b' = [b EXCEPT ![p] = 0]
      /\ lru' = IF refcnt[i] = 1 THEN MoveToFront(lru, i) ELSE lru
      /\ pc[p] = "release" /\ p \notin asleep /\ pc' = [pc EXCEPT ![p] = "idle"] /\ 0 \notin Bufs
  BY <1>1 DEF Brelse, At, Goto, Bufs
<1>3. refcnt[i] \in Nat \ {0}
  BY <1>1, Unused DEF Inductive, TypeOK
<1>4. TypeOK'
  <2>1. (asleep \subseteq {q \in Procs : pc[q] = "lock"})'
    BY <1>2 DEF Inductive, TypeOK, Brelse
  <2>2. refcnt' \in [Bufs -> Nat]
    BY <1>2, <1>3 DEF Inductive, TypeOK
  <2>3. b' \in [Procs -> 0 .. NBUF]
    BY <1>2, BufCacheAssumption DEF Inductive, TypeOK
  <2>4. lru' \in Bijection(Bufs, Bufs)
    BY <1>2, MovedToFront, BufCacheAssumption DEF Inductive, TypeOK
  <2> QED
    BY <1>2, <2>1, <2>2, <2>3, <2>4 DEF Inductive, TypeOK, Brelse
<1>5. OneCopy' /\ NoLostWakeup' /\ Coherent'
  BY <1>1, <1>2, BufCacheAssumption
  DEF Inductive, TypeOK, OneCopy, Holder, NoLostWakeup, Coherent, Brelse
<1>6. Holding'
  BY <1>1, <1>2 DEF Inductive, TypeOK, Holding, Holder, Brelse
<1>7. Unwritten'
  BY <1>1, <1>2 DEF Inductive, TypeOK, Unwritten, Brelse
<1>8. RefsExact'
  <2>1. Users(i)' = Users(i) \ {p} /\ p \in Users(i)
    BY <1>1, <1>2 DEF Inductive, TypeOK, Users
  <2>2. \A j \in Bufs : j # i => Users(j)' = Users(j)
    BY <1>1, <1>2 DEF Inductive, TypeOK, Users
  <2>3. Cardinality(Users(i)') = Cardinality(Users(i)) - 1
    BY <2>1, FiniteUsers, FS_RemoveElement, ZenonT(30)
  <2>4. \A j \in Bufs : refcnt[j] = Cardinality(Users(j)) + Pins(j) /\ Pins(j)' = Pins(j)
    BY DEF Inductive, RefsExact, Users, Pins, Brelse
  <2>5. Pins(i) \in Nat /\ Cardinality(Users(i)) \in Nat
    BY FiniteUsers DEF Pins
  <2>6. \A j \in Bufs : refcnt'[j] = Cardinality(Users(j)') + Pins(j)'
    BY <1>2, <2>2, <2>3, <2>4, <2>5 DEF Inductive, TypeOK
  <2> QED
    BY <2>6 DEF RefsExact, Users, Pins
<1> QED
  BY <1>4, <1>5, <1>6, <1>7, <1>8 DEF Inductive

------------------------------------------------------------------------------
LEMMA CacheStepInv ==
    ASSUME Inductive, NEW p \in Procs, CacheStep(p)
    PROVE  Inductive'
BY BgetHitInv, BgetMissInv, BgetPanicInv, AcquiresleepInv, AcquiresleepWaitInv, InstallInv, BunpinInv,
   ReleasesleepInv, BrelseInv, ModifyInv, BpinInv DEF CacheStep

LEMMA StepInv == Inductive /\ [Next]_vars => Inductive'
<1> SUFFICES ASSUME Inductive, [Next]_vars PROVE Inductive'
  OBVIOUS
<1>1. ASSUME NEW p \in Procs, CacheStep(p) \/ Bread(p) \/ Bwrite(p) PROVE Inductive'
  BY <1>1, CacheStepInv, BreadInv, BwriteInv
<1>2. CASE UNCHANGED vars
  <2>1. UNCHANGED <<lru, blockno, valid, refcnt, data, locked, asleep, pc, b, disk, pinned, latest>>
    BY <1>2, Zenon DEF vars, cache
  <2>2. RefsExact'
    BY <2>1, SameRefs DEF Inductive
  <2>3. TypeOK'
    BY <2>1 DEF Inductive, TypeOK
  <2>4. OneCopy' /\ NoLostWakeup' /\ Holding'
    BY <2>1 DEF Inductive, OneCopy, NoLostWakeup, Holding, Holder
  <2>5. Coherent' /\ Unwritten'
    BY <2>1 DEF Inductive, Coherent, Unwritten, Holder
  <2> QED
    BY <2>2, <2>3, <2>4, <2>5 DEF Inductive
<1> QED
  BY <1>1, <1>2 DEF Next

\* However many processes, buffers and blocks there are, bget, brelse, bpin, bunpin
\* and the sleep locks keep the cache coherent: CacheInv, by the invariant that a
\* valid buffer is never stale and that only a pinned buffer, or one about to be
\* written, is ahead of the disk.
THEOREM CacheInvariant == Spec => []CacheInv
<1>1. Init => Inductive
  BY InitInv
<1>2. Inductive /\ [Next]_vars => Inductive'
  BY StepInv
<1>3. Inductive => CacheInv
  BY InductiveIsCacheInv
<1> QED
  BY <1>1, <1>2, <1>3, PTL DEF Spec
=============================================================================
