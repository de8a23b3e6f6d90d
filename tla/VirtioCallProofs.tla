-------------------------- MODULE VirtioCallProofs --------------------------
(***************************************************************************)
(* The inductive invariant of the driver, the initial states and the steps *)
(* of the cache and of a call into the driver up to the sleep that waits   *)
(* for the device; VirtioProofs has the other steps and the theorems.      *)
(***************************************************************************)
EXTENDS Virtio, BufCacheProofs, SequenceTheorems

\* The descriptors of the call that p is in.
Held(p) == IF idx[p] = <<>> THEN {} ELSE {idx[p][1], idx[p][2], idx[p][3]}

\* DescriptorsOwned without the chains, which CallsIntact has.
Owned ==
    /\ \A p, q \in Procs : p # q => Held(p) \cap Held(q) = {}
    /\ \A i \in Desc : i \in free <=> \A p \in Procs : i \notin Held(p)

Rings == Range(avail) \cup busy \cup Range(used)

\* DeviceOwnsRequest without what CallsIntact says of every call.
Requests(p, i) ==
    /\ idx[p] # <<>> /\ idx[p][1] = i /\ b[p] \in b_disk
    /\ i \in Range(used) => info[i].status = 0

Outstanding == \A i \in Rings : \E p \in Procs : Requests(p, i)

VInductive ==
    /\ Inductive
    /\ VTypeOK /\ Owned /\ CallsIntact /\ Outstanding /\ InOnePlace /\ Waits

------------------------------------------------------------------------------
(* Sequences *)

LEMMA RangeType ==
    ASSUME NEW S, NEW s \in Seq(S)
    PROVE  /\ Range(s) = {s[k] : k \in 1 .. Len(s)} /\ Range(s) \subseteq S
           /\ Len(s) \in Nat /\ (s = <<>> <=> Len(s) = 0)
<1>1. DOMAIN s = 1 .. Len(s) /\ Len(s) \in Nat
  BY LenProperties, Zenon
<1>2. \A k \in 1 .. Len(s) : s[k] \in S
  BY ElementOfSeq, Zenon
<1> QED
  BY <1>1, <1>2, EmptySeq, Zenon DEF Range

LEMMA RangeAppend ==
    ASSUME NEW S, NEW s \in Seq(S), NEW x \in S
    PROVE  /\ Append(s, x) \in Seq(S) /\ Append(s, x) # <<>>
           /\ Range(Append(s, x)) = Range(s) \cup {x}
           /\ Distinct(s) /\ x \notin Range(s) => Distinct(Append(s, x))
<1> DEFINE t == Append(s, x)
<1>1. /\ t \in Seq(S) /\ Len(t) = Len(s) + 1 /\ Len(s) \in Nat
      /\ (\A k \in 1 .. Len(s) : t[k] = s[k]) /\ t[Len(s) + 1] = x
  BY AppendProperties, LenProperties
<1>2. Range(s) = {s[k] : k \in 1 .. Len(s)}
  BY RangeType, Zenon
<1>3. Range(t) = {t[k] : k \in 1 .. Len(t)}
  BY <1>1, RangeType, Zenon
<1> HIDE DEF t
<1>4. Range(t) = Range(s) \cup {x}
  BY <1>1, <1>2, <1>3
<1>5. Distinct(s) /\ x \notin Range(s) => Distinct(t)
  BY <1>1, <1>2 DEF Distinct
<1>6. t # <<>>
  BY <1>1, EmptySeq
<1> QED
  BY <1>1, <1>4, <1>5, <1>6, Zenon DEF t

LEMMA RangeTail ==
    ASSUME NEW S, NEW s \in Seq(S), s # <<>>, Distinct(s)
    PROVE  /\ Head(s) \in S /\ Tail(s) \in Seq(S) /\ Distinct(Tail(s))
           /\ Head(s) \in Range(s) /\ Range(Tail(s)) = Range(s) \ {Head(s)}
<1> DEFINE t == Tail(s)
<1>1. /\ t \in Seq(S) /\ Len(t) = Len(s) - 1 /\ Len(s) \in Nat \ {0}
      /\ (\A k \in 1 .. Len(t) : t[k] = s[k + 1]) /\ Head(s) = s[1] /\ Head(s) \in S
  BY HeadTailProperties, LenProperties, EmptySeq
<1>2. Range(s) = {s[k] : k \in 1 .. Len(s)}
  BY RangeType
<1>3. Range(t) = {t[k] : k \in 1 .. Len(t)}
  BY <1>1, RangeType, Zenon
<1> HIDE DEF t
<1>4. Distinct(t)
  BY <1>1 DEF Distinct
<1>5. Head(s) \in Range(s) /\ Range(t) \subseteq Range(s) \ {Head(s)}
  BY <1>1, <1>2, <1>3 DEF Distinct
<1>6. ASSUME NEW k \in 1 .. Len(s), s[k] # Head(s) PROVE s[k] \in Range(t)
  <2>1. k - 1 \in 1 .. Len(t) /\ t[k - 1] = s[k]
    BY <1>1, <1>6
  <2> QED
    BY <1>3, <2>1, Zenon
<1> QED
  BY <1>1, <1>2, <1>4, <1>5, <1>6 DEF t

\* A sequence of distinct descriptors is no longer than the queue.
LEMMA DistinctLength ==
    ASSUME NEW N \in Nat, NEW s \in Seq(0 .. N - 1), Distinct(s)
    PROVE  Len(s) <= N
<1>1. Len(s) \in Nat /\ \A k \in 1 .. Len(s) : s[k] \in 0 .. N - 1
  BY LenProperties, ElementOfSeq, Zenon
<1>2. IsFiniteSet(0 .. N - 1) /\ Cardinality(0 .. N - 1) = N
  BY FS_Interval
<1>3. PICK m \in Nat : m = Len(s)
  BY <1>1, Zenon
<1>4. IsFiniteSet(1 .. m) /\ Cardinality(1 .. m) = m
  <2>1. 1 \in Int /\ m \in Int
    OBVIOUS
  <2> QED
    BY <2>1, FS_Interval, SMTT(30)
<1> DEFINE f == [k \in 1 .. m |-> s[k]]
<1>5. f \in Injection(1 .. m, 0 .. N - 1)
  BY <1>1, <1>3 DEF Distinct, Injection, IsInjective
<1>6. Cardinality(1 .. m) <= Cardinality(0 .. N - 1)
  <2> HIDE DEF f
  <2> QED
    BY <1>2, <1>5, FS_Injection
<1> QED
  BY <1>2, <1>3, <1>4, <1>6, Zenon

LEMMA MinExists ==
    ASSUME NEW S, S \subseteq Nat, S # {}
    PROVE  Min(S) \in S
<1> DEFINE R == OpToRel(<, Nat)
<1>1. IsWellFoundedOn(R, Nat)
  BY NatLessThanWellFounded, Zenon
<1>2. \E x \in S : \A y \in S : ~ (<<y, x>> \in R)
  <2> HIDE DEF R
  <2> QED
    BY <1>1, WFMin, Zenon
<1>3. PICK x \in S : \A y \in S : ~(y < x)
  BY <1>2, Zenon DEF OpToRel
<1>4. \A y \in S : x <= y
  BY <1>3
<1> QED
  BY <1>4, Zenon DEF Min

------------------------------------------------------------------------------
(* Calls *)

LEMMA HeldRange ==
    ASSUME VTypeOK, NEW p \in Procs
    PROVE  Range(idx[p]) = Held(p)
<1>1. CASE idx[p] = <<>>
  BY <1>1 DEF Range, Held
<1>2. CASE idx[p] # <<>>
  <2>1. idx[p] \in Desc \X Desc \X Desc
    BY <1>2, Zenon DEF VTypeOK
  <2>2. PICK i, j, k \in Desc : idx[p] = <<i, j, k>>
    BY <2>1
  <2>3. DOMAIN <<i, j, k>> = 1 .. 3
    OBVIOUS
  <2> QED
    BY <1>2, <2>2, <2>3, SMTT(30) DEF Range, Held
<1> QED
  BY <1>1, <1>2, Zenon

LEMMA Call ==
    ASSUME VInductive, NEW p \in Procs, idx[p] # <<>>
    PROVE  /\ idx[p] \in Desc \X Desc \X Desc
           /\ idx[p][1] \in Desc /\ idx[p][2] \in Desc /\ idx[p][3] \in Desc
           /\ pc[p] \in {"read", "dirty"} /\ Holder(p)
           /\ b[p] \in Bufs /\ blockno[b[p]] \in Blocks /\ locked[b[p]] = p
<1>1. idx[p] \in Desc \X Desc \X Desc
  BY DEF VInductive, VTypeOK
<1>2. pc[p] \in {"read", "dirty"}
  BY Zenon DEF VInductive, CallsIntact
<1>3. b[p] \in Bufs /\ blockno[b[p]] \in Blocks
  BY <1>2, Buffer, Zenon DEF VInductive
<1> QED
  BY <1>1, <1>2, <1>3, Zenon DEF VInductive, Inductive, OneCopy, Holder

\* CallsIntact for one call
Intact(p) ==
    /\ pc[p] \in {"read", "dirty"}
    /\ idx[p][1] # idx[p][2] /\ idx[p][1] # idx[p][3] /\ idx[p][2] # idx[p][3]
    /\ desc[idx[p][1]] = [addr |-> <<"op", idx[p][1]>>, next |-> idx[p][2]]
    /\ desc[idx[p][2]] = [addr |-> <<"data", b[p]>>, next |-> idx[p][3]]
    /\ desc[idx[p][3]] = [addr |-> <<"status", idx[p][1]>>, next |-> None]
    /\ ops[idx[p][1]] = OpOf(p)
    /\ info[idx[p][1]].b = b[p]

LEMMA IntactCalls == CallsIntact <=> \A p \in Procs : idx[p] # <<>> => Intact(p)
BY Zenon DEF CallsIntact, Intact

LEMMA IntactNext == CallsIntact' <=> \A p \in Procs : idx'[p] # <<>> => Intact(p)'
BY Zenon DEF CallsIntact, Intact

LEMMA CallTables ==
    ASSUME CallsIntact, NEW p \in Procs, idx[p] # <<>>
    PROVE  /\ idx[p][1] # idx[p][2] /\ idx[p][1] # idx[p][3] /\ idx[p][2] # idx[p][3]
           /\ desc[idx[p][1]] = [addr |-> <<"op", idx[p][1]>>, next |-> idx[p][2]]
           /\ desc[idx[p][2]] = [addr |-> <<"data", b[p]>>, next |-> idx[p][3]]
           /\ desc[idx[p][3]] = [addr |-> <<"status", idx[p][1]>>, next |-> None]
           /\ ops[idx[p][1]] = OpOf(p)
           /\ info[idx[p][1]].b = b[p]
BY Zenon DEF CallsIntact

\* What the device finds when it follows the chain.
LEMMA CallChain ==
    ASSUME CallsIntact, NEW p \in Procs, idx[p] # <<>>
    PROVE  /\ desc[idx[p][1]].next = idx[p][2] /\ desc[idx[p][1]].addr[2] = idx[p][1]
           /\ desc[idx[p][2]].next = idx[p][3] /\ desc[idx[p][2]].addr = <<"data", b[p]>>
           /\ desc[idx[p][2]].addr[2] = b[p] /\ desc[idx[p][3]].addr[2] = idx[p][1]
           /\ (ops[idx[p][1]].type = "out" <=> pc[p] = "dirty") /\ ops[idx[p][1]].block = blockno[b[p]]
<1>1. desc[idx[p][1]] = [addr |-> <<"op", idx[p][1]>>, next |-> idx[p][2]]
  BY CallTables, Zenon
<1>2. desc[idx[p][2]] = [addr |-> <<"data", b[p]>>, next |-> idx[p][3]]
  BY CallTables, Zenon
<1>3. desc[idx[p][3]] = [addr |-> <<"status", idx[p][1]>>, next |-> None]
  BY CallTables, Zenon
<1>4. ops[idx[p][1]] = OpOf(p)
  BY CallTables, Zenon
<1>5. desc[idx[p][1]].next = idx[p][2] /\ desc[idx[p][1]].addr[2] = idx[p][1]
  BY <1>1
<1>6. desc[idx[p][2]].next = idx[p][3] /\ desc[idx[p][2]].addr = <<"data", b[p]>>
      /\ desc[idx[p][2]].addr[2] = b[p]
  BY <1>2
<1>7. desc[idx[p][3]].addr[2] = idx[p][1]
  BY <1>3
<1>8. (ops[idx[p][1]].type = "out" <=> pc[p] = "dirty") /\ ops[idx[p][1]].block = blockno[b[p]]
  BY <1>4 DEF OpOf
<1> QED
  BY <1>5, <1>6, <1>7, <1>8

LEMMA OneBuffer ==
    ASSUME Inductive, NEW p \in Procs, NEW q \in Procs, p # q, Holder(p), Holder(q)
    PROVE  b[p] # b[q]
<1>1. b[p] \in Bufs
  BY Buffer, Zenon DEF Holder
<1> QED
  BY <1>1 DEF Inductive, OneCopy

LEMMA VInductiveIsInv == VInductive => CacheInv /\ DriverInv
<1> SUFFICES ASSUME VInductive PROVE CacheInv /\ DriverInv
  BY Zenon
<1>1. CacheInv
  BY InductiveIsCacheInv, Zenon DEF VInductive
<1>2. DescriptorsOwned
  <2>1. \A p \in Procs : Range(idx[p]) = Held(p)
    BY HeldRange, Zenon DEF VInductive
  <2>2. \A p, q \in Procs : p # q => Range(idx[p]) \cap Range(idx[q]) = {}
    BY <2>1, Zenon DEF VInductive, Owned
  <2>3. free = Desc \ UNION {Range(idx[p]) : p \in Procs}
    <3>1. \A i : i \in UNION {Range(idx[p]) : p \in Procs} <=> \E p \in Procs : i \in Held(p)
      BY <2>1, Zenon
    <3>2. \A i \in Desc : i \in free <=> \A p \in Procs : i \notin Held(p)
      BY Zenon DEF VInductive, Owned
    <3>3. free \subseteq Desc
      BY Zenon DEF VInductive, VTypeOK
    <3> QED
      BY <3>1, <3>2, <3>3, Zenon
  <2>4. ASSUME NEW p \in Procs, idx[p] # <<>> PROVE ChainFrom(idx[p][1]) = Held(p)
    <3>1. desc[idx[p][1]].next = idx[p][2] /\ desc[idx[p][2]].next = idx[p][3]
      BY <2>4, CallChain, Zenon DEF VInductive
    <3>2. idx[p][2] \in Desc /\ idx[p][3] \in Desc
      BY <2>4, Call, Zenon
    <3>3. None \notin Desc
      BY VirtioAssumption DEF VInductive, VTypeOK, Desc
    <3> QED
      BY <2>4, <3>1, <3>2, <3>3, Zenon DEF ChainFrom, Held
  <2> QED
    BY <2>1, <2>2, <2>3, <2>4, SMTT(30) DEF DescriptorsOwned
<1>3. DeviceOwnsRequest
  <2> SUFFICES ASSUME NEW i \in Range(avail) \cup busy \cup Range(used)
               PROVE  \E p \in Procs :
                         /\ i \in Range(used) => info[i].status = 0
                         /\ idx[p] # <<>> /\ idx[p][1] = i
                         /\ locked[b[p]] = p /\ b[p] \in b_disk /\ info[i].b = b[p]
                         /\ ops[i] = OpOf(p)
                         /\ desc[i] = [addr |-> <<"op", i>>, next |-> idx[p][2]]
                         /\ desc[idx[p][2]].addr = <<"data", b[p]>>
    BY Zenon DEF DeviceOwnsRequest
  <2>1. PICK p \in Procs : /\ idx[p] # <<>> /\ idx[p][1] = i /\ b[p] \in b_disk
                           /\ i \in Range(used) => info[i].status = 0
    BY Zenon DEF VInductive, Outstanding, Requests, Rings
  <2>2. locked[b[p]] = p
    BY <2>1, Call, Zenon
  <2>3. desc[idx[p][2]].addr = <<"data", b[p]>>
    BY <2>1, CallChain, Zenon DEF VInductive
  <2>4. /\ desc[i] = [addr |-> <<"op", i>>, next |-> idx[p][2]]
        /\ ops[i] = OpOf(p)
        /\ info[i].b = b[p]
    BY <2>1, CallTables, Zenon DEF VInductive
  <2> QED
    BY <2>1, <2>2, <2>3, <2>4, Zenon
<1>4. NoLostCompletion
  <2> SUFFICES ASSUME \A p \in Procs : pc[p] \in {"read", "dirty"} => p \in waiting, waiting # {}
               PROVE  intr = "loop" \/ irq \/ avail # <<>> \/ busy # {}
    BY Zenon DEF NoLostCompletion
  <2>1. PICK p \in Procs : idx[p] # <<>>
    BY DEF VInductive, VTypeOK, Waits
  <2>2. p \in waiting
    BY <2>1, Call, Zenon
  <2>3. idx[p][1] \in Range(avail) \cup busy \cup Range(used)
    BY <2>1, <2>2, Zenon DEF VInductive, Waits
  <2>4. avail \in Seq(Desc) /\ used \in Seq(Desc)
    BY Zenon DEF VInductive, VTypeOK
  <2>5. avail # <<>> \/ busy # {} \/ used # <<>>
    BY <2>3 DEF Range
  <2> QED
    BY <2>5, Zenon DEF VInductive, Waits
<1>5. Len(avail) <= NUM /\ Len(used) <= NUM
  BY DistinctLength, VirtioAssumption, Zenon DEF VInductive, VTypeOK, InOnePlace, Desc
<1> QED
  BY <1>1, <1>2, <1>3, <1>4, <1>5, Zenon DEF VInductive, DriverInv

LEMMA VInitInv == VInit => VInductive
<1> SUFFICES ASSUME VInit PROVE VInductive
  BY Zenon
<1>1. Inductive
  BY InitInv, Zenon DEF VInit
<1>2. avail \in Seq(Desc) /\ used \in Seq(Desc) /\ Len(avail) = 0 /\ Len(used) = 0
  BY EmptySeq, Zenon DEF VInit
<1>3. Range(avail) = {} /\ Range(used) = {}
  BY DEF VInit, Range
<1>4. desc \in [Desc -> [addr : Addr, next : Desc \cup {None}]]
  BY Zenon DEF VInit, NoDesc, Addr
<1>5. info \in [Desc -> [b : 0 .. NBUF, status : {0, 255}]]
  BY BufCacheAssumption DEF VInit
<1>6. VTypeOK
  <2>1. idx \in [Procs -> {<<>>} \cup (Desc \X Desc \X Desc)] /\ ops \in [Desc -> Op \cup {None}]
    BY Zenon DEF VInit
  <2> QED
    BY <1>2, <1>4, <1>5, <2>1, Zenon DEF VInit, VTypeOK
<1>7. \A p \in Procs : idx[p] = <<>>
  BY Zenon DEF VInit
<1>8. Owned
  BY <1>7, Zenon DEF VInit, Owned, Held
<1>9. InOnePlace
  BY <1>2, <1>3 DEF VInit, InOnePlace, Distinct
<1>10. CallsIntact
  BY <1>7, Zenon DEF CallsIntact
<1>11. Outstanding /\ Waits
  BY <1>3, <1>7, Zenon DEF VInit, Outstanding, Requests, Rings, Waits, Transferred
<1> QED
  BY <1>1, <1>6, <1>8, <1>9, <1>10, <1>11, SMTT(30) DEF VInductive

------------------------------------------------------------------------------
(* Steps of the cache *)

\* What a step of the cache leaves to a process q in virtio_disk_rw.
Frame(q) ==
    /\ pc'[q] = pc[q] /\ b'[q] = b[q] /\ blockno'[b[q]] = blockno[b[q]]
    /\ data'[b[q]] = data[b[q]] /\ valid'[b[q]] = valid[b[q]]
    /\ latest'[blockno[b[q]]] = latest[blockno[b[q]]] /\ disk' = disk
    /\ b[q] \in pinned' <=> b[q] \in pinned

LEMMA CacheStepFrame ==
    ASSUME Inductive, NEW p \in Procs, CacheStep(p), NEW q \in Procs, pc[q] \in {"read", "dirty"}
    PROVE  q # p /\ Frame(q)
<1>1. Holder(q) /\ b[q] \in Bufs /\ blockno[b[q]] \in Blocks /\ locked[b[q]] = q
  BY Buffer DEF Holder, Inductive, OneCopy
<1>2. Holder(p) /\ p # q =>
         b[p] \in Bufs /\ b[p] # b[q] /\ blockno[b[p]] \in Blocks /\ blockno[b[p]] # blockno[b[q]]
  BY <1>1, OneBuffer, Buffer, BufCacheAssumption, SMTT(30) DEF Inductive, OneCopy, Holder
<1>3. ASSUME NEW n \in Blocks, BgetHit(p, n) PROVE q # p /\ Frame(q)
  BY <1>1, <1>3 DEF Inductive, TypeOK, BgetHit, At, Goto, Frame
<1>4. ASSUME NEW n \in Blocks, BgetMiss(p, n) PROVE q # p /\ Frame(q)
  <2>1. refcnt[Victim] = 0 /\ Victim \in Bufs
    <3>1. Max(Recyclable) \in Recyclable
      BY <1>4, MaxExists, BufCacheAssumption, SMTT(30) DEF BgetMiss, Recyclable, Bufs
    <3>2. lru \in [Bufs -> Bufs]
      BY Zenon DEF Inductive, TypeOK, Bijection, Injection
    <3> QED
      BY <3>1, <3>2, Zenon DEF Recyclable, Victim
  <2>2. Victim # b[q]
    BY <2>1, Unused, SMTT(30) DEF Inductive
  <2> QED
    BY <1>1, <1>4, <2>2, Zenon DEF Inductive, TypeOK, BgetMiss, At, Goto, Frame
<1>a. ASSUME NEW n \in Blocks, BgetPanic(p, n) PROVE q # p /\ Frame(q)
  BY <1>1, <1>a DEF Inductive, TypeOK, BgetPanic, At, Goto, cache, Frame
<1>5. CASE Acquiresleep(p) \/ AcquiresleepWait(p) \/ Install(p) \/ Releasesleep(p)
  BY <1>1, <1>5, SMTT(30) DEF Inductive, TypeOK, Acquiresleep, AcquiresleepWait, Install, Releasesleep, At, Goto, cache, Frame
<1>6. CASE Bunpin(p) \/ Brelse(p)
  BY <1>1, <1>2, <1>6, SMTT(30) DEF Inductive, TypeOK, Bunpin, Brelse, At, Goto, Frame, Holder
<1>7. ASSUME NEW v \in Values, Modify(p, v) \/ Bpin(p, v) PROVE q # p /\ Frame(q)
  <2>1. Holder(p) /\ p # q
    BY <1>7, Zenon DEF Modify, Bpin, At, Holder
  <2> QED
    BY <1>1, <1>2, <1>7, <2>1, SMTT(30) DEF Inductive, TypeOK, Modify, Bpin, Store, At, Goto, Frame
<1> QED
  BY <1>3, <1>4, <1>a, <1>5, <1>6, <1>7, SMTT(30) DEF CacheStep

LEMMA CacheStepVInv ==
    ASSUME VInductive, NEW p \in Procs, CacheStep(p),
           UNCHANGED <<NUM, idx, waiting, queue, b_disk, intr, device>>
    PROVE  VInductive'
<1> USE DEF queue, device
<1>1. Inductive'
  BY CacheStepInv, Zenon DEF VInductive
<1>2. \A q \in Procs : pc[q] \in {"read", "dirty"} => q # p /\ Frame(q)
  BY CacheStepFrame, Zenon DEF VInductive
<1>3. \A q \in Procs : idx[q] # <<>> => Frame(q)
  BY <1>2, Call, Zenon
<1>4. VTypeOK'
  <2>1. (waiting \subseteq {q \in Procs : pc[q] \in {"read", "dirty"}})'
    BY <1>2, Zenon DEF VInductive, VTypeOK, Frame
  <2> QED
    BY <2>1, Zenon DEF VInductive, VTypeOK, Desc, Op, Addr, Bufs
<1>5. Owned' /\ InOnePlace'
  BY ZenonT(30) DEF VInductive, Owned, Held, InOnePlace, Desc
<1>6. CallsIntact'
  <2>1. \A q \in Procs : idx[q] # <<>> => OpOf(q)' = OpOf(q)
    BY <1>3, Zenon DEF OpOf, Frame
  <2> QED
    BY <1>3, <2>1, SMTT(30) DEF VInductive, CallsIntact, Frame
<1>7. Outstanding'
  BY <1>3, SMTT(30) DEF VInductive, Outstanding, Requests, Rings, Frame
<1>8. Waits'
  <2>1. \A q \in Procs : Transferred(q)' <=> Transferred(q)
    BY Zenon DEF Transferred
  <2>2. waiting \subseteq Procs
    BY Zenon DEF VInductive, VTypeOK
  <2>3. \A q \in Procs : Transferred(q) => idx[q] # <<>>
    BY Zenon DEF Transferred
  <2>4. Waits
    BY Zenon DEF VInductive
  <2>5. /\ \A q \in Procs : idx[q] # <<>> => b'[q] = b[q] /\ blockno'[b[q]] = blockno[b[q]]
        /\ \A q \in Procs : idx[q] # <<>> => data'[b[q]] = data[b[q]]
        /\ \A q \in Procs : idx[q] # <<>> => latest'[blockno[b[q]]] = latest[blockno[b[q]]]
        /\ \A q \in Procs : idx[q] # <<>> => disk' = disk
    BY <1>3, Zenon DEF Frame
  <2>6. \A q \in Procs : (idx[q] # <<>> /\ b[q] \in b_disk => idx[q][1] \in Range(avail) \cup busy \cup Range(used))'
    BY <2>4, <2>5, ZenonT(30) DEF Waits, Frame
  <2>7. \A q \in Procs : (Transferred(q) => disk[blockno[b[q]]] = latest[blockno[b[q]]]
                                          /\ data[b[q]] = latest[blockno[b[q]]])'
    BY <2>1, <2>3, <2>4, <2>5, SMTT(30) DEF Waits
  <2>8. \A q \in waiting : (IF idx[q] = <<>> THEN \E r \in Procs : idx[r] # <<>> ELSE b[q] \in b_disk)'
    BY <2>2, <2>4, <2>5 DEF Waits, Frame
  <2> QED
    BY <2>4, <2>6, <2>7, <2>8, Zenon DEF Waits, Frame
<1> QED
  BY <1>1, <1>4, <1>5, <1>6, <1>7, <1>8, SMTT(30) DEF VInductive

------------------------------------------------------------------------------
(* virtio_disk_rw *)

LEMMA SameCache ==
    ASSUME Inductive, UNCHANGED vars
    PROVE  Inductive'
BY StepInv, Zenon

LEMMA QueueSize ==
    ASSUME VTypeOK
    PROVE  NUM \in Nat /\ NUM >= 3 /\ IsFiniteSet(Desc) /\ Cardinality(Desc) = NUM /\ Desc \subseteq Nat
<1>1. NUM \in Nat /\ NUM >= 3
  BY VirtioAssumption, Zenon DEF VTypeOK
<1>2. IsFiniteSet(0 .. NUM - 1) /\ Cardinality(0 .. NUM - 1) = NUM
  BY <1>1, FS_Interval
<1> QED
  BY <1>1, <1>2 DEF Desc

LEMMA HeldNotFree ==
    ASSUME VInductive, NEW p \in Procs
    PROVE  Held(p) \subseteq Desc /\ Held(p) \cap free = {}
<1>1. Held(p) \subseteq Desc
  BY Call, Zenon DEF Held
<1> QED
  BY <1>1, Zenon DEF VInductive, Owned

LEMMA AllocFailInv ==
    ASSUME VInductive, NEW p \in Procs, AllocFail(p), UNCHANGED NUM
    PROVE  VInductive'
<1> USE DEF device
<1>1. Inductive'
  BY SameCache, Zenon DEF VInductive, AllocFail
<1>2. /\ UNCHANGED <<pc, b, blockno, data, disk, latest>>
      /\ UNCHANGED <<idx, free, ops, info, b_disk, intr, avail, used, busy, irq>>
      /\ waiting' \subseteq waiting \cup {p} /\ idx[p] = <<>> /\ pc[p] \in {"read", "dirty"}
      /\ desc' = [i \in Desc |-> IF i \in free THEN NoDesc ELSE desc[i]]
  BY SMTT(30) DEF AllocFail, Running, WakeAlloc, vars, cache
<1>3. VTypeOK'
  <2>1. NoDesc \in [addr : Addr, next : Desc \cup {None}]
    BY Zenon DEF NoDesc, Addr
  <2>2. desc' \in [Desc -> [addr : Addr, next : Desc \cup {None}]]
    BY <1>2, <2>1, Zenon DEF VInductive, VTypeOK
  <2>3. (waiting \subseteq {q \in Procs : pc[q] \in {"read", "dirty"}})'
    BY <1>2 DEF VInductive, VTypeOK
  <2> QED
    BY <1>2, <2>2, <2>3, SMTT(30) DEF VInductive, VTypeOK, Desc, Op, Addr, Bufs
<1>4. Owned' /\ InOnePlace' /\ Outstanding'
  <2>1. Owned'
    BY <1>2, Zenon DEF VInductive, Owned, Held, Desc
  <2>2. InOnePlace'
    BY <1>2, Zenon DEF VInductive, InOnePlace
  <2>3. Outstanding'
    BY <1>2, ZenonT(30) DEF VInductive, Outstanding, Requests, Rings
  <2> QED
    BY <2>1, <2>2, <2>3, Zenon
<1>5. CallsIntact'
  <2>1. \A q \in Procs : OpOf(q)' = OpOf(q)
    BY <1>2, Zenon DEF OpOf
  <2>2. ASSUME NEW q \in Procs, idx[q] # <<>>, NEW i \in Held(q) PROVE desc'[i] = desc[i]
    <3>1. i \in Desc /\ i \notin free
      BY <2>2, HeldNotFree, SMTT(30)
    <3> QED
      BY <1>2, <3>1, Zenon
  <2>3. \A q \in Procs : idx[q] # <<>> =>
           desc'[idx[q][1]] = desc[idx[q][1]] /\ desc'[idx[q][2]] = desc[idx[q][2]] /\ desc'[idx[q][3]] = desc[idx[q][3]]
    BY <2>2, SMTT(30) DEF Held
  <2>4. CallsIntact
    BY Zenon DEF VInductive
  <2> QED
    <3>1. UNCHANGED <<pc, b, ops, info, idx>>
      BY <1>2, Zenon
    <3> QED
      BY <2>1, <2>3, <2>4, <3>1, SMTT(30) DEF CallsIntact
<1>6. \E q \in Procs : idx[q] # <<>>
  <2> SUFFICES ASSUME \A q \in Procs : idx[q] = <<>> PROVE FALSE
    BY Zenon
  <2>1. free = Desc
    <3>1. free \subseteq Desc
      BY Zenon DEF VInductive, VTypeOK
    <3>2. \A q \in Procs : Held(q) = {}
      BY Zenon DEF Held
    <3>3. \A i \in Desc : i \in free
      BY <3>2, SMTT(30) DEF VInductive, Owned
    <3> QED
      BY <3>1, <3>3, Zenon
  <2> QED
    <3>1. VTypeOK
      BY Zenon DEF VInductive
    <3>2. NUM \in Nat /\ NUM >= 3 /\ Cardinality(Desc) = NUM
      BY <3>1, QueueSize, Zenon
    <3>3. Cardinality(free) < 3
      BY Zenon DEF AllocFail
    <3> QED
      BY <2>1, <3>2, <3>3
<1>7. Waits'
  <2>1. \A q \in Procs : Transferred(q)' <=> Transferred(q)
    BY <1>2, Zenon DEF Transferred
  <2> QED
    BY <1>2, <1>6, <2>1, SMTT(30) DEF VInductive, Waits
<1> QED
  BY <1>1, <1>3, <1>4, <1>5, <1>7, SMTT(30) DEF VInductive

\* alloc3_desc finds three descriptors.
LEMMA Three ==
    ASSUME VTypeOK, Cardinality(free) >= 3
    PROVE  LET i == Min(free)  j == Min(free \ {i})  k == Min(free \ {i, j})
           IN  {i, j, k} \subseteq free /\ i # j /\ i # k /\ j # k
<1> DEFINE i == Min(free)
           j == Min(free \ {i})
           k == Min(free \ {i, j})
<1>1. free \subseteq Nat /\ IsFiniteSet(free) /\ Cardinality(free) \in Nat
  BY QueueSize, FS_Subset, FS_CardinalityType DEF VTypeOK
<1>2. \A S : S = {} => Cardinality(S) = 0
  BY FS_EmptySet, Zenon
<1>3. i \in free
  <2>1. free # {}
    BY <1>1, <1>2
  <2> QED
    BY <1>1, <2>1, MinExists, Zenon
<1>4. IsFiniteSet(free \ {i}) /\ Cardinality(free \ {i}) = Cardinality(free) - 1
  BY <1>1, <1>3, FS_RemoveElement
<1>5. j \in free \ {i}
  <2> HIDE DEF i
  <2>1. Cardinality(free \ {i}) # 0
    BY <1>1, <1>4
  <2>2. free \ {i} \subseteq Nat /\ free \ {i} # {}
    BY <1>1, <1>2, <2>1, Zenon
  <2> QED
    BY <2>2, MinExists
<1>6. Cardinality((free \ {i}) \ {j}) = Cardinality(free) - 2
  <2> HIDE DEF i, j
  <2>1. Cardinality((free \ {i}) \ {j}) = Cardinality(free \ {i}) - 1
    BY <1>4, <1>5, FS_RemoveElement
  <2> QED
    BY <1>1, <1>4, <2>1
<1>7. k \in free \ {i, j}
  <2> HIDE DEF i, j
  <2>1. (free \ {i}) \ {j} = free \ {i, j}
    BY Zenon
  <2>2. (free \ {i}) \ {j} # {}
    BY <1>1, <1>2, <1>6
  <2>3. free \ {i, j} \subseteq Nat /\ free \ {i, j} # {}
    BY <1>1, <2>1, <2>2, Zenon
  <2> QED
    BY <2>3, MinExists, Zenon
<1> QED
  BY <1>3, <1>5, <1>7, SMTT(30)

\* What a Submit does, with the descriptors i, j and k.
Submitted(p, i, j, k) ==
    /\ {i, j, k} \subseteq free /\ i # j /\ i # k /\ j # k
    /\ idx' = [idx EXCEPT ![p] = <<i, j, k>>] /\ free' = free \ {i, j, k}
    /\ ops' = [ops EXCEPT ![i] = OpOf(p)]
    /\ desc' = [desc EXCEPT ![i] = [addr |-> <<"op", i>>, next |-> j],
                            ![j] = [addr |-> <<"data", b[p]>>, next |-> k],
                            ![k] = [addr |-> <<"status", i>>, next |-> None]]
    /\ avail' = Append(avail, i) /\ info' = [info EXCEPT ![i] = [b |-> b[p], status |-> 255]]
    /\ UNCHANGED <<pc, b, blockno, data, disk, latest>> /\ UNCHANGED <<intr, used, busy, irq>>
    /\ b_disk' = b_disk \cup {b[p]} /\ waiting' = waiting \cup {p}
    /\ idx[p] = <<>> /\ pc[p] \in {"read", "dirty"}

LEMMA SubmitWhat ==
    ASSUME VInductive, NEW p \in Procs, Submit(p)
    PROVE  \E i, j, k \in Desc : Submitted(p, i, j, k)
<1>1. PICK i, j, k \in free :
        /\ i # j /\ i # k /\ j # k /\ i = Min(free) /\ j = Min(free \ {i}) /\ k = Min(free \ {i, j})
  BY Three, Zenon DEF VInductive, Submit
<1>2. i \in Desc /\ j \in Desc /\ k \in Desc
  BY <1>1, Zenon DEF VInductive, VTypeOK
<1>3. /\ idx' = [idx EXCEPT ![p] = <<i, j, k>>] /\ free' = free \ {i, j, k}
      /\ ops' = [ops EXCEPT ![i] = OpOf(p)]
      /\ desc' = [desc EXCEPT ![i] = [addr |-> <<"op", i>>, next |-> j],
                              ![j] = [addr |-> <<"data", b[p]>>, next |-> k],
                              ![k] = [addr |-> <<"status", i>>, next |-> None]]
      /\ avail' = Append(avail, i) /\ info' = [info EXCEPT ![i] = [b |-> b[p], status |-> 255]]
  BY <1>1, Zenon DEF Submit, Enqueue
<1>4. /\ UNCHANGED <<pc, b, blockno, data, disk, latest>> /\ UNCHANGED <<intr, used, busy, irq>>
      /\ b_disk' = b_disk \cup {b[p]} /\ waiting' = waiting \cup {p}
      /\ idx[p] = <<>> /\ pc[p] \in {"read", "dirty"}
  BY Zenon DEF Submit, Running, vars, cache
<1>5. Submitted(p, i, j, k)
  BY <1>1, <1>3, <1>4, Zenon DEF Submitted
<1> QED
  BY <1>2, <1>5

LEMMA SubmitIdx ==
    ASSUME VInductive, NEW p \in Procs, NEW i, NEW j, NEW k, Submitted(p, i, j, k)
    PROVE  /\ idx'[p] # <<>> /\ idx'[p][1] = i /\ idx'[p][2] = j /\ idx'[p][3] = k
           /\ \A q \in Procs : q # p => idx'[q] = idx[q]
<1>1. idx \in [Procs -> {<<>>} \cup (Desc \X Desc \X Desc)]
  BY Zenon DEF VInductive, VTypeOK
<1>2. idx' = [idx EXCEPT ![p] = <<i, j, k>>]
  BY Zenon DEF Submitted
<1>3. idx'[p] = <<i, j, k>> /\ \A q \in Procs : q # p => idx'[q] = idx[q]
  BY <1>1, <1>2
<1> QED
  BY <1>3

LEMMA SubmitRings ==
    ASSUME VInductive, NEW p \in Procs, NEW i \in Desc, NEW j, NEW k, Submitted(p, i, j, k), UNCHANGED NUM
    PROVE  /\ i \notin Rings /\ Rings' = Rings \cup {i} /\ InOnePlace'
           /\ avail' \in Seq(Desc) /\ Range(avail)' = Range(avail) \cup {i}
<1>1. \A q \in Procs : i \notin Held(q)
  BY Zenon DEF VInductive, Owned, Submitted
<1>2. i \notin Rings
  BY <1>1, Zenon DEF VInductive, Outstanding, Requests, Held
<1>3. avail \in Seq(Desc) /\ Distinct(avail)
  BY Zenon DEF VInductive, VTypeOK, InOnePlace
<1>4. i \notin Range(avail)
  BY <1>2, Zenon DEF Rings
<1>5. /\ Append(avail, i) \in Seq(Desc) /\ Distinct(Append(avail, i))
      /\ Range(Append(avail, i)) = Range(avail) \cup {i}
  BY <1>3, <1>4, RangeAppend
<1>6. avail' = Append(avail, i) /\ UNCHANGED <<used, busy>>
  BY Zenon DEF Submitted
<1>7. avail' \in Seq(Desc) /\ Distinct(avail)' /\ Range(avail)' = Range(avail) \cup {i}
  BY <1>5, <1>6, Zenon DEF Distinct, Range
<1>8. Range(used)' = Range(used) /\ Distinct(used)' = Distinct(used)
  BY <1>6 DEF Range, Distinct
<1>9. Rings' = Rings \cup {i}
  BY <1>6, <1>7, <1>8, SMTT(30) DEF Rings
<1>10. InOnePlace'
  BY <1>2, <1>6, <1>7, <1>8 DEF VInductive, InOnePlace, Rings
<1> QED
  BY <1>2, <1>7, <1>9, <1>10, SMTT(30)

LEMMA SubmitTypes ==
    ASSUME VInductive, NEW p \in Procs, NEW i \in Desc, NEW j \in Desc, NEW k \in Desc,
           Submitted(p, i, j, k), UNCHANGED NUM
    PROVE  VTypeOK'
<1>1. /\ b[p] \in Bufs /\ blockno[b[p]] \in Blocks /\ b[p] \in 0 .. NBUF
  <2>1. Inductive /\ pc[p] \in {"read", "dirty"}
    BY Zenon DEF Submitted, VInductive
  <2>2. b[p] \in Bufs /\ blockno[b[p]] \in Blocks
    BY <2>1, Buffer
  <2> QED
    BY <2>1, <2>2 DEF Bufs
<1>2. idx' \in [Procs -> {<<>>} \cup (Desc \X Desc \X Desc)]
  <2>1. idx \in [Procs -> {<<>>} \cup (Desc \X Desc \X Desc)] /\ idx' = [idx EXCEPT ![p] = <<i, j, k>>]
    BY Zenon DEF VInductive, VTypeOK, Submitted
  <2> QED
    BY <2>1, Zenon
<1>3. desc' \in [Desc -> [addr : Addr, next : Desc \cup {None}]]
  <2>1. <<"op", i>> \in Addr /\ <<"data", b[p]>> \in Addr /\ <<"status", i>> \in Addr
    BY <1>1, Zenon DEF Addr
  <2>2. /\ desc \in [Desc -> [addr : Addr, next : Desc \cup {None}]]
        /\ desc' = [desc EXCEPT ![i] = [addr |-> <<"op", i>>, next |-> j],
                                ![j] = [addr |-> <<"data", b[p]>>, next |-> k],
                                ![k] = [addr |-> <<"status", i>>, next |-> None]]
    BY Zenon DEF VInductive, VTypeOK, Submitted
  <2> QED
    BY <2>1, <2>2, Zenon
<1>4. ops' \in [Desc -> Op \cup {None}]
  <2>1. ops \in [Desc -> Op \cup {None}] /\ ops' = [ops EXCEPT ![i] = OpOf(p)]
    BY Zenon DEF VInductive, VTypeOK, Submitted
  <2>2. OpOf(p) \in Op
    BY <1>1, SMTT(30) DEF Op, OpOf
  <2> QED
    BY <2>1, <2>2
<1>5. info' \in [Desc -> [b : 0 .. NBUF, status : {0, 255}]]
  <2>1. /\ info \in [Desc -> [b : 0 .. NBUF, status : {0, 255}]]
        /\ info' = [info EXCEPT ![i] = [b |-> b[p], status |-> 255]]
    BY Zenon DEF VInductive, VTypeOK, Submitted
  <2> QED
    BY <1>1, <2>1, Zenon
<1>6. free' \subseteq Desc /\ b_disk' \subseteq Bufs
  BY <1>1, Zenon DEF VInductive, VTypeOK, Submitted
<1>7. (waiting \subseteq {q \in Procs : pc[q] \in {"read", "dirty"}})'
  <2>1. /\ waiting \subseteq {q \in Procs : pc[q] \in {"read", "dirty"}} /\ pc[p] \in {"read", "dirty"}
        /\ waiting' = waiting \cup {p} /\ pc' = pc
    BY Zenon DEF VInductive, VTypeOK, Submitted
  <2> QED
    BY <2>1, Zenon
<1>8. Desc' = Desc /\ Addr' = Addr /\ Op' = Op /\ Bufs' = Bufs
  BY Zenon DEF Desc, Addr, Op, Bufs
<1>9. avail' \in Seq(Desc)
  BY SubmitRings, Zenon
<1>10. NUM' \in NUMs /\ used' \in Seq(Desc) /\ intr' \in {"idle", "loop"} /\ busy' \subseteq Desc /\ irq' \in BOOLEAN
  BY Zenon DEF VInductive, VTypeOK, Submitted
<1> QED
  BY <1>2, <1>3, <1>4, <1>5, <1>6, <1>7, <1>8, <1>9, <1>10, Zenon DEF VTypeOK

LEMMA SubmitOwned ==
    ASSUME VInductive, NEW p \in Procs, NEW i \in Desc, NEW j \in Desc, NEW k \in Desc,
           Submitted(p, i, j, k), UNCHANGED NUM
    PROVE  Owned'
<1>1. Held(p)' = {i, j, k} /\ Held(p) = {} /\ \A q \in Procs : q # p => Held(q)' = Held(q)
  <2>1. /\ idx'[p] # <<>> /\ idx'[p][1] = i /\ idx'[p][2] = j /\ idx'[p][3] = k
        /\ \A q \in Procs : q # p => idx'[q] = idx[q]
    BY SubmitIdx, Zenon
  <2>2. idx[p] = <<>>
    BY Zenon DEF Submitted
  <2> QED
    BY <2>1, <2>2, Zenon DEF Held
<1>2. Owned /\ {i, j, k} \subseteq free /\ free' = free \ {i, j, k}
  BY Zenon DEF VInductive, Submitted
<1>3. \A q \in Procs : Held(q) \cap {i, j, k} = {}
  <2>1. \A q \in Procs : Held(q) \cap free = {}
    BY HeldNotFree, Zenon
  <2> QED
    BY <1>2, <2>1, Zenon
<1>4. \A q, r \in Procs : q # r => Held(q)' \cap Held(r)' = {}
  BY <1>1, <1>2, <1>3, SMTT(30) DEF Owned
<1>5. \A m \in Desc : m \in free' <=> \A q \in Procs : m \notin Held(q)'
  BY <1>1, <1>2, SMTT(30) DEF Owned
<1> QED
  BY <1>4, <1>5, SMTT(30) DEF Owned, Desc

LEMMA SubmitOutstanding ==
    ASSUME VInductive, NEW p \in Procs, NEW i \in Desc, NEW j, NEW k,
           Submitted(p, i, j, k), UNCHANGED NUM
    PROVE  Outstanding'
<1>1. i \notin Rings /\ Rings' = Rings \cup {i} /\ Range(used)' = Range(used)
  <2>1. i \notin Rings /\ Rings' = Rings \cup {i}
    BY SubmitRings, SMTT(30)
  <2>2. Range(used)' = Range(used)
    BY SMTT(30) DEF Submitted, Range
  <2> QED
    BY <2>1, <2>2, Zenon
<1>2. \A m \in Rings : m # i /\ info'[m] = info[m]
  <2>1. /\ info \in [Desc -> [b : 0 .. NBUF, status : {0, 255}]]
        /\ info' = [info EXCEPT ![i] = [b |-> b[p], status |-> 255]]
    BY Zenon DEF VInductive, VTypeOK, Submitted
  <2> QED
    BY <1>1, <2>1
<1>3. /\ UNCHANGED b /\ b_disk' = b_disk \cup {b[p]} /\ idx[p] = <<>>
  BY Zenon DEF Submitted
<1>4. ASSUME NEW m \in Rings PROVE \E q \in Procs : Requests(q, m)'
  <2>1. PICK q \in Procs : Requests(q, m)
    BY SMTT(30) DEF VInductive, Outstanding
  <2>2. q # p /\ idx'[q] = idx[q]
    BY <1>3, <2>1, SubmitIdx, SMTT(30) DEF Requests
  <2>3. Requests(q, m)'
    BY <1>1, <1>2, <1>3, <2>1, <2>2, SMTT(30) DEF Requests
  <2> QED
    BY <2>3, Zenon
<1>5. Requests(p, i)'
  <2>1. idx'[p] # <<>> /\ idx'[p][1] = i
    BY SubmitIdx, SMTT(30)
  <2> QED
    BY <1>1, <1>3, <2>1, SMTT(30) DEF Requests, Rings
<1> QED
  BY <1>1, <1>4, <1>5, SMTT(30) DEF Outstanding

LEMMA SubmitCalls ==
    ASSUME VInductive, NEW p \in Procs, NEW i \in Desc, NEW j \in Desc, NEW k \in Desc,
           Submitted(p, i, j, k), UNCHANGED NUM
    PROVE  CallsIntact'
<1>1. /\ \A q \in Procs : OpOf(q)' = OpOf(q)
      /\ UNCHANGED <<pc, b>> /\ pc[p] \in {"read", "dirty"} /\ i # j /\ i # k /\ j # k
  BY SMTT(30) DEF OpOf, Submitted
<1>2. /\ desc'[i] = [addr |-> <<"op", i>>, next |-> j]
      /\ desc'[j] = [addr |-> <<"data", b[p]>>, next |-> k]
      /\ desc'[k] = [addr |-> <<"status", i>>, next |-> None]
      /\ \A m \in Desc \ {i, j, k} : desc'[m] = desc[m]
  <2>1. /\ desc \in [Desc -> [addr : Addr, next : Desc \cup {None}]]
        /\ desc' = [desc EXCEPT ![i] = [addr |-> <<"op", i>>, next |-> j],
                                ![j] = [addr |-> <<"data", b[p]>>, next |-> k],
                                ![k] = [addr |-> <<"status", i>>, next |-> None]]
    BY Zenon DEF VInductive, VTypeOK, Submitted
  <2>2. desc'[i] = [addr |-> <<"op", i>>, next |-> j]
    BY <1>1, <2>1, SMTT(30)
  <2>3. desc'[j] = [addr |-> <<"data", b[p]>>, next |-> k]
    BY <1>1, <2>1, SMTT(30)
  <2>4. desc'[k] = [addr |-> <<"status", i>>, next |-> None]
    BY <2>1, SMTT(30)
  <2>5. \A m \in Desc \ {i, j, k} : desc'[m] = desc[m]
    BY <2>1, Zenon
  <2> QED
    BY <2>2, <2>3, <2>4, <2>5, SMTT(30)
<1>3. ops'[i] = OpOf(p) /\ \A m \in Desc \ {i} : ops'[m] = ops[m]
  <2>1. ops \in [Desc -> Op \cup {None}] /\ ops' = [ops EXCEPT ![i] = OpOf(p)]
    BY Zenon DEF VInductive, VTypeOK, Submitted
  <2> QED
    BY <2>1, SMTT(30)
<1>4. info'[i].b = b[p] /\ \A m \in Desc \ {i} : info'[m] = info[m]
  <2>1. /\ info \in [Desc -> [b : 0 .. NBUF, status : {0, 255}]]
        /\ info' = [info EXCEPT ![i] = [b |-> b[p], status |-> 255]]
    BY Zenon DEF VInductive, VTypeOK, Submitted
  <2> QED
    BY <2>1, SMTT(30)
<1>5. Intact(p)'
  <2>1. idx'[p] # <<>> /\ idx'[p][1] = i /\ idx'[p][2] = j /\ idx'[p][3] = k
    BY SubmitIdx
  <2>2. b'[p] = b[p] /\ pc'[p] = pc[p] /\ OpOf(p)' = OpOf(p)
    BY <1>1, Zenon
  <2> QED
    BY <1>1, <1>2, <1>3, <1>4, <2>1, <2>2, Zenon DEF Intact
<1>6. ASSUME NEW q \in Procs, q # p, idx'[q] # <<>> PROVE Intact(q)'
  <2>1. idx[q] # <<>> /\ idx'[q] = idx[q]
    BY <1>6, SubmitIdx, SMTT(30)
  <2>2. Intact(q)
    BY <2>1, IntactCalls, SMTT(30) DEF VInductive
  <2>3. Held(q) \subseteq Desc \ {i, j, k} /\ Held(q) = {idx[q][1], idx[q][2], idx[q][3]}
    BY <2>1, HeldNotFree, Zenon DEF Held, Submitted
  <2>4. /\ desc'[idx[q][1]] = desc[idx[q][1]] /\ desc'[idx[q][2]] = desc[idx[q][2]]
        /\ desc'[idx[q][3]] = desc[idx[q][3]]
        /\ ops'[idx[q][1]] = ops[idx[q][1]] /\ info'[idx[q][1]] = info[idx[q][1]]
    BY <1>2, <1>3, <1>4, <2>3, Zenon
  <2> QED
    BY <1>1, <2>1, <2>2, <2>4, Zenon DEF Intact
<1> QED
  BY <1>5, <1>6, IntactNext, SMTT(30)

LEMMA SubmitWaits ==
    ASSUME VInductive, NEW p \in Procs, NEW i \in Desc, NEW j, NEW k,
           Submitted(p, i, j, k), UNCHANGED NUM
    PROVE  Waits'
<1>1. Range(avail)' = Range(avail) \cup {i}
  BY SubmitRings, Zenon
<1>2. /\ UNCHANGED <<b, blockno, data, disk, latest, intr, used, busy, irq>>
      /\ b_disk' = b_disk \cup {b[p]} /\ waiting' = waiting \cup {p} /\ pc[p] \in {"read", "dirty"}
  BY Zenon DEF Submitted
<1>3. ~Transferred(p)' /\ \A q \in Procs : q # p /\ Transferred(q)' => Transferred(q)
  <2>1. idx'[p][1] = i /\ \A q \in Procs : q # p => idx'[q] = idx[q]
    BY SubmitIdx, Zenon
  <2> QED
    BY <1>1, <1>2, <2>1, Zenon DEF Transferred
<1>4. ASSUME NEW q \in Procs, q # p, idx[q] # <<>> PROVE b[q] # b[p]
  BY <1>2, <1>4, Call, Buffer, OneBuffer, Zenon DEF VInductive, Holder
<1>5. \A q \in waiting : q \in Procs
  BY Zenon DEF VInductive, VTypeOK
<1>6. idx'[p] # <<>> /\ idx'[p][1] = i /\ \A q \in Procs : q # p => idx'[q] = idx[q]
  BY SubmitIdx
<1> QED
  BY <1>1, <1>2, <1>3, <1>4, <1>5, <1>6, Zenon DEF VInductive, Waits

LEMMA SubmitInv ==
    ASSUME VInductive, NEW p \in Procs, Submit(p), UNCHANGED NUM
    PROVE  VInductive'
<1>1. Inductive'
  BY SameCache, Zenon DEF VInductive, Submit
<1>2. PICK i, j, k \in Desc : Submitted(p, i, j, k)
  BY SubmitWhat, Zenon
<1>3. VTypeOK' /\ Owned' /\ InOnePlace'
  BY <1>2, SubmitTypes, SubmitOwned, SubmitRings, SMTT(30)
<1>4. Outstanding' /\ CallsIntact' /\ Waits'
  BY <1>2, SubmitOutstanding, SubmitCalls, SubmitWaits
<1> QED
  BY <1>1, <1>3, <1>4, SMTT(30) DEF VInductive

==============================================================================
