---------------------------- MODULE VirtioProofs ----------------------------
(***************************************************************************)
(* The driver keeps DriverInv, and the cache over it CacheInv, for any     *)
(* number of processes, buffers and blocks and any size of the queue; the  *)
(* cache over the driver implements the cache over a disk that transfers a *)
(* block in one step.                                                      *)
(***************************************************************************)
EXTENDS VirtioCache, VirtioCallProofs

------------------------------------------------------------------------------
(* The end of virtio_disk_rw *)

LEMMA OwnRequest ==
    ASSUME VInductive, NEW p \in Procs, idx[p] # <<>>, NEW q \in Procs, Requests(q, idx[p][1])
    PROVE  q = p
<1>1. idx[p][1] \in Held(p) /\ idx[p][1] \in Held(q)
  BY Zenon DEF Held, Requests
<1> QED
  BY <1>1, Zenon DEF VInductive, Owned

LEMMA Returned ==
    ASSUME VInductive, NEW p \in Procs, idx[p] # <<>>, b[p] \notin b_disk
    PROVE  idx[p][1] \notin Rings /\ Transferred(p)
<1>1. idx[p][1] \notin Rings
  BY OwnRequest, Zenon DEF VInductive, Outstanding, Requests
<1> QED
  BY <1>1, Zenon DEF Rings, Transferred

\* To the cache, the return of a call is a transfer that changes nothing.
LEMMA FinishCache ==
    ASSUME VInductive, NEW p \in Procs, Finish(p)
    PROVE  Inductive' /\ Transferred(p)
<1>1. idx[p] # <<>> /\ b[p] \notin b_disk /\ pc[p] \in {"read", "dirty"}
  BY Zenon DEF Finish, Running
<1>2. Transferred(p)
  BY <1>1, Returned, SMTT(30)
<1>3. PICK i \in Bufs, n \in Blocks : i = b[p] /\ n = blockno[i]
  BY <1>1, Call
<1>4. disk[n] = latest[n] /\ data[i] = latest[n]
  BY <1>2, <1>3, Zenon DEF VInductive, Waits
<1>5. p \notin asleep
  BY <1>1 DEF VInductive, Inductive, TypeOK
<1>6. CASE pc[p] = "read"
  <2>1. data' = [data EXCEPT ![i] = disk[n]]
    BY <1>4 DEF VInductive, Inductive, TypeOK, Finish, Return
  <2>2. Bread(p)
    BY <1>3, <1>5, <1>6, <2>1, ZenonT(30) DEF Bread, At, Finish, Return
  <2> QED
    BY <1>2, <2>2, BreadInv, SMTT(30) DEF VInductive
<1>7. CASE pc[p] = "dirty"
  <2>1. disk' = [disk EXCEPT ![n] = data[i]]
    BY <1>4, Zenon DEF VInductive, Inductive, TypeOK, Finish, Return
  <2>2. Bwrite(p)
    BY <1>3, <1>5, <1>7, <2>1, Zenon DEF Bwrite, At, Finish, Return, cache
  <2> QED
    BY <1>2, <2>2, BwriteInv DEF VInductive
<1> QED
  BY <1>1, <1>6, <1>7

LEMMA FinishInv ==
    ASSUME VInductive, NEW p \in Procs, Finish(p), UNCHANGED NUM
    PROVE  VInductive'
<1>1. Inductive' /\ Transferred(p)
  BY FinishCache
<1>2. /\ idx[p] # <<>> /\ b[p] \notin b_disk /\ pc[p] \in {"read", "dirty"} /\ p \notin waiting
      /\ idx' = [idx EXCEPT ![p] = <<>>] /\ waiting' = {q \in waiting : idx[q] # <<>>}
      /\ UNCHANGED <<lru, blockno, refcnt, data, locked, asleep, b, disk, pinned, latest>>
      /\ UNCHANGED <<b_disk, intr, avail, used, busy, irq>>
      /\ \A q \in Procs : q # p => pc'[q] = pc[q]
  BY Zenon DEF VInductive, Inductive, TypeOK, Finish, Running, Return, WakeAlloc, Goto, device
<1>3. PICK i, j, k \in Desc : i = idx[p][1] /\ j = idx[p][2] /\ k = idx[p][3]
  BY <1>2, Call, Zenon
<1>4. Held(p) = {i, j, k} /\ Desc' = Desc
  BY <1>2, <1>3, Zenon DEF Held, Desc
<1>5. ChainFrom(i) = {i, j, k}
  <2>1. desc[i].next = j /\ desc[j].next = k
    BY <1>2, <1>3, CallChain DEF VInductive
  <2>2. None \notin Desc
    BY VirtioAssumption DEF VInductive, VTypeOK, Desc
  <2> QED
    BY <2>1, <2>2, ZenonT(30) DEF ChainFrom
<1>6. /\ free' = free \cup {i, j, k}
      /\ desc' = [m \in Desc |-> IF m \in {i, j, k} THEN NoDesc ELSE desc[m]]
      /\ info' = [info EXCEPT ![i].b = 0] /\ ops' = [ops EXCEPT ![i] = None]
  BY <1>3, <1>5, Zenon DEF Finish, Return
<1>7. VTypeOK'
  <2>1. desc' \in [Desc -> [addr : Addr, next : Desc \cup {None}]]
    <3>1. NoDesc \in [addr : Addr, next : Desc \cup {None}]
      BY Zenon DEF NoDesc, Addr
    <3> QED
      BY <1>6, <3>1 DEF VInductive, VTypeOK
  <2>2. info' \in [Desc -> [b : 0 .. NBUF, status : {0, 255}]]
    <3>1. info \in [Desc -> [b : 0 .. NBUF, status : {0, 255}]] /\ 0 \in 0 .. NBUF
      BY BufCacheAssumption DEF VInductive, VTypeOK
    <3>2. [info[i] EXCEPT !.b = 0] \in [b : 0 .. NBUF, status : {0, 255}]
      BY <3>1
    <3> QED
      BY <1>6, <3>1, <3>2
  <2>3. ops' \in [Desc -> Op \cup {None}]
    BY <1>6, Zenon DEF VInductive, VTypeOK
  <2>4. idx' \in [Procs -> {<<>>} \cup (Desc \X Desc \X Desc)]
    BY <1>2, Zenon DEF VInductive, VTypeOK
  <2>5. (waiting \subseteq {q \in Procs : pc[q] \in {"read", "dirty"}})'
    <3>1. waiting \subseteq {q \in Procs : pc[q] \in {"read", "dirty"}}
      BY Zenon DEF VInductive, VTypeOK
    <3> QED
      BY <1>2, <3>1
  <2>6. free' \subseteq Desc
    BY <1>6 DEF VInductive, VTypeOK
  <2>7. Addr' = Addr /\ Op' = Op /\ Bufs' = Bufs
    BY <1>4, Zenon DEF Addr, Op, Bufs
  <2> QED
    BY <1>2, <1>4, <2>1, <2>2, <2>3, <2>4, <2>5, <2>6, <2>7, ZenonT(30) DEF VInductive, VTypeOK
<1>8. idx'[p] = <<>> /\ \A q \in Procs : q # p => idx'[q] = idx[q]
  <2>1. idx \in [Procs -> {<<>>} \cup (Desc \X Desc \X Desc)]
    BY Zenon DEF VInductive, VTypeOK
  <2> QED
    BY <1>2, <2>1
<1>9. Owned'
  <2>1. Held(p)' = {} /\ \A q \in Procs : q # p => Held(q)' = Held(q)
    BY <1>8, Zenon DEF Held
  <2>2. \A q, r \in Procs : q # r => Held(q)' \cap Held(r)' = {}
    BY <2>1 DEF VInductive, Owned
  <2>3. \A m \in Desc : m \in free' <=> \A q \in Procs : m \notin Held(q)'
    BY <1>4, <1>6, <2>1, SMTT(30) DEF VInductive, Owned
  <2> QED
    BY <1>4, <2>2, <2>3 DEF Owned
<1>10. InOnePlace' /\ Rings' = Rings
  BY <1>2, SMTT(30) DEF VInductive, InOnePlace, Rings
<1>11. i \notin Rings
  BY <1>2, <1>3, Returned
<1>12. Outstanding'
  <2>1. ASSUME NEW m \in Rings PROVE \E q \in Procs : Requests(q, m)'
    <3>1. PICK q \in Procs : Requests(q, m)
      BY DEF VInductive, Outstanding
    <3>2. q # p /\ info'[m] = info[m]
      BY <1>2, <1>3, <1>6, <1>11, <3>1, SMTT(30) DEF Requests, VInductive, VTypeOK
    <3>3. Requests(q, m)'
      BY <1>2, <1>8, <3>1, <3>2, Zenon DEF Requests
    <3> QED
      BY <3>3
  <2> QED
    BY <1>10, <2>1 DEF Outstanding
<1>13. CallsIntact'
  <2>1. ASSUME NEW q \in Procs, idx'[q] # <<>> PROVE Intact(q)'
    <3>1. q # p /\ idx[q] # <<>> /\ idx'[q] = idx[q]
      BY <1>8, <2>1, Zenon
    <3>2. Intact(q)
      BY <3>1, IntactCalls DEF VInductive
    <3>3. OpOf(q)' = OpOf(q)
      BY <1>2, <3>1, Zenon DEF OpOf
    <3>4. ASSUME NEW m \in Held(q)
          PROVE  desc'[m] = desc[m] /\ ops'[m] = ops[m] /\ info'[m] = info[m]
      <4>1. m \in Desc /\ m \notin {i, j, k}
        BY <1>4, <3>1, <3>4, HeldNotFree, SMTT(30) DEF VInductive, Owned
      <4> QED
        BY <1>6, <4>1 DEF VInductive, VTypeOK
    <3>5. /\ desc'[idx[q][1]] = desc[idx[q][1]] /\ desc'[idx[q][2]] = desc[idx[q][2]]
          /\ desc'[idx[q][3]] = desc[idx[q][3]]
          /\ ops'[idx[q][1]] = ops[idx[q][1]] /\ info'[idx[q][1]] = info[idx[q][1]]
      BY <3>1, <3>4 DEF Held
    <3> QED
      BY <1>2, <3>1, <3>2, <3>3, <3>5, ZenonT(30) DEF Intact
  <2> QED
    BY <2>1, IntactNext
<1>14. Waits'
  <2>1. \A q \in Procs : Transferred(q)' => Transferred(q)
    BY <1>2, <1>8, SMTT(30) DEF Transferred
  <2>2. \A q \in waiting' : q \in waiting /\ q \in Procs /\ q # p /\ idx[q] # <<>>
    BY <1>2 DEF VInductive, VTypeOK
  <2> QED
    BY <1>2, <1>8, <2>1, <2>2, ZenonT(30) DEF VInductive, Waits
<1> QED
  BY <1>1, <1>7, <1>9, <1>10, <1>12, <1>13, <1>14, SMTT(30) DEF VInductive

------------------------------------------------------------------------------
(* virtio_disk_intr *)

\* A step that touches none of the tables, at most the handler and the interrupt.
LEMMA SameTables ==
    ASSUME VInductive, irq' \in BOOLEAN, intr' \in {"idle", "loop"},
           UNCHANGED <<pc, b, blockno, NUM, idx, waiting, free, desc, ops, info, b_disk, avail, used, busy>>
    PROVE  VTypeOK' /\ Owned' /\ InOnePlace' /\ CallsIntact' /\ Outstanding'
<1>1. Desc' = Desc /\ Addr' = Addr /\ Op' = Op /\ Bufs' = Bufs
  BY Zenon DEF Desc, Addr, Op, Bufs
<1>2. VTypeOK'
  BY <1>1, Zenon DEF VInductive, VTypeOK
<1>3. Owned'
  BY <1>1, Zenon DEF VInductive, Owned, Held
<1>4. InOnePlace'
  BY Zenon DEF VInductive, InOnePlace
<1>5. CallsIntact'
  BY ZenonT(30) DEF VInductive, CallsIntact, OpOf
<1>6. Outstanding'
  BY Zenon DEF VInductive, Outstanding, Requests, Rings
<1> QED
  BY <1>2, <1>3, <1>4, <1>5, <1>6

\* A step that leaves the calls and what they wait for alone.
LEMMA IntrBeginInv ==
    ASSUME VInductive, IntrBegin, UNCHANGED NUM
    PROVE  VInductive'
<1> USE DEF queue
<1>1. Inductive'
  BY SameCache DEF VInductive, IntrBegin
<1>2. UNCHANGED <<pc, b, blockno, data, disk, latest>>
  BY DEF IntrBegin, vars, cache
<1>3. irq' \in BOOLEAN /\ intr' \in {"idle", "loop"}
  BY Zenon DEF IntrBegin, VInductive, VTypeOK
<1>4. VTypeOK' /\ Owned' /\ InOnePlace' /\ CallsIntact' /\ Outstanding'
  BY <1>2, <1>3, SameTables DEF IntrBegin
<1>5. Waits'
  BY <1>2, Zenon DEF VInductive, Waits, Transferred, IntrBegin
<1> QED
  BY <1>1, <1>4, <1>5 DEF VInductive

LEMMA IntrEndInv ==
    ASSUME VInductive, IntrEnd, UNCHANGED NUM
    PROVE  VInductive'
<1> USE DEF queue, device
<1>1. Inductive'
  BY SameCache DEF VInductive, IntrEnd
<1>2. UNCHANGED <<pc, b, blockno, data, disk, latest>>
  BY Zenon DEF IntrEnd, vars, cache
<1>3. irq' \in BOOLEAN /\ intr' \in {"idle", "loop"}
  BY Zenon DEF IntrEnd, VInductive, VTypeOK
<1>4. VTypeOK' /\ Owned' /\ InOnePlace' /\ CallsIntact' /\ Outstanding'
  BY <1>2, <1>3, SameTables DEF IntrEnd
<1>5. Waits'
  BY <1>2, Zenon DEF VInductive, Waits, Transferred, IntrEnd
<1> QED
  BY <1>1, <1>4, <1>5 DEF VInductive

LEMMA IntrUsedInv ==
    ASSUME VInductive, IntrUsed, UNCHANGED NUM
    PROVE  VInductive'
<1> USE DEF queue
<1>1. Inductive'
  BY SameCache DEF VInductive, IntrUsed
<1>2. /\ UNCHANGED <<pc, b, blockno, data, disk, latest>>
      /\ UNCHANGED <<idx, free, desc, ops, info, intr, avail, busy, irq>> /\ intr = "loop"
  BY DEF IntrUsed, vars, cache
<1>3. PICK h : h = Head(used)
  BY Zenon
<1>4. /\ h \in Range(used) /\ used' \in Seq(Desc) /\ Distinct(used)'
      /\ Range(used)' = Range(used) \ {h}
  <2>1. used \in Seq(Desc) /\ used # <<>> /\ Distinct(used)
    BY DEF VInductive, VTypeOK, InOnePlace, IntrUsed
  <2>2. /\ Head(used) \in Desc /\ Tail(used) \in Seq(Desc) /\ Distinct(Tail(used))
        /\ Head(used) \in Range(used) /\ Range(Tail(used)) = Range(used) \ {Head(used)}
    BY <2>1, RangeTail
  <2> QED
    BY <1>3, <2>2, ZenonT(30) DEF IntrUsed, Distinct, Range
<1>5. PICK p \in Procs : Requests(p, h)
  BY <1>4 DEF VInductive, Outstanding, Rings
<1>6. idx[p] # <<>> /\ idx[p][1] = h /\ info[h].b = b[p] /\ Holder(p)
  BY <1>5, CallTables, Call, Zenon DEF Requests, VInductive
<1>7. /\ b_disk' = b_disk \ {b[p]} /\ waiting' = {q \in waiting : idx[q] = <<>> \/ b[q] # b[p]}
  BY <1>3, <1>6 DEF IntrUsed
<1>8. \A q \in Procs : idx[q] # <<>> /\ q # p => b[q] # b[p] /\ idx[q][1] # h
  <2>1. \A q \in Procs : idx[q] # <<>> => Holder(q)
    BY Call
  <2>2. \A q \in Procs : Holder(q) /\ q # p => b[q] # b[p]
    BY <1>6, OneBuffer DEF VInductive
  <2>3. \A q \in Procs : idx[q] # <<>> /\ q # p => idx[q][1] # h
    BY <1>6, SMTT(30) DEF VInductive, Owned, Held
  <2> QED
    BY <2>1, <2>2, <2>3, SMTT(30)
<1>9. VTypeOK'
  BY <1>2, <1>4, <1>7, Zenon DEF VInductive, VTypeOK, Desc, Op, Addr, Bufs
<1>10. Owned' /\ CallsIntact'
  BY <1>2, ZenonT(30) DEF VInductive, Owned, Held, Desc, CallsIntact, OpOf
<1>11. InOnePlace'
  BY <1>2, <1>4, ZenonT(30) DEF VInductive, InOnePlace, Distinct
<1>12. Rings' = Rings \ {h}
  BY <1>2, <1>4 DEF VInductive, InOnePlace, Rings
<1>13. Outstanding'
  <2>1. ASSUME NEW m \in Rings, m # h PROVE \E q \in Procs : Requests(q, m)'
    <3>1. PICK q \in Procs : Requests(q, m)
      BY Zenon DEF VInductive, Outstanding
    <3>2. q # p
      BY <1>6, <2>1, <3>1, SMTT(30) DEF Requests
    <3>3. Requests(q, m)'
      BY <1>2, <1>4, <1>7, <1>8, <3>1, <3>2 DEF Requests
    <3> QED
      BY <3>3
  <2> QED
    BY <1>12, <2>1 DEF Outstanding
<1>14. Waits'
  <2>1. \A q \in Procs : Transferred(q)' => Transferred(q)
    BY <1>2 DEF Transferred
  <2>2. \A q \in waiting' : IF idx[q] = <<>> THEN \E r \in Procs : idx[r] # <<>> ELSE b[q] \in b_disk'
    BY <1>7, Zenon DEF VInductive, Waits
  <2>3. \A q \in Procs : idx[q] # <<>> /\ b[q] \in b_disk' => idx[q][1] \in Rings'
    BY <1>7, <1>8, <1>12, Zenon DEF VInductive, Waits, Rings
  <2> QED
    BY <1>2, <2>1, <2>2, <2>3, Zenon DEF VInductive, Waits, Rings
<1> QED
  BY <1>1, <1>9, <1>10, <1>11, <1>13, <1>14, SMTT(30) DEF VInductive

------------------------------------------------------------------------------
(* The device *)

LEMMA DevTakeInv ==
    ASSUME VInductive, DevTake, UNCHANGED NUM
    PROVE  VInductive'
<1> USE DEF queue
<1>1. Inductive'
  BY SameCache DEF VInductive, DevTake
<1>2. /\ UNCHANGED <<pc, b, blockno, data, disk, latest>>
      /\ UNCHANGED <<idx, waiting, free, desc, ops, info, b_disk, intr, used, irq>>
  BY DEF DevTake, vars, cache
<1>3. PICK h : h = Head(avail)
  OBVIOUS
<1>4. /\ h \in Range(avail) /\ h \in Desc /\ avail' \in Seq(Desc) /\ Distinct(avail)'
      /\ Range(avail)' = Range(avail) \ {h} /\ busy' = busy \cup {h}
  <2>1. avail \in Seq(Desc) /\ avail # <<>> /\ Distinct(avail)
    BY Zenon DEF VInductive, VTypeOK, InOnePlace, DevTake
  <2>2. /\ Head(avail) \in Desc /\ Tail(avail) \in Seq(Desc) /\ Distinct(Tail(avail))
        /\ Head(avail) \in Range(avail) /\ Range(Tail(avail)) = Range(avail) \ {Head(avail)}
    BY <2>1, RangeTail
  <2> QED
    BY <1>3, <2>2, ZenonT(30) DEF DevTake, Distinct, Range
<1>5. Rings' = Rings /\ Range(used)' = Range(used) /\ (Range(avail) \cup busy)' = Range(avail) \cup busy
  BY <1>2, <1>4, SMTT(30) DEF Rings
<1>6. VTypeOK'
  BY <1>2, <1>4, SMTT(30) DEF VInductive, VTypeOK, Desc, Op, Addr, Bufs
<1>7. Owned' /\ CallsIntact'
  BY <1>2, ZenonT(30) DEF VInductive, Owned, Held, Desc, CallsIntact, OpOf
<1>8. InOnePlace'
  BY <1>2, <1>4, <1>5, SMTT(30) DEF VInductive, InOnePlace, Distinct
<1>9. Outstanding'
  BY <1>2, <1>5 DEF VInductive, Outstanding, Requests
<1>10. Waits'
  <2>1. \A q \in Procs : Transferred(q)' <=> Transferred(q)
    BY <1>2, <1>5, Zenon DEF Transferred
  <2> QED
    BY <1>2, <1>5, <2>1, Zenon DEF VInductive, Waits
<1> QED
  BY <1>1, <1>6, <1>7, <1>8, <1>9, <1>10 DEF VInductive

\* What the device does is a transfer of the block and the buffer of one call.
LEMMA DevCompleteWhat ==
    ASSUME VInductive, NEW i \in Desc, DevComplete(i)
    PROVE  \E p \in Procs :
              /\ Requests(p, i) /\ ~Transferred(p)
              /\ pc[p] = "dirty" => disk' = [disk EXCEPT ![blockno[b[p]]] = data[b[p]]] /\ data' = data
              /\ pc[p] # "dirty" => data' = [data EXCEPT ![b[p]] = disk[blockno[b[p]]]] /\ disk' = disk
              /\ info' = [info EXCEPT ![i].status = 0]
<1>1. i \in Rings /\ i \in busy
  BY Zenon DEF DevComplete, Rings
<1>2. PICK p \in Procs : Requests(p, i)
  BY <1>1 DEF VInductive, Outstanding
<1>3. idx[p] # <<>> /\ idx[p][1] = i
  BY <1>2 DEF Requests
<1>4. PICK j, k : j = idx[p][2] /\ k = idx[p][3]
  BY Zenon
<1>5. /\ desc[i].next = j /\ desc[i].addr[2] = i /\ desc[j].next = k /\ desc[j].addr[2] = b[p]
      /\ desc[k].addr[2] = i /\ (ops[i].type = "out" <=> pc[p] = "dirty") /\ ops[i].block = blockno[b[p]]
  BY <1>3, <1>4, CallChain, Zenon DEF VInductive
<1>6. ~Transferred(p)
  BY <1>1, <1>3 DEF Transferred
<1>7. info' = [info EXCEPT ![i].status = 0]
  BY <1>5 DEF DevComplete
<1>8. pc[p] = "dirty" => disk' = [disk EXCEPT ![blockno[b[p]]] = data[b[p]]] /\ data' = data
  BY <1>5 DEF DevComplete
<1>9. pc[p] # "dirty" => data' = [data EXCEPT ![b[p]] = disk[blockno[b[p]]]] /\ disk' = disk
  BY <1>5 DEF DevComplete
<1> QED
  BY <1>2, <1>6, <1>7, <1>8, <1>9

LEMMA DevCompleteInv ==
    ASSUME VInductive, NEW i \in Desc, DevComplete(i), UNCHANGED NUM
    PROVE  VInductive'
<1>1. PICK p \in Procs :
         /\ Requests(p, i) /\ ~Transferred(p)
         /\ pc[p] = "dirty" => disk' = [disk EXCEPT ![blockno[b[p]]] = data[b[p]]] /\ data' = data
         /\ pc[p] # "dirty" => data' = [data EXCEPT ![b[p]] = disk[blockno[b[p]]]] /\ disk' = disk
         /\ info' = [info EXCEPT ![i].status = 0]
  BY DevCompleteWhat
<1>2. /\ UNCHANGED <<lru, blockno, valid, refcnt, locked, asleep, pc, b, pinned, latest>>
      /\ UNCHANGED <<idx, waiting, free, desc, ops, b_disk, intr, avail>>
      /\ i \in busy /\ busy' = busy \ {i} /\ used' = Append(used, i) /\ irq' = TRUE
  BY Zenon DEF DevComplete
<1>3. idx[p] # <<>> /\ idx[p][1] = i /\ pc[p] \in {"read", "dirty"} /\ Holder(p)
  BY <1>1, Call, SMTT(30) DEF Requests
<1>4. PICK m \in Bufs, n \in Blocks : m = b[p] /\ n = blockno[m]
  BY <1>3, Call, SMTT(30)
<1>5. \A j \in Bufs : blockno[j] = n => j = m
  BY <1>4, BufCacheAssumption DEF VInductive, Inductive, OneCopy
<1>6. \A q \in Procs : Holder(q) /\ q # p => b[q] \in Bufs \ {m} /\ blockno[b[q]] \in Blocks \ {n}
  <2>1. \A q \in Procs : Holder(q) /\ q # p => b[q] # m
    BY <1>3, <1>4, OneBuffer, SMTT(30) DEF VInductive
  <2>2. \A q \in Procs : Holder(q) => b[q] \in Bufs /\ blockno[b[q]] \in Blocks
    BY Buffer DEF VInductive, Holder
  <2> QED
    BY <1>5, <2>1, <2>2, SMTT(30)
<1>7. disk \in [Blocks -> Values] /\ data \in [Bufs -> Values]
  BY Zenon DEF VInductive, Inductive, TypeOK
\* The transfer makes the disk or the buffer what it should be.
<1>8. /\ disk'[n] = latest[n] /\ data'[m] = latest[n]
      /\ \A o \in Blocks \ {n} : disk'[o] = disk[o]
      /\ \A j \in Bufs \ {m} : data'[j] = data[j]
      /\ valid[m] => data'[m] = data[m]
      /\ disk' \in [Blocks -> Values] /\ data' \in [Bufs -> Values]
  <2>1. CASE pc[p] = "dirty"
    <3>1. valid[m] /\ data[m] = latest[n]
      BY <1>3, <1>4, <2>1, BufCacheAssumption, Zenon DEF VInductive, Inductive, Holding, Coherent
    <3> QED
      BY <1>1, <1>4, <1>7, <2>1, <3>1
  <2>2. CASE pc[p] = "read"
    <3>1. ~valid[m]
      BY <1>3, <1>4, <2>2, SMTT(30) DEF VInductive, Inductive, Holding
    <3>2. disk[n] = latest[n]
      BY <1>5, <3>1 DEF VInductive, Inductive, Unwritten
    <3> QED
      BY <1>1, <1>4, <1>7, <2>2, <3>1, <3>2, SMTT(30)
  <2> QED
    BY <1>3, <2>1, <2>2, Zenon
<1>9. Inductive'
  <2>1. TypeOK'
    BY <1>2, <1>8 DEF VInductive, Inductive, TypeOK, Bufs
  <2>2. OneCopy' /\ NoLostWakeup'
    BY <1>2, ZenonT(30) DEF VInductive, Inductive, OneCopy, Holder, NoLostWakeup, Bufs
  <2>3. RefsExact'
    BY <1>2, SameRefs, SMTT(30) DEF VInductive, Inductive
  <2>4. Coherent'
    BY <1>2, <1>8, SMTT(30) DEF VInductive, Inductive, Coherent, Bufs
  <2>5. Unwritten'
    BY <1>2, <1>8 DEF VInductive, Inductive, Unwritten, Bufs
  <2>6. Holding'
    <3>1. \A q \in Procs : pc[q] = "unpin" => disk'[blockno[b[q]]] = disk[blockno[b[q]]]
      BY <1>3, <1>6, <1>8, Zenon DEF Holder
    <3> QED
      BY <1>2, <3>1, ZenonT(30) DEF VInductive, Inductive, Holding, Holder
  <2> QED
    BY <2>1, <2>2, <2>3, <2>4, <2>5, <2>6, SMTT(30) DEF Inductive
<1>10. i \notin Range(avail) /\ i \notin Range(used) /\ used \in Seq(Desc) /\ Distinct(used)
  BY <1>2 DEF VInductive, VTypeOK, InOnePlace
<1>11. /\ used' \in Seq(Desc) /\ Distinct(used)' /\ Range(used)' = Range(used) \cup {i}
  <2>1. /\ Append(used, i) \in Seq(Desc) /\ Distinct(Append(used, i))
        /\ Range(Append(used, i)) = Range(used) \cup {i}
    BY <1>10, RangeAppend, SMTT(30)
  <2> QED
    BY <1>2, <2>1, Zenon DEF Distinct, Range
<1>12. Range(avail)' = Range(avail) /\ Rings' = Rings /\ Desc' = Desc
  BY <1>2, <1>11 DEF Rings, Range, Desc
<1>13. VTypeOK'
  <2>1. info' \in [Desc -> [b : 0 .. NBUF, status : {0, 255}]]
    <3>1. info \in [Desc -> [b : 0 .. NBUF, status : {0, 255}]]
      BY Zenon DEF VInductive, VTypeOK
    <3>2. [info[i] EXCEPT !.status = 0] \in [b : 0 .. NBUF, status : {0, 255}]
      BY <3>1
    <3> QED
      BY <1>1, <3>1, <3>2, SMTT(30)
  <2> QED
    BY <1>2, <1>11, <2>1, Zenon DEF VInductive, VTypeOK, Desc, Op, Addr, Bufs
<1>14. info'[i].status = 0 /\ info'[i].b = info[i].b /\ \A j \in Desc \ {i} : info'[j] = info[j]
  <2>1. info \in [Desc -> [b : 0 .. NBUF, status : {0, 255}]]
    BY DEF VInductive, VTypeOK
  <2> QED
    BY <1>1, <2>1
<1>15. Owned'
  BY <1>2, <1>12, Zenon DEF VInductive, Owned, Held
<1>16. InOnePlace'
  BY <1>2, <1>10, <1>11, <1>12, SMTT(30) DEF VInductive, InOnePlace, Distinct
<1>17. CallsIntact'
  <2>1. ASSUME NEW q \in Procs, idx'[q] # <<>> PROVE Intact(q)'
    <3>1. Intact(q) /\ idx[q][1] \in Desc
      BY <1>2, <2>1, IntactCalls, Call, Zenon DEF VInductive
    <3>2. OpOf(q)' = OpOf(q) /\ info'[idx[q][1]].b = info[idx[q][1]].b
      BY <1>2, <1>14, <3>1, Zenon DEF OpOf
    <3> QED
      BY <1>2, <3>1, <3>2, Zenon DEF Intact
  <2> QED
    BY <2>1, IntactNext
<1>18. Outstanding'
  <2>1. ASSUME NEW j \in Rings PROVE \E q \in Procs : Requests(q, j)'
    <3>1. PICK q \in Procs : Requests(q, j)
      BY DEF VInductive, Outstanding
    <3>2. j \in Desc
      BY <3>1, Call, Zenon DEF Requests
    <3>3. Requests(q, j)'
      BY <1>2, <1>11, <1>14, <3>1, <3>2, Zenon DEF Requests
    <3> QED
      BY <3>3
  <2> QED
    BY <1>12, <2>1 DEF Outstanding
<1>19. Waits'
  <2>1. \A q \in Procs : q # p /\ Transferred(q)' => Transferred(q) /\ Holder(q)
    <3>1. \A q \in Procs : q # p /\ idx[q] # <<>> => idx[q][1] # i /\ Holder(q)
      <4>1. \A q \in Procs : q # p => Held(p) \cap Held(q) = {}
        BY DEF VInductive, Owned
      <4>2. i \in Held(p) /\ \A q \in Procs : idx[q] # <<>> => idx[q][1] \in Held(q)
        BY <1>3 DEF Held
      <4>3. \A q \in Procs : idx[q] # <<>> => Holder(q)
        BY Call DEF VInductive
      <4> QED
        BY <4>1, <4>2, <4>3
    <3> QED
      BY <1>2, <1>12, <3>1, Zenon DEF Transferred
  <2>2. \A q \in Procs : Transferred(q)' =>
           disk'[blockno[b[q]]] = latest[blockno[b[q]]] /\ data'[b[q]] = latest[blockno[b[q]]]
    BY <1>4, <1>6, <1>8, <2>1, ZenonT(30) DEF VInductive, Waits
  <2>3. \A q \in Procs : idx[q] # <<>> /\ b[q] \in b_disk => idx[q][1] \in Rings'
    BY <1>12 DEF VInductive, Waits, Rings
  <2> QED
    BY <1>2, <2>2, <2>3, Zenon DEF VInductive, Waits, Rings
<1> QED
  BY <1>9, <1>13, <1>15, <1>16, <1>17, <1>18, <1>19 DEF VInductive

------------------------------------------------------------------------------
LEMMA VStepInv == VInductive /\ [VNext]_vvars => VInductive'
<1> SUFFICES ASSUME VInductive, [VNext]_vvars PROVE VInductive'
  BY Zenon
<1>1. CASE VNext
  <2>1. ASSUME NEW p \in Procs, CacheStep(p), UNCHANGED <<idx, waiting, queue, b_disk, intr, device>>
        PROVE  VInductive'
    BY <1>1, <2>1, CacheStepVInv DEF VNext
  <2>2. ASSUME NEW p \in Procs, AllocFail(p) \/ Submit(p) \/ Finish(p) PROVE VInductive'
    BY <1>1, <2>2, AllocFailInv, SubmitInv, FinishInv DEF VNext
  <2>3. CASE IntrBegin \/ IntrUsed \/ IntrEnd \/ DevTake
    BY <1>1, <2>3, IntrBeginInv, IntrUsedInv, IntrEndInv, DevTakeInv DEF VNext
  <2>4. ASSUME NEW i \in Desc, DevComplete(i) PROVE VInductive'
    BY <1>1, <2>4, DevCompleteInv DEF VNext
  <2> QED
    BY <1>1, <2>1, <2>2, <2>3, <2>4, SMTT(30) DEF VNext, VStep
<1>2. CASE UNCHANGED vvars
  <2>1. Inductive'
    BY <1>2, SameCache, SMTT(30) DEF VInductive, vvars
  <2>2. UNCHANGED <<pc, b, blockno, data, disk, latest, NUM, idx, waiting, free, desc, ops, info, b_disk,
                    intr, avail, used, busy, irq>>
    BY <1>2 DEF vvars, vars, cache, queue, device
  <2>3. VTypeOK' /\ Owned' /\ InOnePlace' /\ CallsIntact' /\ Outstanding'
    <3>1. irq' \in BOOLEAN /\ intr' \in {"idle", "loop"}
      BY <2>2, Zenon DEF VInductive, VTypeOK
    <3> QED
      BY <2>2, <3>1, SameTables
  <2>4. Waits'
    BY <2>2, Zenon DEF VInductive, Waits, Transferred
  <2> QED
    BY <2>1, <2>3, <2>4 DEF VInductive
<1> QED
  BY <1>1, <1>2

LEMMA VInductiveHolds == VSpec => []VInductive
<1>1. VInit => VInductive
  BY VInitInv
<1>2. VInductive /\ [VNext]_vvars => VInductive'
  BY VStepInv
<1> QED
  BY <1>1, <1>2, PTL DEF VSpec

\* For any number of processes and any queue of three descriptors or more, failed
\* allocations, the interrupt handler and a device that answers in any order keep
\* the driver's tables consistent: DriverInv, by the invariant that a call's chain
\* stays as submitted and that its request is in one place until b->disk is 0.
THEOREM DriverInvariant == VSpec => []DriverInv
<1>1. VInductive => DriverInv
  BY VInductiveIsInv
<1> QED
  BY <1>1, VInductiveHolds, PTL

\* The cache stays coherent over the driver, where a transfer takes many steps and
\* the buffer and the disk change before bread or bwrite returns.
THEOREM CacheOverDriver == VSpec => []CacheInv
<1>1. VInductive => CacheInv
  BY VInductiveIsInv
<1> QED
  BY <1>1, VInductiveHolds, PTL

------------------------------------------------------------------------------
(* The cache over the driver and the cache over a one-step disk *)

LEMMA RefineInit == VInit => BC!Init
<1> SUFFICES ASSUME VInit PROVE BC!Init
  OBVIOUS
<1>1. \A p \in Procs : ~Transferred(p)
  BY DEF VInit, Transferred
<1>2. pcBar = [p \in Procs |-> "idle"]
  BY <1>1 DEF VInit, Init, pcBar
<1>3. validBar = [i \in Bufs |-> FALSE]
  BY <1>1, Zenon DEF VInit, Init, validBar, ReadDone
<1> QED
  BY <1>2, <1>3, Zenon DEF VInit, Init, BC!Init, BC!Bufs, Bufs, pcBar, validBar, ReadDone

\* What does not change for the cache.
LEMMA Stutter ==
    ASSUME pcBar' = pcBar, validBar' = validBar,
           UNCHANGED <<lru, blockno, refcnt, data, locked, asleep, b, disk, pinned, latest>>
    PROVE  UNCHANGED BC!vars
BY Zenon DEF BC!vars, BC!cache, pcBar, validBar, ReadDone, BC!Bufs, Bufs

LEMMA SameBar ==
    ASSUME UNCHANGED vars, \A p \in Procs : Transferred(p)' <=> Transferred(p)
    PROVE  UNCHANGED BC!vars
<1>1. pcBar' = pcBar
  BY Zenon DEF pcBar, vars
<1>2. \A i \in Bufs : ReadDone(i)' <=> ReadDone(i)
  BY Zenon DEF ReadDone, vars
<1>3. validBar' = validBar
  BY <1>2 DEF validBar, vars, cache, Bufs
<1> QED
  BY <1>1, <1>3, Stutter DEF vars, cache

LEMMA RefineQuiet ==
    ASSUME VInductive, UNCHANGED NUM,
           (\E p \in Procs : AllocFail(p) \/ Submit(p)) \/ IntrBegin \/ IntrUsed \/ IntrEnd \/ DevTake
    PROVE  UNCHANGED BC!vars
<1> USE DEF queue, device
<1>1. ASSUME NEW p \in Procs, AllocFail(p) PROVE UNCHANGED BC!vars
  BY <1>1, SameBar DEF AllocFail, Transferred
<1>2. ASSUME NEW p \in Procs, Submit(p) PROVE UNCHANGED BC!vars
  <2>1. PICK i, j, k \in Desc : idx' = [idx EXCEPT ![p] = <<i, j, k>>] /\ avail' = Append(avail, i) /\ i \in free
    <3>1. PICK i, j, k \in free : i = Min(free) /\ j = Min(free \ {i}) /\ k = Min(free \ {i, j})
      BY <1>2, Three, Zenon DEF VInductive, Submit
    <3>2. idx' = [idx EXCEPT ![p] = <<i, j, k>>] /\ avail' = Append(avail, i)
      BY <1>2, <3>1, Zenon DEF Submit, Enqueue
    <3> QED
      BY <3>1, <3>2, Zenon DEF VInductive, VTypeOK
  <2>2. Range(avail)' = Range(avail) \cup {i}
    BY <2>1, RangeAppend DEF VInductive, VTypeOK
  <2>3. idx[p] = <<>> /\ busy' = busy /\ UNCHANGED vars
    BY <1>2, Zenon DEF Submit, Running
  <2>4. ~Transferred(p) /\ ~Transferred(p)'
    BY <2>1, <2>2, <2>3 DEF Transferred, VInductive, VTypeOK
  <2>5. ASSUME NEW q \in Procs, q # p PROVE Transferred(q)' <=> Transferred(q)
    <3>1. idx'[q] = idx[q]
      BY <2>1, <2>5 DEF VInductive, VTypeOK
    <3>2. idx[q] # <<>> => idx[q][1] # i
      BY <2>1, SMTT(30) DEF VInductive, Owned, Held
    <3> QED
      BY <2>2, <2>3, <3>1, <3>2 DEF Transferred
  <2> QED
    BY <2>3, <2>4, <2>5, SameBar
<1>3. CASE IntrBegin \/ IntrUsed \/ IntrEnd
  BY <1>3, SameBar DEF IntrBegin, IntrUsed, IntrEnd, Transferred
<1>4. CASE DevTake
  <2>1. avail \in Seq(Desc) /\ avail # <<>> /\ Distinct(avail)
    BY <1>4 DEF VInductive, VTypeOK, InOnePlace, DevTake
  <2>2. Head(avail) \in Range(avail) /\ Range(Tail(avail)) = Range(avail) \ {Head(avail)}
    BY <2>1, RangeTail
  <2>3. Range(avail)' = Range(avail) \ {Head(avail)}
    BY <1>4, <2>2, Zenon DEF DevTake, Range
  <2>4. (Range(avail) \cup busy)' = Range(avail) \cup busy
    BY <1>4, <2>2, <2>3 DEF DevTake
  <2> QED
    BY <1>4, <2>4, SameBar, Zenon DEF DevTake, Transferred
<1> QED
  BY <1>1, <1>2, <1>3, <1>4

\* The return of a call is invisible to the cache.
LEMMA RefineFinish ==
    ASSUME VInductive, NEW p \in Procs, Finish(p)
    PROVE  UNCHANGED BC!vars
<1>1. Transferred(p)
  BY FinishCache
<1>2. /\ idx[p] # <<>> /\ pc[p] \in {"read", "dirty"} /\ idx' = [idx EXCEPT ![p] = <<>>]
      /\ UNCHANGED <<lru, blockno, refcnt, data, locked, asleep, b, disk, pinned, latest, avail, busy>>
      /\ pc' = [pc EXCEPT ![p] = IF pc[p] = "dirty" /\ b[p] \in pinned THEN "unpin" ELSE "held"]
      /\ valid' = IF pc[p] = "read" THEN [valid EXCEPT ![b[p]] = TRUE] ELSE valid
  BY DEF Finish, Running, Return, Goto, device
<1>3. ~Transferred(p)' /\ \A q \in Procs : q # p => (Transferred(q)' <=> Transferred(q))
  <2>1. idx'[p] = <<>> /\ \A q \in Procs : q # p => idx'[q] = idx[q]
    BY <1>2, ZenonT(30) DEF VInductive, VTypeOK
  <2>2. Range(avail)' = Range(avail) /\ busy' = busy
    BY <1>2, Zenon DEF Range
  <2> QED
    BY <2>1, <2>2, Zenon DEF Transferred
<1>4. pcBar' = pcBar
  BY <1>1, <1>2, <1>3 DEF pcBar, VInductive, Inductive, TypeOK
<1>5. validBar' = validBar
  <2>1. b[p] \in Bufs
    BY <1>2, Call, Zenon
  <2>2. ASSUME NEW i \in Bufs PROVE (valid'[i] \/ ReadDone(i)') <=> (valid[i] \/ ReadDone(i))
    <3>1. \A q \in Procs : q # p => pc'[q] = pc[q]
      BY <1>2 DEF VInductive, Inductive, TypeOK
    <3>2. CASE pc[p] = "read" /\ i = b[p]
      BY <1>1, <1>2, <2>1, <3>2 DEF ReadDone, VInductive, Inductive, TypeOK
    <3>3. CASE ~(pc[p] = "read" /\ i = b[p])
      <4>1. valid'[i] = valid[i]
        BY <1>2, <2>1, <3>3, Zenon DEF VInductive, Inductive, TypeOK
      <4>2. ReadDone(i)' <=> ReadDone(i)
        BY <1>2, <1>3, <3>1, <3>3 DEF ReadDone
      <4> QED
        BY <4>1, <4>2
    <3> QED
      BY <3>2, <3>3, Zenon
  <2> QED
    BY <2>2 DEF validBar, Bufs
<1> QED
  BY <1>2, <1>4, <1>5, Stutter

\* The transfer is the step in which the cache over a one-step disk transfers.
LEMMA RefineComplete ==
    ASSUME VInductive, NEW i \in Desc, DevComplete(i)
    PROVE  BC!Next
<1>1. PICK p \in Procs :
         /\ Requests(p, i) /\ ~Transferred(p)
         /\ pc[p] = "dirty" => disk' = [disk EXCEPT ![blockno[b[p]]] = data[b[p]]] /\ data' = data
         /\ pc[p] # "dirty" => data' = [data EXCEPT ![b[p]] = disk[blockno[b[p]]]] /\ disk' = disk
         /\ info' = [info EXCEPT ![i].status = 0]
  BY DevCompleteWhat
<1>2. /\ UNCHANGED <<lru, blockno, valid, refcnt, locked, asleep, pc, b, pinned, latest, idx, avail>>
      /\ i \in busy /\ busy' = busy \ {i}
  BY Zenon DEF DevComplete
<1>3. /\ idx[p] # <<>> /\ idx[p][1] = i /\ pc[p] \in {"read", "dirty"} /\ Holder(p) /\ b[p] \in Bufs
      /\ p \notin asleep
  BY <1>1, Call DEF Requests, VInductive, Inductive, TypeOK
<1>4. Transferred(p)' /\ \A q \in Procs : q # p => (Transferred(q)' <=> Transferred(q))
  <2>1. i \notin Range(avail) /\ Range(avail)' = Range(avail)
    BY <1>2, Zenon DEF VInductive, InOnePlace, Range
  <2>2. \A q \in Procs : q # p /\ idx[q] # <<>> => idx[q][1] # i
    BY <1>3, ZenonT(30) DEF VInductive, Owned, Held
  <2> QED
    BY <1>2, <1>3, <2>1, <2>2 DEF Transferred
<1>5. pcBar[p] = pc[p]
  BY <1>1 DEF pcBar
<1>6. pcBar' = [pcBar EXCEPT ![p] = IF pc[p] = "dirty" /\ b[p] \in pinned THEN "unpin" ELSE "held"]
  BY <1>2, <1>4, Zenon DEF pcBar
<1>7. CASE pc[p] = "dirty"
  <2>1. validBar' = validBar
    <3>1. \A j \in Bufs : ReadDone(j)' <=> ReadDone(j)
      BY <1>2, <1>4, <1>7 DEF ReadDone
    <3> QED
      BY <1>2, <3>1 DEF validBar, Bufs
  <2>2. BC!Bwrite(p)
    <3>1. pcBar[p] = "dirty" /\ pcBar' = [pcBar EXCEPT ![p] = IF b[p] \in pinned THEN "unpin" ELSE "held"]
      BY <1>5, <1>6, <1>7
    <3> QED
      BY <1>1, <1>2, <1>3, <1>7, <2>1, <3>1
      DEF BC!Bwrite, BC!At, BC!Goto, BC!cache, BC!Bufs, Bufs, pcBar, validBar, ReadDone
  <2> QED
    BY <2>2 DEF BC!Next
<1>8. CASE pc[p] = "read"
  <2>1. validBar' = [validBar EXCEPT ![b[p]] = TRUE]
    <3>1. ReadDone(b[p])' /\ \A j \in Bufs \ {b[p]} : ReadDone(j)' <=> ReadDone(j)
      BY <1>2, <1>4, <1>8, Zenon DEF ReadDone
    <3> QED
      BY <1>2, <1>3, <3>1, Zenon DEF validBar, Bufs
  <2>2. BC!Bread(p)
    <3>1. pcBar[p] = "read" /\ pcBar' = [pcBar EXCEPT ![p] = "held"]
      BY <1>5, <1>6, <1>8
    <3> QED
      BY <1>1, <1>2, <1>3, <1>8, <2>1, <3>1, Zenon
      DEF BC!Bread, BC!At, BC!Goto, BC!Bufs, Bufs, pcBar, validBar, ReadDone
  <2> QED
    BY <2>2 DEF BC!Next
<1> QED
  BY <1>3, <1>7, <1>8

\* A step in the cache is that step of BufCache: the processes in virtio_disk_rw are
\* none of its business.
LEMMA RefineCache ==
    ASSUME VInductive, NEW p \in Procs, CacheStep(p), UNCHANGED <<idx, avail, busy>>
    PROVE  BC!CacheStep(p)
<1>1. \A q \in Procs : Transferred(q)' <=> Transferred(q)
  BY Zenon DEF Transferred
<1>2. \A q \in Procs : idx[q] # <<>> => q # p /\ Frame(q) /\ pc[q] \in {"read", "dirty"}
  BY Call, CacheStepFrame DEF VInductive
<1>3. \A q \in Procs : Transferred(q) => idx[q] # <<>>
  BY Zenon DEF Transferred
<1>4. ~Transferred(p) /\ ~Transferred(p)' /\ pcBar[p] = pc[p]
  BY <1>1, <1>2, <1>3 DEF pcBar
<1>5. \A q \in Procs : Transferred(q) => pcBar'[q] = pcBar[q]
  BY <1>1, <1>2, <1>3, Zenon DEF pcBar, Frame
<1>6. ASSUME NEW l, Goto(p, l) PROVE pcBar' = [pcBar EXCEPT ![p] = l]
  <2>1. \A q \in Procs : ~Transferred(q) => pcBar[q] = pc[q] /\ pcBar'[q] = pc'[q]
    BY <1>1, Zenon DEF pcBar
  <2>2. pc' = [pc EXCEPT ![p] = l] /\ pc \in [Procs -> {"idle", "lock", "read", "held", "dirty", "unpin", "release", "panic"}]
    BY <1>6 DEF Goto, VInductive, Inductive, TypeOK
  <2>3. \A q \in Procs : pcBar'[q] = IF q = p THEN l ELSE pcBar[q]
    BY <1>4, <1>5, <2>1, <2>2, Zenon
  <2>4. pcBar = [q \in Procs |-> pcBar[q]] /\ pcBar' = [q \in Procs |-> pcBar'[q]]
    BY Zenon DEF pcBar
  <2> QED
    BY <2>3, <2>4
<1>7. \A i \in Bufs : ReadDone(i)' <=> ReadDone(i)
  <2>1. \A q \in Procs : Transferred(q) => b'[q] = b[q] /\ pc'[q] = pc[q]
    BY <1>2, <1>3 DEF Frame
  <2> QED
    BY <1>1, <2>1 DEF ReadDone
<1>8. UNCHANGED valid => validBar' = validBar
  BY <1>7 DEF validBar, Bufs
<1> DEFINE D == BC!CacheStep(p)
<1>9. ASSUME NEW n \in Blocks, BgetHit(p, n) PROVE D
  <2>1. pcBar' = [pcBar EXCEPT ![p] = "lock"] /\ validBar' = validBar
    BY <1>6, <1>8, <1>9, Zenon DEF BgetHit
  <2>2. BC!BgetHit(p, n)
    BY <1>4, <1>9, <2>1, Zenon DEF BgetHit, At, BC!BgetHit, BC!At, BC!Goto, BC!Bufs, Bufs, pcBar, validBar, ReadDone
  <2> QED
    BY <2>2 DEF BC!CacheStep
<1>10. ASSUME NEW n \in Blocks, BgetMiss(p, n) PROVE D
  <2>1. PICK i \in Bufs : i = Victim /\ refcnt[i] = 0
    <3>1. Max(Recyclable) \in Recyclable
      BY <1>10, MaxExists, BufCacheAssumption DEF BgetMiss, Recyclable, Bufs
    <3>2. lru \in [Bufs -> Bufs]
      BY DEF VInductive, Inductive, TypeOK, Bijection, Injection
    <3> QED
      BY <3>1, <3>2, Zenon DEF Recyclable, Victim
  <2>2. ~ReadDone(i)
    BY <2>1, Unused DEF VInductive, Inductive, ReadDone
  <2>3. valid' = [valid EXCEPT ![i] = FALSE]
    BY <1>10, <2>1 DEF BgetMiss
  <2>4. validBar' = [validBar EXCEPT ![Victim] = FALSE]
    BY <1>7, <2>1, <2>2, <2>3, Zenon DEF validBar, Bufs, VInductive, Inductive, TypeOK
  <2>5. pcBar' = [pcBar EXCEPT ![p] = "lock"]
    BY <1>6, <1>10 DEF BgetMiss
  <2>6. BC!Victim = Victim /\ BC!Recyclable = Recyclable
    BY DEF BC!Victim, BC!Recyclable, BC!Max, Victim, Recyclable, Max, BC!Bufs, Bufs
  <2>7. BC!BgetMiss(p, n)
    BY <1>4, <1>10, <2>4, <2>5, <2>6, Zenon
    DEF BgetMiss, At, BC!BgetMiss, BC!At, BC!Goto, BC!Bufs, Bufs, pcBar, validBar, ReadDone
  <2> QED
    BY <2>7 DEF BC!CacheStep
<1>b. ASSUME NEW n \in Blocks, BgetPanic(p, n) PROVE D
  <2>1. pcBar' = [pcBar EXCEPT ![p] = "panic"] /\ validBar' = validBar
    BY <1>6, <1>8, <1>b, Zenon DEF BgetPanic, cache
  <2>2. \A q \in Procs : pcBar[q] # "panic"
    BY <1>b DEF BgetPanic, pcBar
  <2>3. BC!Recyclable = Recyclable
    BY DEF BC!Recyclable, Recyclable, BC!Bufs, Bufs
  <2>4. BC!BgetPanic(p, n)
    BY <1>4, <1>b, <2>1, <2>2, <2>3, Zenon
    DEF BgetPanic, At, cache, BC!BgetPanic, BC!At, BC!Goto, BC!cache, BC!Bufs, Bufs, pcBar, validBar, ReadDone
  <2> QED
    BY <2>4 DEF BC!CacheStep
<1>11. CASE Acquiresleep(p)
  <2>1. b[p] \in Bufs
    BY <1>11, Buffer, Zenon DEF VInductive, Acquiresleep, At
  <2>2. ~ReadDone(b[p])
    <3>1. locked[b[p]] = None
      BY <1>11, Zenon DEF Acquiresleep
    <3>2. \A q \in Procs : Holder(q) /\ b[q] = b[p] => locked[b[p]] = q
      BY <2>1, Zenon DEF VInductive, Inductive, OneCopy
    <3>3. \A q \in Procs : q # None
      BY BufCacheAssumption, Zenon
    <3>4. \A q \in Procs : ~(Holder(q) /\ b[q] = b[p])
      BY <3>1, <3>2, <3>3, Zenon
    <3> QED
      BY <3>4, Zenon DEF Holder, ReadDone
  <2>3. validBar[b[p]] <=> valid[b[p]]
    BY <2>1, <2>2, Zenon DEF validBar
  <2>4. validBar' = validBar /\ pcBar' = [pcBar EXCEPT ![p] = IF validBar[b[p]] THEN "held" ELSE "read"]
    BY <1>6, <1>8, <1>11, <2>3, Zenon DEF Acquiresleep, cache
  <2>5. BC!Acquiresleep(p)
    BY <1>4, <1>11, <2>4, Zenon
    DEF Acquiresleep, At, cache, BC!Acquiresleep, BC!At, BC!Goto, BC!cache, BC!Bufs, Bufs, pcBar, validBar, ReadDone
  <2> QED
    BY <2>5 DEF BC!CacheStep
<1>a. UNCHANGED pc => pcBar' = pcBar
  <2>1. UNCHANGED pc => \A q \in Procs : pcBar'[q] = pcBar[q]
    BY <1>1, <1>5, Zenon DEF pcBar
  <2> QED
    BY <2>1, Zenon DEF pcBar
<1>12. CASE Install(p)
  <2>1. pcBar' = [pcBar EXCEPT ![p] = "dirty"] /\ validBar' = validBar
    BY <1>6, <1>8, <1>12 DEF Install, cache
  <2>2. BC!Install(p)
    BY <1>4, <1>12, <2>1, Zenon
    DEF Install, At, cache, BC!Install, BC!At, BC!Goto, BC!cache, BC!Bufs, Bufs, pcBar, validBar, ReadDone
  <2> QED
    BY <2>2 DEF BC!CacheStep
<1>13. CASE Bunpin(p)
  <2>1. pcBar' = [pcBar EXCEPT ![p] = "held"] /\ validBar' = validBar
    BY <1>6, <1>8, <1>13 DEF Bunpin, cache
  <2>2. BC!Bunpin(p)
    BY <1>4, <1>13, <2>1, Zenon
    DEF Bunpin, At, cache, BC!Bunpin, BC!At, BC!Goto, BC!cache, BC!Bufs, Bufs, pcBar, validBar, ReadDone
  <2> QED
    BY <2>2 DEF BC!CacheStep
<1>14. CASE Releasesleep(p)
  <2>1. pcBar' = [pcBar EXCEPT ![p] = "release"] /\ validBar' = validBar
    BY <1>6, <1>8, <1>14, Zenon DEF Releasesleep, cache
  <2>2. BC!Releasesleep(p)
    BY <1>4, <1>14, <2>1, Zenon
    DEF Releasesleep, At, cache, BC!Releasesleep, BC!At, BC!Goto, BC!cache, BC!Bufs, Bufs, pcBar, validBar, ReadDone
  <2> QED
    BY <2>2 DEF BC!CacheStep
<1>15. CASE Brelse(p)
  <2>1. pcBar' = [pcBar EXCEPT ![p] = "idle"] /\ validBar' = validBar
    BY <1>6, <1>8, <1>15, Zenon DEF Brelse, cache
  <2>2. BC!Brelse(p)
    BY <1>4, <1>15, <2>1, Zenon
    DEF Brelse, At, cache, BC!Brelse, BC!At, BC!Goto, BC!cache, BC!MoveToFront, MoveToFront, BC!Bufs, Bufs, pcBar, validBar, ReadDone
  <2> QED
    BY <2>2 DEF BC!CacheStep
<1>16. ASSUME NEW v \in Values, Modify(p, v) PROVE D
  <2>1. pcBar' = [pcBar EXCEPT ![p] = "dirty"] /\ validBar' = validBar
    BY <1>6, <1>8, <1>16, Zenon DEF Modify, cache
  <2>2. BC!Modify(p, v)
    BY <1>4, <1>16, <2>1, Zenon
    DEF Modify, At, cache, BC!Modify, BC!At, BC!Goto, BC!cache, Store, BC!Store, BC!Bufs, Bufs, pcBar, validBar, ReadDone
  <2> QED
    BY <2>2 DEF BC!CacheStep
<1>17. CASE AcquiresleepWait(p)
  <2>1. pcBar' = pcBar /\ validBar' = validBar
    BY <1>a, <1>8, <1>17 DEF AcquiresleepWait, cache
  <2>2. BC!AcquiresleepWait(p)
    BY <1>4, <1>17, <2>1, Zenon
    DEF AcquiresleepWait, At, cache, BC!AcquiresleepWait, BC!At, BC!Goto, BC!cache, BC!Bufs, Bufs, pcBar, validBar, ReadDone
  <2> QED
    BY <2>2 DEF BC!CacheStep
<1>18. ASSUME NEW v \in Values, Bpin(p, v) PROVE D
  <2>1. pcBar' = pcBar /\ validBar' = validBar
    BY <1>a, <1>8, <1>18 DEF Bpin, cache
  <2>2. BC!Bpin(p, v)
    BY <1>4, <1>18, <2>1, Zenon
    DEF Bpin, At, cache, BC!Bpin, BC!At, BC!Goto, BC!cache, Store, BC!Store, BC!Bufs, Bufs, pcBar, validBar, ReadDone
  <2> QED
    BY <2>2 DEF BC!CacheStep
<1> QED
  BY <1>9, <1>10, <1>b, <1>11, <1>12, <1>13, <1>14, <1>15, <1>16, <1>17, <1>18, SMTT(30) DEF CacheStep

LEMMA RefineNext == VInductive /\ [VNext]_vvars => [BC!Next]_(BC!vars)
<1> SUFFICES ASSUME VInductive, [VNext]_vvars PROVE BC!Next \/ UNCHANGED BC!vars
  BY Zenon
<1>1. CASE VNext
  <2>1. ASSUME NEW p \in Procs, CacheStep(p), UNCHANGED <<idx, waiting, queue, b_disk, intr, device>>
        PROVE  BC!Next
    BY <2>1, RefineCache DEF BC!Next, queue, device
  <2>2. ASSUME NEW p \in Procs, AllocFail(p) \/ Submit(p) PROVE UNCHANGED BC!vars
    BY <1>1, <2>2, RefineQuiet DEF VNext
  <2>3. ASSUME NEW p \in Procs, Finish(p) PROVE UNCHANGED BC!vars
    BY <2>3, RefineFinish
  <2>4. CASE IntrBegin \/ IntrUsed \/ IntrEnd \/ DevTake
    BY <1>1, <2>4, RefineQuiet DEF VNext
  <2>5. ASSUME NEW i \in Desc, DevComplete(i) PROVE BC!Next
    BY <2>5, RefineComplete, SMTT(30)
  <2> QED
    BY <1>1, <2>1, <2>2, <2>3, <2>4, <2>5 DEF VNext, VStep
<1>2. CASE UNCHANGED vvars
  BY <1>2, SameBar DEF vvars, vars, queue, device, Transferred
<1> QED
  BY <1>1, <1>2

(* The driver, the interrupt handler and the device implement the disk that the
   buffer cache takes for granted: with virtio_disk_rw, virtio_disk_intr and the
   device stepping on their own, each step is a step of the cache over a disk that
   transfers a block in one step, taken when the device completes the request, or
   it is invisible to the cache.  For every number of processes, buffers, blocks
   and descriptors. *)
THEOREM DriverImplementsCache == VSpec => ImplementsBufCache
<1>1. VInit => BC!Init
  BY RefineInit
<1>2. VInductive /\ [VNext]_vvars => [BC!Next]_(BC!vars)
  BY RefineNext
<1>3. VSpec => []VInductive
  BY VInductiveHolds
<1> QED
  BY <1>1, <1>2, <1>3, PTL DEF VSpec, ImplementsBufCache, BC!Spec
=============================================================================
