------------------------------ MODULE LogProofs ------------------------------
(***************************************************************************)
(* Proofs about Log: its inductive invariant, the absence of lost wakeups, *)
(* the write-ahead rule, and that log.c implements AtomicDisk.             *)
(***************************************************************************)
EXTENDS Log, FiniteSetTheorems, TLAPS

USE DEF InOp, InCommit

------------------------------------------------------------------------------
(* Counting the open calls *)

\* The set of open calls is finite, so log.outstanding can count it.
LEMMA ActiveFinite == IsFiniteSet(Active)
BY LogAssumption, FS_Subset, Zenon DEF Active

\* A step that opens and closes no call keeps the count.
LEMMA SameCount ==
  ASSUME Counted, outstanding' = outstanding, Active' = Active
  PROVE  Counted'
BY Zenon DEF Counted

\* A call enters: begin_op's increment.
LEMMA EnterCount ==
  ASSUME Counted, NEW p \in Procs, p \notin Active,
         Active' = Active \cup {p}, outstanding' = outstanding + 1
  PROVE  Counted'
BY ActiveFinite, FS_AddElement, Zenon DEF Counted

\* A call leaves: end_op's decrement, which never goes below zero.
LEMMA LeaveCount ==
  ASSUME Counted, NEW p \in Active,
         Active' = Active \ {p}, outstanding' = outstanding - 1
  PROVE  Counted' /\ outstanding \in Nat \ {0}
<1>1. /\ Cardinality(Active \ {p}) = Cardinality(Active) - 1
      /\ Cardinality(Active) \in Nat
      /\ Cardinality(Active \ {p}) \in Nat
  BY ActiveFinite, FS_RemoveElement, FS_CardinalityType, Zenon
<1> QED
  BY <1>1 DEF Counted

------------------------------------------------------------------------------
(* Typing facts used by several steps *)

\* bread returns a block's content.
LEMMA ReadType ==
  ASSUME TypeOK, NEW b \in Blocks
  PROVE  Read(b) \in Vals /\ (cache[b] # None => Read(b) = cache[b])
BY LogAssumption, Zenon DEF TypeOK, Read

\* The loops of write_log and install_trans stay inside the log.
LEMMA TailType ==
  ASSUME TypeOK, Headers, tail < Len(lh)
  PROVE  /\ tail + 1 \in 1 .. Len(lh)
         /\ tail + 1 \in 1 .. LOGBLOCKS
         /\ lh[tail + 1] \in Blocks
         /\ logd[tail + 1] \in Vals
<1>1. Len(lh) \in Nat /\ LOGBLOCKS \in Nat
  BY LogAssumption DEF TypeOK
<1>2. tail + 1 \in 1 .. Len(lh) /\ tail + 1 \in 1 .. LOGBLOCKS
  BY <1>1 DEF TypeOK, Headers
<1> QED
  BY <1>1, <1>2 DEF TypeOK

------------------------------------------------------------------------------
(* Steps that change the cache or the disk and leave every read as it was *)

\* Recycling an unpinned buffer loses nothing: the disk has its content.
LEMMA EvictReads ==
  ASSUME Consistent, NEW b \in Blocks, Evict(b)
  PROVE  \A c \in Blocks : Read(c)' = Read(c)
<1> USE DEF Consistent, LogInv, Evict, disk
<1>1. CASE InLog(b)
  <2>1. PICK i \in 1 .. Len(lh) : lh[i] = b
    BY <1>1, Zenon DEF InLog
  <2>2. Installing /\ i <= tail
    <3>1. i \in Nat /\ tail \in Nat /\ pin[b] = 0 /\ boot = "up"
      BY DEF TypeOK, Running
    <3>2. ~(Installing => i > tail)
      BY <2>1, <3>1 DEF Pinned
    <3> QED
      BY <3>1, <3>2
  <2>3. Read(b) = home[b]
    BY <2>1, <2>2 DEF Progress, Installing, TypeOK
  <2> QED
    BY <2>3, Zenon DEF Read, TypeOK
<1>2. CASE ~InLog(b)
  BY <1>2, Zenon DEF Pinned, Read, TypeOK, Running
<1> QED
  BY <1>1, <1>2, Zenon

\* write_log reads through the cache.
LEMMA WriteLogReads ==
  ASSUME Consistent, NEW p \in Procs, WriteLog(p)
  PROVE  \A c \in Blocks : Read(c)' = Read(c)
<1> USE DEF Consistent, LogInv, WriteLog
<1>1. PICK b \in Blocks : b = lh[tail + 1]
  BY TailType, Zenon
<1>2. Read(b) \in Vals /\ Read(b) # None
  BY ReadType, LogAssumption, Zenon
<1> QED
  BY <1>1, <1>2, Zenon DEF Read, TypeOK

\* install_trans copies the log block over a buffer with the same content.
LEMMA InstallTransReads ==
  ASSUME Consistent, NEW p \in Procs, InstallTrans(p)
  PROVE  \A c \in Blocks : Read(c)' = Read(c)
<1> USE DEF Consistent, LogInv, InstallTrans
<1>1. PICK b \in Blocks : b = lh[tail + 1]
  BY TailType, Zenon
<1>2. PICK v \in Vals : v = logd[tail + 1]
  BY TailType, Zenon
<1>3. Read(b) = v /\ v # None
  BY <1>1, <1>2, TailType, LogAssumption, Zenon DEF Progress
<1>4. cache' = [cache EXCEPT ![b] = v] /\ home' = [home EXCEPT ![b] = v]
  BY <1>1, <1>2, Zenon
<1> QED
  BY <1>3, <1>4, SMTT(30) DEF Read, TypeOK

------------------------------------------------------------------------------
(* The invariant holds initially and after every step *)

\* A fresh disk: empty log header, empty cache, nobody in a call.
LEMMA InitInv == Init => Consistent
<1> SUFFICES ASSUME Init PROVE Consistent
  BY Zenon
<1>1. TypeOK
  BY LogAssumption DEF Init, TypeOK
<1>2. Counted
  <2>1. Active = {}
    BY Zenon DEF Init, Active
  <2> QED
    BY <2>1, FS_EmptySet, Zenon DEF Init, Counted
<1>3. Calls /\ Buffers
  BY DEF Init, Calls, Buffers
<1>4. Headers
  BY LogAssumption DEF Init, Headers, NoDuplicates
<1>5. Pinned /\ Progress
  BY Zenon DEF Init, Pinned, Progress, Read
<1> QED
  BY <1>1, <1>2, <1>3, <1>4, <1>5, Zenon DEF Consistent, LogInv

\* begin_op sleeps: only the control state of p changes.
LEMMA BeginOpSleepInv ==
  ASSUME Consistent, NEW p \in Procs, BeginOpSleep(p)
  PROVE  Consistent'
<1> USE DEF Consistent, LogInv, BeginOpSleep, disk, mem, Running
<1>1. TypeOK'
  BY Zenon DEF TypeOK
<1>2. Counted'
  <2>1. Active' = Active
    BY Zenon DEF Active, TypeOK
  <2> QED
    BY <2>1, SameCount, Zenon
<1>3. Calls'
  BY Zenon DEF Calls, TypeOK
<1>4. Buffers'
  BY Zenon DEF Buffers, TypeOK
<1>5. Headers'
  BY Zenon DEF Headers, NoDuplicates, Installing, TypeOK
<1>6. Pinned'
  BY Zenon DEF Pinned, Read, InLog, Installing, TypeOK
<1>7. Progress'
  BY Zenon DEF Progress, Read, TypeOK
<1> QED
  BY <1>1, <1>2, <1>3, <1>4, <1>5, <1>6, <1>7, Zenon

\* begin_op admits p: it only does so while nothing commits.
LEMMA BeginOpEnterInv ==
  ASSUME Consistent, NEW p \in Procs, BeginOpEnter(p)
  PROVE  Consistent'
<1> USE DEF Consistent, LogInv, BeginOpEnter, MustWait, disk, mem, Running
<1>1. TypeOK'
  BY DEF TypeOK
<1>2. Counted'
  <2>1. p \notin Active /\ Active' = Active \cup {p}
    BY Zenon DEF Active, TypeOK
  <2> QED
    BY <2>1, EnterCount, Zenon
<1>3. Calls'
  BY Zenon DEF Calls, TypeOK
<1>4. Buffers'
  BY Zenon DEF Buffers, TypeOK
<1>5. Headers'
  BY Zenon DEF Headers, NoDuplicates, Installing, TypeOK
<1>6. Pinned'
  BY Zenon DEF Pinned, Read, InLog, Installing, TypeOK
<1>7. Progress'
  BY Zenon DEF Progress, Read, TypeOK
<1> QED
  BY <1>1, <1>2, <1>3, <1>4, <1>5, <1>6, <1>7, Zenon

\* bread gives p the locked buffer of b, filled from the disk if needed.
LEMMA BreadInv ==
  ASSUME Consistent, NEW p \in Procs, NEW b \in Blocks, Bread(p, b)
  PROVE  Consistent'
<1> USE DEF Consistent, LogInv, Bread, Read, disk, mem, Running
<1>1. TypeOK'
  BY Zenon DEF TypeOK
<1>2. Counted'
  <2>1. Active' = Active
    BY Zenon DEF Active, TypeOK
  <2> QED
    BY <2>1, SameCount, Zenon
<1>3. Calls'
  BY DEF Calls, TypeOK
<1>4. Buffers'
  <2>1. Read(b) # None /\ b # None
    BY ReadType, LogAssumption, Zenon
  <2>2. \A q \in Procs : held[q] # b
    BY Zenon
  <2> QED
    BY <2>1, <2>2, Zenon DEF Buffers, TypeOK
<1>5. Headers'
  BY DEF Headers, NoDuplicates, Installing, TypeOK
<1>6. Pinned'
  BY Zenon DEF Pinned, Read, InLog, Installing, TypeOK
<1>7. Progress'
  BY SMTT(30) DEF Progress, Read, TypeOK
<1> QED
  BY <1>1, <1>2, <1>3, <1>4, <1>5, <1>6, <1>7, Zenon

\* log_write: the one step that makes cache and disk differ; it logs and pins.
LEMMA LogWriteInv ==
  ASSUME Consistent, NEW p \in Procs, NEW v \in Vals, LogWrite(p, v)
  PROVE  Consistent'
<1> USE DEF Consistent, LogInv, LogWrite, LogWritePanics, disk, mem, Running
<1>a. PICK b \in Blocks : b = held[p]
  BY Zenon DEF Buffers, TypeOK
<1>b. /\ ~Installing /\ ~Installing'
      /\ \A q \in Procs : pc[q] \notin InCommit /\ pc'[q] \notin InCommit
  BY Zenon DEF Calls, Installing, TypeOK
<1>0. /\ b = held[p]
      /\ ~Installing /\ ~Installing'
      /\ \A q \in Procs : pc[q] \notin InCommit /\ pc'[q] \notin InCommit
  BY <1>a, <1>b, Zenon
<1>1. TypeOK'
  <2>1. lh' \in Seq(Blocks) /\ pin' \in [Blocks -> Nat]
    <3>1. CASE InLog(b)
      BY <1>0, <3>1, Zenon DEF TypeOK
    <3>2. CASE ~InLog(b)
      <4>1. lh' = Append(lh, b) /\ pin' = [pin EXCEPT ![b] = @ + 1]
        BY <1>0, <3>2, Zenon
      <4>2. Append(lh, b) \in Seq(Blocks)
        BY DEF TypeOK
      <4> QED
        BY <4>1, <4>2 DEF TypeOK
    <3> QED
      BY <3>1, <3>2, Zenon
  <2> QED
    BY <1>0, <2>1, Zenon DEF TypeOK
<1>2. Counted'
  <2>1. Active' = Active
    BY Zenon DEF Active, TypeOK
  <2> QED
    BY <2>1, SameCount, Zenon
<1>3. Calls'
  BY DEF Calls, TypeOK
<1>4. Buffers'
  BY Zenon DEF Buffers, TypeOK
<1>5. Headers'
  <2>1. CASE InLog(b)
    BY <1>0, <2>1, Zenon DEF Headers
  <2>2. CASE ~InLog(b)
    <3>1. /\ Len(lh') = Len(lh) + 1
          /\ lh'[Len(lh) + 1] = b
          /\ \A i \in 1 .. Len(lh) : lh'[i] = lh[i] /\ lh[i] # b
      BY <1>0, <2>2 DEF InLog, TypeOK
    <3>2. Len(lh) \in Nat /\ Len(lh) < LOGBLOCKS /\ tail \in Nat
      BY LogAssumption DEF TypeOK, Headers
    <3>3. NoDuplicates(lh')
      BY <3>1, <3>2 DEF Headers, NoDuplicates
    <3>4. Len(lh') <= LOGBLOCKS /\ tail' <= Len(lh')
      BY <3>1, <3>2, LogAssumption DEF Headers
    <3> QED
      BY <1>0, <3>3, <3>4 DEF Headers, NoDuplicates
  <2> QED
    BY <2>1, <2>2, Zenon
<1>6. Pinned'
  <2>1. /\ boot' = "up" /\ home' = home
        /\ pin'[b] > 0 /\ cache'[b] # None
    <3>1. CASE InLog(b)
      BY <1>0, <3>1, LogAssumption, Zenon DEF Pinned, InLog, TypeOK
    <3>2. CASE ~InLog(b)
      BY <1>0, <3>2, LogAssumption DEF TypeOK
    <3> QED
      BY <3>1, <3>2, Zenon
  <2>2. \A c \in Blocks : c # b => cache'[c] = cache[c] /\ pin'[c] = pin[c]
    BY <1>0, Zenon DEF TypeOK
  <2>3. \A c \in Blocks : c # b => (InLog(c) <=> InLog(c)')
    <3>1. CASE InLog(b)
      BY <1>0, <3>1, Zenon DEF InLog
    <3>2. CASE ~InLog(b)
      <4>1. /\ Len(lh) \in Nat /\ Len(lh') = Len(lh) + 1
            /\ lh'[Len(lh) + 1] = b
            /\ \A i \in 1 .. Len(lh) : lh'[i] = lh[i]
        BY <1>0, <3>2 DEF TypeOK
      <4> HIDE DEF Consistent, LogInv, LogWrite, LogWritePanics, disk, mem, Running
      <4> QED
        BY <4>1, SMTT(30) DEF InLog
    <3> QED
      BY <3>1, <3>2, Zenon
  <2>4. InLog(b)'
    <3>1. CASE InLog(b)
      BY <1>0, <3>1, Zenon DEF InLog
    <3>2. CASE ~InLog(b)
      <4>1. /\ Len(lh) \in Nat /\ Len(lh') = Len(lh) + 1
            /\ lh'[Len(lh) + 1] = b
        BY <1>0, <3>2 DEF TypeOK
      <4> QED
        BY <4>1, SMTT(30) DEF InLog
    <3> QED
      BY <3>1, <3>2, Zenon
  <2>5. \A c \in Blocks : InLog(c)' => pin'[c] > 0 /\ cache'[c] # None
    BY <1>0, <2>1, <2>2, <2>3, SMTT(30) DEF Pinned, InLog
  <2>6. \A c \in Blocks : ~InLog(c)' => Read(c)' = home'[c]
    BY <1>0, <2>1, <2>2, <2>3, <2>4 DEF Pinned, Read
  <2> QED
    BY <2>1, <2>5, <2>6, Zenon DEF Pinned, InLog
<1>7. Progress'
  BY <1>0, Zenon DEF Progress
<1> QED
  BY <1>1, <1>2, <1>3, <1>4, <1>5, <1>6, <1>7, Zenon

\* Recycling an unpinned buffer loses nothing.
LEMMA EvictInv ==
  ASSUME Consistent, NEW b \in Blocks, Evict(b)
  PROVE  Consistent'
<1> USE DEF Consistent, LogInv, Evict, disk, mem, Running, proc
<1>1. TypeOK'
  BY Zenon DEF TypeOK
<1>2. Counted'
  <2>1. Active' = Active
    BY Zenon DEF Active, TypeOK
  <2> QED
    BY <2>1, SameCount, Zenon
<1>3. Calls'
  BY Zenon DEF Calls, TypeOK
<1>4. Buffers'
  BY Zenon DEF Buffers, TypeOK
<1>5. Headers'
  BY DEF Headers, NoDuplicates, Installing, TypeOK
<1>6. Pinned'
  BY DEF Pinned, Read, InLog, Installing, TypeOK
<1>7. Progress'
  <2>2. \A c \in Blocks : Read(c)' = Read(c)
    BY EvictReads, Zenon
  <2>3. \A i \in 1 .. Len(lh) : lh[i] \in Blocks
    BY DEF TypeOK
  <2>4. 1 .. tail \subseteq 1 .. Len(lh)
    BY DEF Headers, TypeOK
  <2> QED
    BY <2>2, <2>3, <2>4 DEF Progress
<1> QED
  BY <1>1, <1>2, <1>3, <1>4, <1>5, <1>6, <1>7, Zenon

\* end_op with calls remaining.
LEMMA EndOpLeaveInv ==
  ASSUME Consistent, NEW p \in Procs, EndOpLeave(p)
  PROVE  Consistent'
<1> USE DEF Consistent, LogInv, EndOpLeave, disk, mem, Running
<1>1. Counted' /\ outstanding \in Nat \ {0}
  <2>1. p \in Active /\ Active' = Active \ {p}
    BY Zenon DEF Active, TypeOK, WakeLog
  <2>2. outstanding' = outstanding - 1
    BY Zenon
  <2> QED
    BY <2>1, <2>2, LeaveCount, Zenon
<1>2. TypeOK'
  BY <1>1 DEF TypeOK, WakeLog
<1>3. Calls'
  BY DEF Calls, TypeOK, WakeLog
<1>4. Buffers'
  BY Zenon DEF Buffers, TypeOK, WakeLog
<1>5. Headers'
  BY Zenon DEF Headers, NoDuplicates, Installing, TypeOK, WakeLog
<1>6. Pinned'
  BY ZenonT(30) DEF Pinned, Read, InLog, Installing, TypeOK, WakeLog
<1>7. Progress'
  BY Zenon DEF Progress, Read, TypeOK, WakeLog
<1> QED
  BY <1>1, <1>2, <1>3, <1>4, <1>5, <1>6, <1>7, Zenon

\* The last end_op starts the commit: no call is open then.
LEMMA EndOpCommitInv ==
  ASSUME Consistent, NEW p \in Procs, EndOpCommit(p)
  PROVE  Consistent'
<1> USE DEF Consistent, LogInv, EndOpCommit, disk, mem, Running
<1>1. Counted' /\ outstanding \in Nat \ {0}
  <2>1. p \in Active /\ Active' = Active \ {p}
    BY Zenon DEF Active, TypeOK, WakeLog
  <2>2. outstanding' = outstanding - 1
    OBVIOUS
  <2> QED
    BY <2>1, <2>2, LeaveCount, Zenon
<1>2. TypeOK'
  BY <1>1, Zenon DEF TypeOK, WakeLog
<1>3. Calls'
  <2>1. Active' = {}
    <3>1. Active' = Active \ {p}
      BY Zenon DEF Active, TypeOK
    <3>2. IsFiniteSet(Active \ {p}) /\ Cardinality(Active \ {p}) = 0
      BY <1>1, <3>1, ActiveFinite, FS_RemoveElement, SMTT(30) DEF Counted
    <3> QED
      BY <3>1, <3>2, FS_EmptySet, Zenon
  <2> QED
    BY <2>1, Zenon DEF Calls, Active, TypeOK
<1>4. Buffers'
  BY Zenon DEF Buffers, TypeOK
<1>5. Headers'
  BY DEF Headers, NoDuplicates, Installing, TypeOK
<1>6. Pinned'
  <2>1. ~Installing /\ ~Installing'
    BY Zenon DEF Calls, Installing, TypeOK
  <2> QED
    BY <2>1, Zenon DEF Pinned, Read, InLog, TypeOK
<1>7. Progress'
  BY DEF Progress, Read, TypeOK
<1> QED
  BY <1>1, <1>2, <1>3, <1>4, <1>5, <1>6, <1>7, Zenon

\* write_log copies one pinned block into the log.
LEMMA WriteLogInv ==
  ASSUME Consistent, NEW p \in Procs, WriteLog(p)
  PROVE  Consistent'
<1> USE DEF Consistent, LogInv, WriteLog, disk, mem, Running, proc
<1>a. PICK b \in Blocks : b = lh[tail + 1]
  BY TailType, Zenon
<1>b. /\ tail + 1 \in 1 .. Len(lh) /\ tail + 1 \in 1 .. LOGBLOCKS
      /\ Read(b) \in Vals /\ Read(b) # None
  BY TailType, ReadType, LogAssumption, Zenon
<1>c. \A c \in Blocks : Read(c)' = Read(c)
  BY WriteLogReads, Zenon
<1>1. TypeOK'
  BY <1>a, <1>b DEF TypeOK
<1>2. Counted'
  <2>1. Active' = Active
    BY Zenon DEF Active, TypeOK
  <2> QED
    BY <2>1, SameCount, Zenon
<1>3. Calls'
  BY Zenon DEF Calls, TypeOK
<1>4. Buffers'
  BY <1>a, <1>b, Zenon DEF Buffers, TypeOK
<1>5. Headers'
  BY SMTT(30) DEF Headers, NoDuplicates, Installing, TypeOK
<1>6. Pinned'
  BY DEF Pinned, Read, InLog, Installing, TypeOK
<1>7. Progress'
  <2>1. \A i \in 1 .. tail : i # tail + 1 /\ logd'[i] = logd[i]
    BY <1>b DEF TypeOK
  <2>2. logd'[tail + 1] = Read(lh[tail + 1])
    BY <1>b, Zenon DEF TypeOK
  <2>3. \A i \in 1 .. Len(lh) : Read(lh[i])' = Read(lh[i])
    BY <1>c DEF TypeOK
  <2>4. \A i \in 1 .. tail' : i \in 1 .. Len(lh) /\ (i \in 1 .. tail \/ i = tail + 1)
    BY <1>b DEF TypeOK
  <2>5. \A q \in Procs : pc[q] \in InCommit => q = p
    BY Zenon DEF Calls
  <2> QED
    BY <2>1, <2>2, <2>3, <2>4, <2>5, SMTT(30) DEF Progress, Calls
<1> QED
  BY <1>1, <1>2, <1>3, <1>4, <1>5, <1>6, <1>7, Zenon

\* write_head commits.
LEMMA WriteHeadInv ==
  ASSUME Consistent, NEW p \in Procs, WriteHead(p)
  PROVE  Consistent'
<1> USE DEF Consistent, LogInv, WriteHead, disk, mem, Running
<1>1. TypeOK'
  BY Zenon DEF TypeOK
<1>2. Counted'
  <2>1. Active' = Active
    BY Zenon DEF Active, TypeOK
  <2> QED
    BY <2>1, SameCount, Zenon
<1>3. Calls'
  BY DEF Calls, TypeOK
<1>4. Buffers'
  BY Zenon DEF Buffers, TypeOK
<1>5. Headers'
  BY DEF Headers, NoDuplicates, Installing, TypeOK
<1>6. Pinned'
  <2>1. ~Installing /\ Installing' /\ tail' = 0
    BY Zenon DEF Calls, Installing, TypeOK
  <2>2. \A i \in 1 .. Len(lh) : i > 0
    OBVIOUS
  <2> QED
    BY <2>1, <2>2, Zenon DEF Pinned, Read, InLog
<1>7. Progress'
  BY DEF Progress, Read, TypeOK
<1> QED
  BY <1>1, <1>2, <1>3, <1>4, <1>5, <1>6, <1>7, Zenon

\* install_trans copies one block home and unpins it.
LEMMA InstallTransInv ==
  ASSUME Consistent, NEW p \in Procs, InstallTrans(p)
  PROVE  Consistent'
<1> USE DEF Consistent, LogInv, InstallTrans, disk, mem, Running, proc
<1>a. PICK b \in Blocks : b = lh[tail + 1]
  BY TailType, Zenon
<1>b. PICK v \in Vals : v = logd[tail + 1]
  BY TailType, Zenon
<1>c. /\ tail + 1 \in 1 .. Len(lh) /\ Len(lh) \in Nat /\ tail \in Nat
      /\ Installing /\ Installing'
  BY TailType DEF TypeOK, Installing
<1>d. pin[b] \in Nat /\ pin[b] > 0 /\ v # None
  BY <1>a, <1>c, LogAssumption DEF Pinned, TypeOK
<1>e. \A i \in 1 .. Len(lh) : i # tail + 1 => lh[i] # b
  BY <1>a, <1>c, Zenon DEF Headers, NoDuplicates
<1>f. \A c \in Blocks : Read(c)' = Read(c)
  BY InstallTransReads, Zenon
<1>g. /\ home'[b] = v /\ pin' = [pin EXCEPT ![b] = pin[b] - 1]
      /\ \A c \in Blocks : c # b => home'[c] = home[c] /\ pin'[c] = pin[c]
                                    /\ cache'[c] = cache[c]
  BY <1>a, <1>b, SMTT(30) DEF TypeOK
<1>1. TypeOK'
  <2>1. pin[b] - 1 \in Nat
    BY <1>d
  <2> QED
    BY <1>a, <1>b, <2>1, SMTT(30) DEF TypeOK
<1>2. Counted'
  <2>1. Active' = Active
    BY Zenon DEF Active, TypeOK
  <2> QED
    BY <2>1, SameCount, Zenon
<1>3. Calls'
  BY Zenon DEF Calls, TypeOK
<1>4. Buffers'
  BY <1>a, <1>b, <1>d, Zenon DEF Buffers, TypeOK
<1>5. Headers'
  BY SMTT(30) DEF Headers, NoDuplicates, Installing, TypeOK
<1>6. Pinned'
  <2>1. boot' = "up" /\ lh' = lh /\ tail' = tail + 1
    BY Zenon
  <2>2. \A i \in 1 .. Len(lh) : i > tail + 1 =>
           pin'[lh[i]] > 0 /\ cache'[lh[i]] # None
    <3>1. \A i \in 1 .. Len(lh) : i > tail + 1 => i > tail /\ i # tail + 1
      BY <1>c
    <3>2. \A i \in 1 .. Len(lh) : lh[i] \in Blocks
      BY DEF TypeOK
    <3> QED
      BY <1>c, <1>e, <1>g, <3>1, <3>2, Zenon DEF Pinned
  <2>3. \A c \in Blocks : ~InLog(c) => c # b
    BY <1>a, <1>c, Zenon DEF InLog
  <2>4. \A c \in Blocks : InLog(c)' <=> InLog(c)
    BY Zenon DEF InLog
  <2>5. \A c \in Blocks : ~InLog(c)' => Read(c)' = home'[c]
    BY <1>f, <1>g, <2>3, <2>4, SMTT(30) DEF Pinned
  <2> QED
    BY <1>c, <2>1, <2>2, <2>5 DEF Pinned
<1>7. Progress'
  <2>1. \A i \in 1 .. Len(lh) : lh[i] \in Blocks
    BY DEF TypeOK
  <2>2. \A i \in 1 .. Len(lh) : logd[i] = Read(lh[i])'
    BY <1>f, <2>1, Zenon DEF Progress
  <2>3. \A i \in 1 .. tail + 1 : i \in 1 .. Len(lh) /\ (i \in 1 .. tail \/ i = tail + 1)
    BY <1>c, SMTT(30)
  <2>4. \A i \in 1 .. tail + 1 : home'[lh[i]] = logd[i]
    BY <1>a, <1>b, <1>c, <1>e, <1>g, <2>1, <2>3, SMTT(30) DEF Progress
  <2>5. \A q \in Procs : pc[q] \in InCommit => q = p
    BY Zenon DEF Calls
  <2> QED
    BY <2>2, <2>4, <2>5, Zenon DEF Progress
<1> QED
  BY <1>1, <1>2, <1>3, <1>4, <1>5, <1>6, <1>7, Zenon

\* The header is cleared once every block is home.
LEMMA ClearHeadInv ==
  ASSUME Consistent, NEW p \in Procs, ClearHead(p)
  PROVE  Consistent'
<1> USE DEF Consistent, LogInv, ClearHead, disk, mem, Running
<1>1. TypeOK'
  BY DEF TypeOK
<1>2. Counted'
  <2>1. Active' = Active
    BY Zenon DEF Active, TypeOK
  <2> QED
    BY <2>1, SameCount, Zenon
<1>3. Calls'
  BY Zenon DEF Calls, TypeOK
<1>4. Buffers'
  BY Zenon DEF Buffers, TypeOK
<1>5. Headers'
  BY LogAssumption, SMTT(30) DEF Headers, NoDuplicates, Installing, TypeOK
<1>6. Pinned'
  <2>1. \A c \in Blocks : Read(c) = home[c]
    BY DEF Pinned, Progress, InLog, Headers
  <2>2. Len(lh') = 0
    BY Zenon
  <2> QED
    BY <2>1, <2>2, SMTT(30) DEF Pinned, Read
<1>7. Progress'
  BY DEF Progress, Read, TypeOK
<1> QED
  BY <1>1, <1>2, <1>3, <1>4, <1>5, <1>6, <1>7, Zenon

\* The end of the commit.
LEMMA EndOpFinishInv ==
  ASSUME Consistent, NEW p \in Procs, EndOpFinish(p)
  PROVE  Consistent'
<1> USE DEF Consistent, LogInv, EndOpFinish, disk, mem, Running
<1>1. TypeOK'
  BY Zenon DEF TypeOK, WakeLog
<1>2. Counted'
  <2>1. Active' = Active
    BY Zenon DEF Active, TypeOK, WakeLog
  <2> QED
    BY <2>1, SameCount, Zenon
<1>3. Calls'
  BY DEF Calls, TypeOK, WakeLog
<1>4. Buffers'
  BY Zenon DEF Buffers, TypeOK, WakeLog
<1>5. Headers'
  BY DEF Headers, NoDuplicates, Installing, TypeOK, WakeLog
<1>6. Pinned'
  BY ZenonT(30) DEF Pinned, Read, InLog, Installing, TypeOK, WakeLog
<1>7. Progress'
  BY Zenon DEF Progress, Read, TypeOK, WakeLog
<1> QED
  BY <1>1, <1>2, <1>3, <1>4, <1>5, <1>6, <1>7, SMTT(30)

\* Recovery reads the header.
LEMMA RecoverReadHeadInv ==
  ASSUME Consistent, RecoverReadHead
  PROVE  Consistent'
<1> USE DEF Consistent, LogInv, RecoverReadHead, disk, proc
<1>1. TypeOK'
  BY Zenon DEF TypeOK, WakeLog
<1>2. Counted'
  <2>1. Active' = Active
    BY Zenon DEF Active, TypeOK
  <2> QED
    BY <2>1, SameCount, Zenon
<1>3. Calls'
  BY Zenon DEF Calls, TypeOK
<1>4. Buffers'
  BY Zenon DEF Buffers, TypeOK
<1>5. Headers'
  BY SMTT(30) DEF Headers, NoDuplicates, Installing, TypeOK
<1>6. Pinned'
  BY Zenon DEF Pinned, Read, InLog, Installing, TypeOK
<1>7. Progress'
  <2>1. tail' = 0 /\ \A p \in Procs : pc'[p] = "idle"
    BY Zenon DEF Calls
  <2> QED
    BY <2>1 DEF Progress
<1> QED
  BY <1>1, <1>2, <1>3, <1>4, <1>5, <1>6, <1>7, SMTT(30)

\* Recovery copies one block home.
LEMMA RecoverInstallInv ==
  ASSUME Consistent, RecoverInstall
  PROVE  Consistent'
<1> USE DEF Consistent, LogInv, RecoverInstall, disk, proc
<1>a. PICK b \in Blocks : b = lh[tail + 1]
  BY TailType, Zenon
<1>b. PICK v \in Vals : v = logd[tail + 1]
  BY TailType, SMTT(30)
<1>c. /\ tail + 1 \in 1 .. Len(lh) /\ Len(lh) \in Nat /\ tail \in Nat
      /\ v # None /\ \A p \in Procs : pc'[p] = "idle"
  BY <1>b, TailType, LogAssumption, SMTT(30) DEF TypeOK, Calls
<1>e. \A i \in 1 .. Len(lh) : i # tail + 1 => lh[i] # b
  BY <1>a, <1>c, Zenon DEF Headers, NoDuplicates
<1>g. /\ home'[b] = v
      /\ \A c \in Blocks : c # b => home'[c] = home[c]
  BY <1>a, <1>b, SMTT(30) DEF TypeOK
<1>1. TypeOK'
  BY <1>a, <1>b, SMTT(30) DEF TypeOK
<1>2. Counted'
  <2>1. Active' = Active
    BY SMTT(30) DEF Active, TypeOK
  <2> QED
    BY <2>1, SameCount, Zenon
<1>3. Calls'
  BY Zenon DEF Calls, TypeOK
<1>4. Buffers'
  BY <1>a, <1>b, <1>c, SMTT(30) DEF Buffers, TypeOK
<1>5. Headers'
  BY DEF Headers, NoDuplicates, Installing, TypeOK
<1>6. Pinned'
  BY Zenon DEF Pinned, Read, InLog, Installing, TypeOK
<1>7. Progress'
  <2>1. \A i \in 1 .. Len(lh) : lh[i] \in Blocks
    BY DEF TypeOK
  <2>2. \A i \in 1 .. tail + 1 : i \in 1 .. Len(lh) /\ (i \in 1 .. tail \/ i = tail + 1)
    BY <1>c, SMTT(30)
  <2>3. \A i \in 1 .. tail + 1 : home'[lh[i]] = logd[i]
    BY <1>a, <1>b, <1>c, <1>e, <1>g, <2>1, <2>2, Zenon DEF Progress
  <2> QED
    BY <1>c, <2>3, Zenon DEF Progress
<1> QED
  BY <1>1, <1>2, <1>3, <1>4, <1>5, <1>6, <1>7, Zenon

\* Recovery clears the header once every block is home.
LEMMA RecoverClearInv ==
  ASSUME Consistent, RecoverClear
  PROVE  Consistent'
<1> USE DEF Consistent, LogInv, RecoverClear, disk, proc
<1>1. TypeOK'
  BY DEF TypeOK
<1>2. Counted'
  <2>1. Active' = Active
    BY Zenon DEF Active, TypeOK
  <2> QED
    BY <2>1, SameCount, Zenon
<1>3. Calls'
  BY Zenon DEF Calls, TypeOK
<1>4. Buffers'
  BY Zenon DEF Buffers, TypeOK
<1>5. Headers'
  BY LogAssumption, SMTT(30) DEF Headers, NoDuplicates, Installing, TypeOK
<1>6. Pinned'
  BY SMTT(30) DEF Pinned, Read, InLog, Installing, TypeOK
<1>7. Progress'
  BY DEF Progress, Read, TypeOK
<1> QED
  BY <1>1, <1>2, <1>3, <1>4, <1>5, <1>6, <1>7, SMTT(30)

\* A crash keeps the disk and forgets the rest.
LEMMA CrashInv ==
  ASSUME Consistent, Crash
  PROVE  Consistent'
<1> USE DEF Consistent, LogInv, Crash, disk
<1>1. TypeOK'
  BY DEF TypeOK
<1>2. Counted'
  <2>1. Active' = {}
    BY Zenon DEF Active
  <2> QED
    BY <2>1, FS_EmptySet, Zenon DEF Counted
<1>3. Calls'
  BY SMTT(30) DEF Calls, TypeOK
<1>4. Buffers'
  BY SMTT(30) DEF Buffers, TypeOK
<1>5. Headers'
  BY LogAssumption, SMTT(30) DEF Headers, NoDuplicates, Installing, TypeOK
<1>6. Pinned'
  BY SMTT(30) DEF Pinned, Read, InLog, Installing, TypeOK
<1>7. Progress'
  BY Zenon DEF Progress, Read, TypeOK
<1> QED
  BY <1>1, <1>2, <1>3, <1>4, <1>5, <1>6, <1>7, SMTT(30)
------------------------------------------------------------------------------
(* The theorems *)

\* Every step, stuttering included, keeps the invariant.
LEMMA NextInv == Consistent /\ [Next]_vars => Consistent'
<1> SUFFICES ASSUME Consistent, [Next]_vars PROVE Consistent'
  BY Zenon
<1>1. CASE UNCHANGED vars
  <2>1. UNCHANGED <<home, logd, hdr, lh, outstanding, committing, cache, pin,
                    pc, held, wrote, tail, boot>>
    BY <1>1, SMTT(30) DEF vars, disk, mem, proc
  <2>2. TypeOK' /\ Counted' /\ Buffers'
    BY <2>1, SMTT(30) DEF Consistent, LogInv, TypeOK, Counted, Active, Buffers
  <2>3. Calls' /\ Headers'
    BY <2>1, SMTT(30) DEF Consistent, LogInv, Calls, Headers, Installing, NoDuplicates
  <2>4. Pinned' /\ Progress'
    BY <2>1, Zenon DEF Consistent, LogInv, Pinned, Progress, Read, InLog, Installing
  <2> QED
    BY <2>2, <2>3, <2>4, Zenon DEF Consistent, LogInv
<1>2. ASSUME NEW p \in Procs, BeginOp(p) PROVE Consistent'
  BY <1>2, BeginOpSleepInv, BeginOpEnterInv, Zenon DEF BeginOp
<1>3. ASSUME NEW p \in Procs, NEW b \in Blocks, Bread(p, b) PROVE Consistent'
  BY <1>3, BreadInv, Zenon
<1>4. ASSUME NEW p \in Procs, NEW v \in Vals, LogWrite(p, v) PROVE Consistent'
  BY <1>4, LogWriteInv, SMTT(30)
<1>5. ASSUME NEW p \in Procs, EndOp(p) PROVE Consistent'
  BY <1>5, EndOpLeaveInv, EndOpCommitInv DEF EndOp
<1>6. ASSUME NEW p \in Procs, Commit(p) PROVE Consistent'
  BY <1>6, WriteLogInv, WriteHeadInv, InstallTransInv, ClearHeadInv, EndOpFinishInv, Zenon
     DEF Commit
<1>7. ASSUME NEW b \in Blocks, Evict(b) PROVE Consistent'
  BY <1>7, EvictInv, Zenon
<1>8. CASE Recover
  BY <1>8, RecoverReadHeadInv, RecoverInstallInv, RecoverClearInv, Zenon DEF Recover
<1>9. CASE Crash
  BY <1>9, CrashInv, Zenon
<1> QED
  BY <1>1, <1>2, <1>3, <1>4, <1>5, <1>6, <1>7, <1>8, <1>9, Zenon DEF Next

\* The parts of log.c's state agree in every reachable state.
LEMMA ConsistentHolds == Spec => []Consistent
BY InitInv, NextInv, PTL DEF Spec

\* The variables of log.c keep their types: no count goes below zero.
THEOREM TypeCorrect == Spec => []TypeOK
<1>1. Consistent => TypeOK
  BY Zenon DEF Consistent
<1> QED
  BY <1>1, ConsistentHolds, PTL

\* The parts of log.c's state agree: counts, header, pins and loop indices.
THEOREM LogInvHolds == Spec => []LogInv
<1>1. Consistent => LogInv
  BY Zenon DEF Consistent
<1> QED
  BY <1>1, ConsistentHolds, PTL

------------------------------------------------------------------------------
(* The room that begin_op reserves *)

\* A call can log only what is in the header, so its writes are finitely many.
LEMMA LoggedFinite ==
  ASSUME Consistent, Reserved
  PROVE  /\ IsFiniteSet(Logged)
         /\ \A p \in Active : IsFiniteSet(wrote[p])
<1> DEFINE R == {lh[i] : i \in 1 .. Len(lh)}
<1>1. IsFiniteSet(R)
  <2>1. IsFiniteSet(1 .. Len(lh))
    BY FS_Interval DEF Consistent, TypeOK
  <2>2. [i \in 1 .. Len(lh) |-> lh[i]] \in Surjection(1 .. Len(lh), R)
    BY Zenon DEF Surjection
  <2> QED
    BY <2>1, <2>2, FS_Surjection
<1>2. \A p \in Active : wrote[p] \subseteq R
  BY Zenon DEF Reserved, InLog
<1>3. Logged \subseteq Active \X R
  BY <1>2, Zenon DEF Logged
<1>4. IsFiniteSet(Active \X R)
  BY <1>1, ActiveFinite, FS_Product, Zenon
<1> QED
  BY <1>1, <1>2, <1>3, <1>4, FS_Subset, Zenon

\* If each call has logged at most n blocks, together they have logged at most n each.
LEMMA LoggedBound ==
  ASSUME Consistent, Reserved, NEW n \in Nat,
         \A p \in Active : Cardinality(wrote[p]) <= n
  PROVE  Cardinality(Logged) <= Cardinality(Active) * n
<1>1. \A p \in Active : Injection(wrote[p], 1 .. n) # {}
  <2> SUFFICES ASSUME NEW p \in Active PROVE \E h \in Injection(wrote[p], 1 .. n) : TRUE
    BY Zenon
  <2> DEFINE k == Cardinality(wrote[p])
  <2>1. k \in Nat /\ k <= n /\ ExistsBijection(1 .. k, wrote[p])
    BY LoggedFinite, FS_CardinalityType, Zenon
  <2> HIDE DEF k
  <2>2. PICK e \in [1 .. k -> wrote[p]] : \A b \in wrote[p] : \E i \in 1 .. k : e[i] = b
    BY <2>1, Zenon DEF ExistsBijection, Bijection, Surjection
  <2> DEFINE h == [b \in wrote[p] |-> CHOOSE i \in 1 .. k : e[i] = b]
  <2>3. \A b \in wrote[p] : h[b] \in 1 .. k /\ e[h[b]] = b
    BY <2>2, Zenon
  <2>4. 1 .. k \subseteq 1 .. n
    BY <2>1
  <2>5. h \in [wrote[p] -> 1 .. n] /\ IsInjective(h)
    BY <2>3, <2>4, ZenonT(30) DEF IsInjective
  <2> QED
    BY <2>5, Zenon DEF Injection
<1> DEFINE g(p) == CHOOSE h \in Injection(wrote[p], 1 .. n) : TRUE
           f == [x \in Logged |-> <<x[1], g(x[1])[x[2]]>>]
<1>2. \A p \in Active : g(p) \in [wrote[p] -> 1 .. n] /\ IsInjective(g(p))
  BY <1>1, Zenon DEF Injection
<1> HIDE DEF g
<1>3. \A x \in Logged : x = <<x[1], x[2]>> /\ x[1] \in Active /\ x[2] \in wrote[x[1]]
  BY DEF Logged
<1>4. f \in [Logged -> Active \X (1 .. n)]
  BY <1>2, <1>3, Zenon
<1>5. \A x, y \in Logged : f[x] = f[y] => x = y
  <2> SUFFICES ASSUME NEW x \in Logged, NEW y \in Logged, f[x] = f[y] PROVE x = y
    BY Zenon
  <2>1. x[1] = y[1] /\ g(x[1])[x[2]] = g(x[1])[y[2]]
    BY Zenon
  <2>2. x[2] = y[2]
    BY <1>2, <1>3, <2>1 DEF IsInjective
  <2> QED
    BY <1>3, <2>1, <2>2, Zenon
<1>6. f \in Injection(Logged, Active \X (1 .. n))
  BY <1>4, <1>5, Zenon DEF Injection, IsInjective
<1>7. IsFiniteSet(1 .. n) /\ Cardinality(1 .. n) = n
  BY FS_Interval
<1>8. IsFiniteSet(Active \X (1 .. n)) /\ Cardinality(Active \X (1 .. n)) = Cardinality(Active) * n
  BY <1>7, ActiveFinite, FS_Product, Zenon
<1> QED
  BY <1>6, <1>8, FS_Injection

\* Without open calls there is nothing to reserve for.
LEMMA NoCallsReserved ==
  ASSUME Consistent', Active' = {}
  PROVE  Reserved'
<1>1. Logged' = {}
  BY Zenon DEF Logged
<1>2. outstanding' = 0 /\ Len(lh') \in Nat /\ Len(lh') <= LOGBLOCKS
  BY FS_EmptySet DEF Consistent, LogInv, Counted, Headers, TypeOK
<1>3. outstanding' * MAXOPBLOCKS = 0
  BY <1>2, LogAssumption
<1>4. Cardinality(Logged') = 0
  BY <1>1, FS_EmptySet, Zenon
<1> QED
  BY <1>2, <1>3, <1>4, LogAssumption DEF Reserved

\* A step outside begin_op, log_write and end_op changes no reservation.
LEMMA SameReserved ==
  ASSUME Reserved, UNCHANGED <<lh, outstanding, wrote>>, Active' = Active,
         \A p \in Active : held'[p] = held[p]
  PROVE  Reserved'
<1>1. Logged' = Logged
  BY Zenon DEF Logged
<1> QED
  BY <1>1, Zenon DEF Reserved, InLog

\* begin_op lets a call in only when its whole reservation fits.
LEMMA EnterReserved ==
  ASSUME Consistent, Reserved, NEW p \in Procs, BeginOpEnter(p)
  PROVE  Reserved'
<1> USE DEF Consistent, LogInv
<1>1. /\ wrote' = [wrote EXCEPT ![p] = {}] /\ UNCHANGED <<lh, held>>
      /\ outstanding' = outstanding + 1 /\ Active' = Active \cup {p} /\ p \notin Active
  BY Zenon DEF BeginOpEnter, Active, TypeOK
<1>2. held[p] = None
  BY Zenon DEF BeginOpEnter, Buffers
<1>3. \A q \in Active' : /\ \A b \in wrote'[q] : InLog(b)'
                         /\ Cardinality(wrote'[q] \cup ({held'[q]} \ {None})) <= OpBlocks
  <2> SUFFICES ASSUME NEW q \in Active'
               PROVE  /\ \A b \in wrote'[q] : InLog(b)'
                      /\ Cardinality(wrote'[q] \cup ({held'[q]} \ {None})) <= OpBlocks
    BY Zenon
  <2>1. CASE q = p
    <3>1. wrote'[q] = {} /\ wrote'[q] \cup ({held'[q]} \ {None}) = {}
      BY <1>1, <1>2, <2>1, Zenon DEF TypeOK
    <3> QED
      BY <3>1, FS_EmptySet, LogAssumption
  <2>2. CASE q # p
    BY <1>1, <2>2, Zenon DEF Reserved, InLog, TypeOK, Active
  <2> QED
    BY <2>1, <2>2, Zenon
<1>4. Len(lh) + (outstanding + 1) * MAXOPBLOCKS <= LOGBLOCKS
  <2>1. Len(lh) \in Nat /\ (outstanding + 1) * MAXOPBLOCKS \in Nat
    BY LogAssumption DEF TypeOK
  <2> QED
    BY <2>1, LogAssumption DEF BeginOpEnter, MustWait
<1>5. Logged' = Logged
  BY <1>1, Zenon DEF Logged, TypeOK, Active
<1>6. Cardinality(Logged) \in Nat
  BY LoggedFinite, FS_CardinalityType, Zenon
<1>7. Len(lh') + outstanding' * MAXOPBLOCKS <= LOGBLOCKS + Cardinality(Logged')
  <2> DEFINE r == (outstanding + 1) * MAXOPBLOCKS
  <2>1. r \in Nat /\ Len(lh) \in Nat /\ outstanding' * MAXOPBLOCKS = r
    BY <1>1, LogAssumption DEF TypeOK
  <2> HIDE DEF r
  <2>2. Len(lh) + r <= LOGBLOCKS
    BY <1>4, Zenon DEF r
  <2> QED
    BY <1>1, <1>5, <1>6, <2>1, <2>2, LogAssumption, SMTT(30)
<1> QED
  BY <1>3, <1>7, Zenon DEF Reserved

\* log_write adds a block to the header only for a call that has not logged it yet.
LEMMA LogWriteReserved ==
  ASSUME Consistent, Reserved, NEW p \in Procs, NEW v \in Vals, LogWrite(p, v)
  PROVE  Reserved'
<1> USE DEF Consistent, LogInv
<1>1. PICK b \in Blocks : b = held[p] /\ b # None
  BY LogAssumption, Zenon DEF LogWrite, Buffers, TypeOK
<1>2. /\ wrote' = [wrote EXCEPT ![p] = @ \cup {b}] /\ held' = [held EXCEPT ![p] = None]
      /\ outstanding' = outstanding /\ Active' = Active /\ p \in Active
      /\ lh' = IF InLog(b) THEN lh ELSE Append(lh, b)
  BY <1>1, Zenon DEF LogWrite, Active, TypeOK
<1>3. /\ Len(lh) \in Nat
      /\ Len(lh') = IF InLog(b) THEN Len(lh) ELSE Len(lh) + 1
      /\ InLog(b)' /\ \A c \in Blocks : InLog(c) => InLog(c)'
  <2>0. lh \in Seq(Blocks) /\ Len(lh) \in Nat
    BY DEF TypeOK
  <2>1. CASE InLog(b)
    BY <1>2, <2>0, <2>1, Zenon DEF InLog
  <2>2. CASE ~InLog(b)
    <3>1. lh' = Append(lh, b) /\ Len(lh') = Len(lh) + 1
      BY <1>2, <2>0, <2>2
    <3>2. lh'[Len(lh) + 1] = b /\ \A i \in 1 .. Len(lh) : lh'[i] = lh[i]
      BY <2>0, <3>1
    <3>3. 1 .. Len(lh) \subseteq 1 .. Len(lh') /\ Len(lh) + 1 \in 1 .. Len(lh')
      BY <2>0, <3>1
    <3>4. InLog(b)'
      BY <3>2, <3>3, Zenon DEF InLog
    <3>5. ASSUME NEW c \in Blocks, InLog(c) PROVE InLog(c)'
      BY <3>2, <3>3, <3>5, Zenon DEF InLog
    <3> QED
      BY <2>0, <2>2, <3>1, <3>4, <3>5, Zenon
  <2> QED
    BY <2>1, <2>2, Zenon
<1>4. \A q \in Active : wrote'[q] = (IF q = p THEN wrote[q] \cup {b} ELSE wrote[q])
                     /\ held'[q] = (IF q = p THEN None ELSE held[q])
                     /\ wrote[q] \subseteq Blocks
  BY <1>2, Zenon DEF TypeOK, Active
<1>5. \A q \in Active : wrote'[q] \cup ({held'[q]} \ {None}) = wrote[q] \cup ({held[q]} \ {None})
  BY <1>1, <1>4, Zenon
<1>6. \A q \in Active' : /\ \A c \in wrote'[q] : InLog(c)'
                         /\ Cardinality(wrote'[q] \cup ({held'[q]} \ {None})) <= OpBlocks
  <2>1. \A q \in Active' : \A c \in wrote'[q] : InLog(c)'
    <3>1. \A q \in Active : \A c \in wrote[q] : InLog(c)
      BY Zenon DEF Reserved
    <3>2. \A q \in Active : \A c \in wrote'[q] : c = b \/ c \in wrote[q]
      BY <1>4, Zenon
    <3> QED
      BY <1>2, <1>3, <1>4, <3>1, <3>2, Zenon
  <2>2. \A q \in Active : Cardinality(wrote[q] \cup ({held[q]} \ {None})) <= OpBlocks
    BY Zenon DEF Reserved
  <2>3. \A q \in Active' : Cardinality(wrote'[q] \cup ({held'[q]} \ {None})) <= OpBlocks
    BY <1>2, <1>5, <2>2, Zenon
  <2> QED
    BY <2>1, <2>3, Zenon
<1>7. Logged' = Logged \cup {<<p, b>>}
  <2>1. \A q \in Active, c \in Blocks : c \in wrote'[q] <=> c \in wrote[q] \/ <<q, c>> = <<p, b>>
    BY <1>4, Zenon
  <2>2. \A x \in Active \X Blocks : x = <<x[1], x[2]>> /\ x[1] \in Active /\ x[2] \in Blocks
    OBVIOUS
  <2>3. \A x \in Active \X Blocks : x[2] \in wrote'[x[1]] <=> x[2] \in wrote[x[1]] \/ x = <<p, b>>
    BY <2>1, <2>2, Zenon
  <2>4. <<p, b>> \in Active \X Blocks
    BY <1>2, Zenon
  <2> HIDE DEF Consistent, LogInv
  <2> QED
    BY <1>2, <2>3, <2>4, Zenon DEF Logged
<1>8. ~InLog(b) => <<p, b>> \notin Logged
  BY <1>2, Zenon DEF Logged, Reserved
<1>9. /\ Cardinality(Logged) \in Nat
      /\ Cardinality(Logged') = IF <<p, b>> \in Logged THEN Cardinality(Logged) ELSE Cardinality(Logged) + 1
  BY <1>7, LoggedFinite, FS_CardinalityType, FS_AddElement, Zenon
<1>10. Len(lh') + outstanding' * MAXOPBLOCKS <= LOGBLOCKS + Cardinality(Logged')
  <2> DEFINE r == outstanding * MAXOPBLOCKS
  <2>1. r \in Nat /\ outstanding' * MAXOPBLOCKS = r
    BY <1>2, LogAssumption DEF TypeOK
  <2>2. Len(lh) + r <= LOGBLOCKS + Cardinality(Logged)
    BY Zenon DEF Reserved
  <2> HIDE DEF r
  <2> QED
    BY <1>3, <1>8, <1>9, <2>1, <2>2, LogAssumption, SMTT(30)
<1> QED
  BY <1>6, <1>10, Zenon DEF Reserved

\* end_op gives up a reservation of which no more is used than there was.
LEMMA LeaveReserved ==
  ASSUME Consistent, Reserved, NEW p \in Procs, EndOpLeave(p)
  PROVE  Reserved'
<1> USE DEF Consistent, LogInv
<1>1. /\ UNCHANGED <<lh, wrote, held>> /\ p \in Active /\ Active' = Active \ {p}
      /\ outstanding' = outstanding - 1
  BY Zenon DEF EndOpLeave, Active, WakeLog, TypeOK
<1>2. outstanding \in Nat \ {0}
  BY <1>1, LeaveCount, Zenon
<1> DEFINE D == {x \in Logged : x[1] = p}
<1>3. Logged' = Logged \ D
  BY <1>1, Zenon DEF Logged
<1>4. IsFiniteSet(D) /\ IsFiniteSet(wrote[p]) /\ D \subseteq Logged /\ IsFiniteSet(Logged)
  BY <1>1, LoggedFinite, FS_Subset, Zenon
<1>5. Cardinality(wrote[p]) <= OpBlocks
  <2>1. held[p] = None
    BY Zenon DEF EndOpLeave, Buffers
  <2>2. wrote[p] \cup ({held[p]} \ {None}) = wrote[p]
    BY <2>1, Zenon
  <2> QED
    BY <1>1, <2>2, Zenon DEF Reserved
<1>6. Cardinality(D) <= Cardinality(wrote[p])
  <2> DEFINE f == [x \in D |-> x[2]]
  <2>1. f \in Injection(D, wrote[p])
    BY DEF Injection, IsInjective, Logged
  <2> QED
    BY <1>4, <2>1, FS_Injection, Zenon
<1>7. Cardinality(D) \in Nat /\ Cardinality(wrote[p]) \in Nat /\ Cardinality(Logged) \in Nat
  BY <1>4, FS_CardinalityType, Zenon
<1>8. Cardinality(Logged') = Cardinality(Logged) - Cardinality(D)
  <2>1. Logged \cap D = D
    BY <1>4, Zenon
  <2>2. Cardinality(Logged \ D) = Cardinality(Logged) - Cardinality(Logged \cap D)
    BY <1>4, FS_Difference, Zenon
  <2> QED
    BY <1>3, <2>1, <2>2, Zenon
<1>9. Len(lh') + outstanding' * MAXOPBLOCKS <= LOGBLOCKS + Cardinality(Logged')
  <2> DEFINE r == outstanding' * MAXOPBLOCKS
             d == Cardinality(D)
             n == Cardinality(Logged)
  <2>1. r \in Nat /\ outstanding * MAXOPBLOCKS = r + MAXOPBLOCKS
    BY <1>1, <1>2, LogAssumption
  <2>2. Len(lh) + outstanding * MAXOPBLOCKS <= LOGBLOCKS + n
    BY Zenon DEF Reserved
  <2>3. d \in Nat /\ n \in Nat /\ d <= MAXOPBLOCKS /\ Len(lh') = Len(lh) /\ Len(lh) \in Nat
    BY <1>1, <1>5, <1>6, <1>7, LogAssumption, SMTT(30) DEF TypeOK
  <2>4. Cardinality(Logged') = n - d
    BY <1>8, Zenon
  <2> HIDE DEF r, d, n
  <2>5. Len(lh) + r <= LOGBLOCKS + (n - d)
    BY <2>1, <2>2, <2>3, LogAssumption
  <2> QED
    BY <2>3, <2>4, <2>5, Zenon DEF r
<1> QED
  BY <1>1, <1>9, Zenon DEF Reserved, InLog

\* No step overdraws the room in the log.
LEMMA NextReserved == Consistent /\ Consistent' /\ Reserved /\ [Next]_vars => Reserved'
<1> SUFFICES ASSUME Consistent, Consistent', Reserved, [Next]_vars PROVE Reserved'
  BY Zenon
<1>1. CASE UNCHANGED vars
  <2>1. UNCHANGED <<lh, outstanding, pc, held, wrote>>
    BY <1>1, SMTT(30) DEF vars, mem, proc
  <2>2. Active' = Active
    BY <2>1, Zenon DEF Active
  <2> QED
    BY <2>1, <2>2, SameReserved, Zenon
<1>2. ASSUME NEW p \in Procs, BeginOpSleep(p) PROVE Reserved'
  <2>1. UNCHANGED <<lh, outstanding, held, wrote>>
    BY <1>2, Zenon DEF BeginOpSleep, mem
  <2>2. Active' = Active
    BY <1>2, Zenon DEF BeginOpSleep, Active, Consistent, TypeOK
  <2> QED
    BY <2>1, <2>2, SameReserved, Zenon
<1>3. ASSUME NEW p \in Procs, BeginOpEnter(p) PROVE Reserved'
  BY <1>3, EnterReserved, Zenon
<1>4. ASSUME NEW p \in Procs, NEW b \in Blocks, Bread(p, b) PROVE Reserved'
  <2>1. /\ UNCHANGED <<lh, outstanding, wrote>> /\ Active' = Active
        /\ held' = [held EXCEPT ![p] = b] /\ Cardinality(wrote[p] \cup {b}) <= OpBlocks
    BY <1>4, Zenon DEF Bread, Active, Consistent, TypeOK
  <2>2. Logged' = Logged
    BY <2>1, Zenon DEF Logged
  <2>3. \A q \in Active : Cardinality(wrote[q] \cup ({held'[q]} \ {None})) <= OpBlocks
    <3> SUFFICES ASSUME NEW q \in Active PROVE Cardinality(wrote[q] \cup ({held'[q]} \ {None})) <= OpBlocks
      BY Zenon
    <3>1. CASE q = p
      <4>1. wrote[q] \cup ({held'[q]} \ {None}) = wrote[p] \cup {b}
        BY <2>1, <3>1, LogAssumption DEF Consistent, TypeOK
      <4> QED
        BY <2>1, <4>1, Zenon
    <3>2. CASE q # p
      <4>1. held'[q] = held[q]
        BY <2>1, <3>2, Zenon DEF Active, Consistent, TypeOK
      <4> QED
        BY <4>1, Zenon DEF Reserved
    <3> QED
      BY <3>1, <3>2, Zenon
  <2> QED
    BY <2>1, <2>2, <2>3, Zenon DEF Reserved, InLog
<1>5. ASSUME NEW p \in Procs, NEW v \in Vals, LogWrite(p, v) PROVE Reserved'
  BY <1>5, LogWriteReserved, Zenon
<1>6. ASSUME NEW p \in Procs, EndOpLeave(p) PROVE Reserved'
  BY <1>6, LeaveReserved
<1>7. ASSUME NEW p \in Procs, EndOpCommit(p) PROVE Reserved'
  <2>1. outstanding' = 0
    BY <1>7, Zenon DEF EndOpCommit
  <2>2. IsFiniteSet(Active') /\ Cardinality(Active') = 0
    <3>1. Active' \subseteq Procs
      BY Zenon DEF Active
    <3> QED
      BY <2>1, <3>1, LogAssumption, FS_Subset, Zenon DEF Consistent, LogInv, Counted
  <2>3. Active' = {}
    BY <2>2, FS_EmptySet, Zenon
  <2> QED
    BY <2>3, NoCallsReserved, Zenon
<1>8. ASSUME NEW p \in Procs, Commit(p) PROVE Reserved'
  <2>1. committing = 1
    BY <1>8, SMTT(30)
    DEF Commit, WriteLog, WriteHead, InstallTrans, ClearHead, EndOpFinish, Consistent, LogInv, Calls
  <2>2. \A q \in Procs : pc[q] \notin InOp
    BY <2>1, ZenonT(30) DEF Consistent, LogInv, Calls
  <2>3. \A q \in Procs : pc'[q] \notin InOp
    BY <1>8, <2>2, SMTT(30)
    DEF Commit, WriteLog, WriteHead, InstallTrans, ClearHead, EndOpFinish, WakeLog, proc, Consistent, TypeOK
  <2> QED
    BY <2>3, NoCallsReserved, Zenon DEF Active
<1>9. ASSUME NEW b \in Blocks, Evict(b) PROVE Reserved'
  <2>1. UNCHANGED <<lh, outstanding, pc, held, wrote>>
    BY <1>9, Zenon DEF Evict, proc
  <2>2. Active' = Active
    BY <2>1, Zenon DEF Active
  <2> QED
    BY <2>1, <2>2, SameReserved, Zenon
<1>10. CASE Recover \/ Crash
  <2>1. \A q \in Procs : pc'[q] = "idle"
    BY <1>10, SMTT(30)
    DEF Recover, RecoverReadHead, RecoverInstall, RecoverClear, Crash, proc, Consistent, LogInv, Calls
  <2> QED
    BY <2>1, NoCallsReserved, Zenon DEF Active
<1> QED
  BY <1>1, <1>2, <1>3, <1>4, <1>5, <1>6, <1>7, <1>8, <1>9, <1>10, ZenonT(30)
     DEF Next, BeginOp, EndOp

\* The inductive invariant of log.c holds in every reachable state: the parts of its
\* state agree, and the open calls have room in the log.
THEOREM LogInvariant == Spec => []Inv
<1>1. Init => Reserved
  <2> SUFFICES ASSUME Init PROVE Reserved
    OBVIOUS
  <2>1. Active = {} /\ Logged = {}
    BY Zenon DEF Init, Active, Logged
  <2>2. Len(lh) = 0 /\ outstanding * MAXOPBLOCKS = 0
    BY LogAssumption DEF Init
  <2>3. Cardinality(Logged) = 0
    BY <2>1, FS_EmptySet, Zenon
  <2> QED
    BY <2>1, <2>2, <2>3, LogAssumption DEF Reserved
<1>2. Consistent /\ Reserved <=> Inv
  BY Zenon DEF Inv
<1> QED
  BY <1>1, <1>2, ConsistentHolds, NextReserved, PTL DEF Spec

\* log.c does not panic, however many calls run at once, if every call writes fewer
\* blocks than begin_op reserves for it.  (log_write looks for room before it looks for
\* the block in the header: a call that has used all of its reservation must not write
\* again, not even a block it has logged.)
THEOREM NoLogPanic == OpBlocks < MAXOPBLOCKS => (Spec => []NoPanic)
<1> SUFFICES ASSUME OpBlocks < MAXOPBLOCKS PROVE Spec => []NoPanic
  BY Zenon
<1>1. Inv => NoPanic
  <2> SUFFICES ASSUME Inv PROVE NoPanic
    BY Zenon
  <2> USE DEF Inv, Consistent, LogInv
  <2>1. \A p \in Procs : pc[p] \in InOp => committing = 0
    BY Zenon DEF Calls, TypeOK
  <2>2. ASSUME NEW p \in Procs, pc[p] = "locked" PROVE ~LogWritePanics
    <3>1. p \in Active /\ outstanding = Cardinality(Active) /\ outstanding \in Nat /\ outstanding # 0
      BY <2>2, ActiveFinite, FS_EmptySet, Zenon DEF Active, Counted, TypeOK
    <3>2. \A q \in Active : Cardinality(wrote[q]) <= OpBlocks
      <4> SUFFICES ASSUME NEW q \in Active PROVE Cardinality(wrote[q]) <= OpBlocks
        BY Zenon
      <4> DEFINE T == wrote[q] \cup ({held[q]} \ {None})
      <4>1. IsFiniteSet(wrote[q])
        BY LoggedFinite, Zenon
      <4>2. IsFiniteSet(T)
        <5>1. IsFiniteSet({held[q]})
          BY FS_Singleton, Zenon
        <5>2. IsFiniteSet({held[q]} \ {None})
          BY <5>1, FS_Difference, Zenon
        <5> QED
          BY <4>1, <5>2, FS_Union, Zenon
      <4>3. Cardinality(wrote[q]) <= Cardinality(T) /\ Cardinality(wrote[q]) \in Nat /\ Cardinality(T) \in Nat
        BY <4>1, <4>2, FS_Subset, FS_CardinalityType, Zenon
      <4>4. Cardinality(T) <= OpBlocks
        BY Zenon DEF Reserved
      <4> HIDE DEF T
      <4> QED
        BY <4>3, <4>4, LogAssumption
    <3>3. Cardinality(Logged) <= outstanding * OpBlocks
      BY <3>1, <3>2, LoggedBound, LogAssumption, Zenon
    <3>4. Cardinality(Logged) \in Nat
      BY LoggedFinite, FS_CardinalityType, Zenon
    <3>5. Len(lh) + outstanding * MAXOPBLOCKS <= LOGBLOCKS + Cardinality(Logged)
      BY Zenon DEF Reserved
    <3>6. PICK k \in Nat \ {0} : MAXOPBLOCKS = OpBlocks + k
      <4>1. MAXOPBLOCKS - OpBlocks \in Nat \ {0} /\ MAXOPBLOCKS = OpBlocks + (MAXOPBLOCKS - OpBlocks)
        BY LogAssumption
      <4> QED
        BY <4>1, Zenon
    <3>7. /\ outstanding * MAXOPBLOCKS = outstanding * OpBlocks + outstanding * k
          /\ outstanding * OpBlocks \in Nat /\ outstanding * k \in Nat
      BY <3>1, <3>6, LogAssumption
    <3>8. outstanding * k > 0
      BY <3>1, <3>6
    <3>9. Len(lh) < LOGBLOCKS
      <4> DEFINE a == outstanding * OpBlocks
                 c == outstanding * k
                 n == Cardinality(Logged)
      <4>1. Len(lh) \in Nat
        BY DEF TypeOK
      <4>2. a \in Nat /\ c \in Nat /\ n \in Nat /\ c > 0 /\ n <= a
        BY <3>3, <3>4, <3>7, <3>8, Zenon
      <4>3. Len(lh) + (a + c) <= LOGBLOCKS + n
        BY <3>5, <3>7, Zenon
      <4> HIDE DEF a, c, n
      <4> QED
        BY <4>1, <4>2, <4>3, LogAssumption
    <3> QED
      BY <3>1, <3>9, LogAssumption, SMTT(30) DEF LogWritePanics, TypeOK
  <2> QED
    BY <2>1, <2>2, Zenon DEF NoPanic
<1> QED
  BY <1>1, LogInvariant, PTL

\* Reserving room for one more call is never easier with more calls open.
LEMMA ReservationGrows ==
  ASSUME NEW m \in Nat, NEW n \in Nat, NEW a \in Nat, NEW b \in Nat,
         m <= n, a <= b
  PROVE  m + (a + 1) * MAXOPBLOCKS <= n + (b + 1) * MAXOPBLOCKS
<1>1. PICK d \in Nat : b = a + d
  <2>1. b - a \in Nat /\ b = a + (b - a)
    OBVIOUS
  <2> QED
    BY <2>1, Zenon
<1>2. d * MAXOPBLOCKS \in Nat /\ (a + 1) * MAXOPBLOCKS \in Nat
  BY LogAssumption
<1>3. (b + 1) * MAXOPBLOCKS = (a + 1) * MAXOPBLOCKS + d * MAXOPBLOCKS
  BY <1>1, LogAssumption
<1> QED
  BY <1>2, <1>3

\* No step puts a sleeper's reason to sleep out of date without waking it.
LEMMA NextNoLostWakeup == Consistent /\ NoLostWakeup /\ [Next]_vars => NoLostWakeup'
<1> SUFFICES ASSUME Consistent, NoLostWakeup, [Next]_vars PROVE NoLostWakeup'
  BY Zenon
<1> USE DEF Consistent, LogInv, NoLostWakeup
<1>0. Len(lh) \in Nat /\ outstanding \in Nat
  BY DEF TypeOK
<1>1. ASSUME MustWait => MustWait',
             \A q \in Procs : pc'[q] = "sleep" => pc[q] = "sleep" \/ MustWait
      PROVE  NoLostWakeup'
  BY <1>1, Zenon
<1>2. CASE UNCHANGED vars
  BY <1>1, <1>2, SMTT(30) DEF vars, mem, proc, MustWait
<1>3. ASSUME NEW p \in Procs, BeginOpSleep(p) PROVE NoLostWakeup'
  BY <1>1, <1>3, Zenon DEF BeginOpSleep, mem, MustWait, TypeOK
<1>4. ASSUME NEW p \in Procs, BeginOpEnter(p) PROVE NoLostWakeup'
  <2>1. outstanding' = outstanding + 1 /\ lh' = lh /\ ~MustWait
    BY <1>4, Zenon DEF BeginOpEnter
  <2>2. \A q \in Procs : pc[q] # "sleep"
    BY <2>1, SMTT(30)
  <2> QED
    BY <1>4, <2>2, Zenon DEF BeginOpEnter, TypeOK
<1>5. ASSUME NEW p \in Procs, NEW b \in Blocks, Bread(p, b) PROVE NoLostWakeup'
  BY <1>1, <1>5, SMTT(30) DEF Bread, MustWait, TypeOK
<1>6. ASSUME NEW p \in Procs, NEW v \in Vals, LogWrite(p, v) PROVE NoLostWakeup'
  <2>1. /\ committing' = committing /\ outstanding' = outstanding
        /\ Len(lh') \in Nat /\ Len(lh) <= Len(lh')
    <3>1. PICK b \in Blocks : b = held[p]
      BY <1>6, Zenon DEF LogWrite, Buffers, TypeOK
    <3>2. lh' = lh \/ lh' = Append(lh, b)
      BY <1>6, <3>1, Zenon DEF LogWrite
    <3> QED
      BY <1>6, <3>2, SMTT(30) DEF LogWrite, TypeOK
  <2>2. MustWait => MustWait'
    <3>1. Len(lh) + (outstanding + 1) * MAXOPBLOCKS
            <= Len(lh') + (outstanding + 1) * MAXOPBLOCKS
      BY <1>0, <2>1, ReservationGrows
    <3> DEFINE r == (outstanding + 1) * MAXOPBLOCKS
    <3>2. r \in Nat
      BY <1>0, LogAssumption
    <3> HIDE DEF r
    <3>3. Len(lh) + r > LOGBLOCKS => Len(lh') + r > LOGBLOCKS
      BY <1>0, <2>1, <3>2, LogAssumption
    <3> QED
      BY <2>1, <3>3, Zenon DEF MustWait, r
  <2> QED
    BY <1>1, <1>6, <2>2, SMTT(30) DEF LogWrite, TypeOK
<1>7. ASSUME NEW p \in Procs, EndOpLeave(p) \/ EndOpFinish(p) PROVE NoLostWakeup'
  BY <1>7, Zenon DEF EndOpLeave, EndOpFinish, WakeLog, TypeOK
<1>8. ASSUME NEW p \in Procs, EndOpCommit(p) PROVE NoLostWakeup'
  BY <1>8, SMTT(30) DEF EndOpCommit, MustWait, TypeOK
<1>9. ASSUME NEW p \in Procs, WriteLog(p) \/ WriteHead(p) \/ InstallTrans(p)
      PROVE  NoLostWakeup'
  BY <1>1, <1>9, Zenon DEF WriteLog, WriteHead, InstallTrans, mem, proc, MustWait, TypeOK
<1>10. ASSUME NEW p \in Procs, ClearHead(p) PROVE NoLostWakeup'
  <2>1. committing = 1
    BY <1>10, SMTT(30) DEF ClearHead, Calls
  <2> QED
    BY <1>10, <2>1, Zenon DEF ClearHead, MustWait, TypeOK
<1>11. ASSUME NEW b \in Blocks, Evict(b) PROVE NoLostWakeup'
  BY <1>1, <1>11, SMTT(30) DEF Evict, proc, MustWait
<1>12. CASE Recover
  BY <1>12, Zenon DEF Recover, RecoverReadHead, RecoverInstall, RecoverClear, proc, Calls
<1>13. CASE Crash
  BY <1>13, Zenon DEF Crash
<1> QED
  BY <1>2, <1>3, <1>4, <1>5, <1>6, <1>7, <1>8, <1>9, <1>10, <1>11, <1>12, <1>13, ZenonT(30)
     DEF Next, BeginOp, EndOp, Commit

\* A process sleeps in begin_op only while it really has to wait: no commit and
\* no end of a call makes room without waking it.
THEOREM NoLostWakeups == Spec => []NoLostWakeup
<1>1. Init => NoLostWakeup
  BY Zenon DEF Init, NoLostWakeup
<1> QED
  BY <1>1, ConsistentHolds, NextNoLostWakeup, PTL DEF Spec

\* Home blocks are written from a committed log only.
THEOREM WriteAheadHolds == Spec => WriteAhead
<1> DEFINE W == \A b \in Blocks : home'[b] # home[b] =>
                  \E i \in 1 .. Len(hdr) : hdr[i] = b /\ home'[b] = logd[i]
<1>1. Consistent /\ [Next]_vars => [W]_vars
  <2> SUFFICES ASSUME Consistent, Next PROVE W
    BY Zenon
  <2> USE DEF Consistent, LogInv
  <2>1. CASE home' = home
    BY <2>1, SMTT(30)
  <2>2. CASE boot = "install" /\ RecoverInstall
    BY <2>2, TailType, SMTT(30) DEF RecoverInstall, Headers, TypeOK
  <2>3. ASSUME NEW p \in Procs, InstallTrans(p) PROVE W
    BY <2>3, TailType, Zenon DEF InstallTrans, Headers, Installing, Running, TypeOK
  <2> QED
    BY <2>1, <2>2, <2>3, ZenonT(30)
       DEF Next, BeginOp, EndOp, Commit, Recover, BeginOpSleep, BeginOpEnter, Bread,
           LogWrite, EndOpLeave, EndOpCommit, WriteLog, WriteHead, ClearHead,
           EndOpFinish, Evict, RecoverReadHead, RecoverInstall, RecoverClear, Crash,
           disk
<1> QED
  BY <1>1, ConsistentHolds, PTL DEF Spec, WriteAhead

------------------------------------------------------------------------------
(* log.c implements AtomicDisk *)

\* A header without duplicates gives a block the content the log has for it.
LEMMA OverlayAt ==
  ASSUME NEW h \in Seq(Blocks), NEW l, NEW hm, NoDuplicates(h)
  PROVE  /\ \A i \in 1 .. Len(h) : Overlay(h, l, hm)[h[i]] = l[i]
         /\ \A b \in Blocks : (\A i \in 1 .. Len(h) : h[i] # b)
                                 => Overlay(h, l, hm)[b] = hm[b]
<1>1. ASSUME NEW i \in 1 .. Len(h) PROVE Overlay(h, l, hm)[h[i]] = l[i]
  <2>1. h[i] \in Blocks
    OBVIOUS
  <2>2. (CHOOSE j \in 1 .. Len(h) : h[j] = h[i]) = i
    BY Zenon DEF NoDuplicates
  <2> QED
    BY <2>1, <2>2, Zenon DEF Overlay
<1>2. ASSUME NEW b \in Blocks, \A i \in 1 .. Len(h) : h[i] # b
      PROVE  Overlay(h, l, hm)[b] = hm[b]
  BY <1>2, Zenon DEF Overlay
<1> QED
  BY <1>1, <1>2, Zenon

\* Home blocks that already agree with the log are what recovery would bring back.
LEMMA InstalledCommitted ==
  ASSUME TypeOK, NoDuplicates(hdr), \A i \in 1 .. Len(hdr) : home[hdr[i]] = logd[i]
  PROVE  Committed = home
<1>1. ASSUME NEW b \in Blocks PROVE Overlay(hdr, logd, home)[b] = home[b]
  <2>1. hdr \in Seq(Blocks)
    BY SMTT(30) DEF TypeOK
  <2>2. CASE \A i \in 1 .. Len(hdr) : hdr[i] # b
    BY <2>1, <2>2, OverlayAt, SMTT(30)
  <2>3. CASE \E i \in 1 .. Len(hdr) : hdr[i] = b
    BY <2>1, <2>3, OverlayAt, SMTT(30)
  <2> QED
    BY <2>2, <2>3, Zenon
<1>2. Overlay(hdr, logd, home) = [b \in Blocks |-> Overlay(hdr, logd, home)[b]]
  BY Zenon DEF Overlay
<1>3. home = [b \in Blocks |-> home[b]]
  BY Zenon DEF TypeOK
<1> QED
  BY <1>1, <1>2, <1>3, Zenon DEF Committed

\* With an empty header the disk is what recovery would bring back.
LEMMA OverlayEmpty ==
  ASSUME NEW l, NEW hm \in [Blocks -> Vals]
  PROVE  Overlay(<<>>, l, hm) = hm
BY DEF Overlay

\* A fresh disk is an initial state of the abstract disk.
LEMMA RefineInit == Init => AD!Init
<1> SUFFICES ASSUME Init PROVE AD!Init
  OBVIOUS
<1>1. Committed = home
  BY OverlayEmpty, Zenon DEF Init, Committed
<1>2. View = Committed
  BY <1>1, Zenon DEF Init, View
<1> QED
  BY <1>1, <1>2, Zenon DEF AD!Init, Init, Active

\* A view taken from equal reads is equal.
LEMMA SameView ==
  ASSUME boot = "up", boot' = "up", \A c \in Blocks : Read(c)' = Read(c)
  PROVE  View' = View
BY Zenon DEF View

\* The steps the abstract disk does not see.
LEMMA RefineStutter ==
  ASSUME Committed' = Committed, View' = View, Active' = Active
  PROVE  [AD!Next]_AD!avars
BY Zenon DEF AD!avars

\* The steps before the commit point: begin_op, log_write and end_op are
\* Begin, Write and End; reading and recycling buffers is invisible.
LEMMA RefineCall ==
  ASSUME Consistent, NEW p \in Procs,
         \/ BeginOp(p) \/ EndOp(p)
         \/ \E b \in Blocks : Bread(p, b)
         \/ \E v \in Vals : LogWrite(p, v)
  PROVE  [AD!Next]_AD!avars
<1> USE DEF Consistent, LogInv, Running
<1>1. boot = "up" /\ boot' = "up" /\ UNCHANGED <<home, logd, hdr>>
  BY Zenon DEF BeginOp, EndOp, Bread, LogWrite, BeginOpSleep, BeginOpEnter, EndOpLeave,
         EndOpCommit, disk
<1>2. Committed' = Committed
  BY <1>1, Zenon DEF Committed
<1>3. CASE BeginOpSleep(p)
  <2>1. Active' = Active /\ cache' = cache
    BY <1>3, SMTT(30) DEF BeginOpSleep, Active, TypeOK, mem
  <2>2. View' = View
    BY <1>1, <2>1, SameView, Zenon DEF Read
  <2> QED
    BY <1>2, <2>1, <2>2, RefineStutter, SMTT(30)
<1>4. CASE BeginOpEnter(p)
  <2>1. p \notin Active /\ Active' = Active \cup {p} /\ cache' = cache
    BY <1>4, SMTT(30) DEF BeginOpEnter, Active, TypeOK
  <2>2. View' = View
    BY <1>1, <2>1, SameView, Zenon DEF Read
  <2> QED
    BY <1>2, <2>1, <2>2, SMTT(30) DEF AD!Next, AD!Begin
<1>5. ASSUME NEW b \in Blocks, Bread(p, b) PROVE [AD!Next]_AD!avars
  <2>1. Active' = Active
    BY <1>5, SMTT(30) DEF Bread, Active, TypeOK
  <2>2. \A c \in Blocks : Read(c)' = Read(c)
    <3>1. Read(b) \in Vals /\ Read(b) # None
      BY ReadType, LogAssumption, Zenon
    <3> QED
      BY <1>5, <1>1, <3>1, Zenon DEF Bread, Read, TypeOK
  <2> QED
    BY <1>1, <1>2, <2>1, <2>2, SameView, RefineStutter, SMTT(30)
<1>6. ASSUME NEW v \in Vals, LogWrite(p, v) PROVE [AD!Next]_AD!avars
  <2>1. PICK b \in Blocks : b = held[p]
    BY <1>6, SMTT(30) DEF LogWrite, Buffers, TypeOK
  <2>2. p \in Active /\ Active' = Active
    BY <1>6, Zenon DEF LogWrite, Active, TypeOK
  <2>3. cache' = [cache EXCEPT ![b] = v] /\ v # None
    BY <1>6, <2>1, LogAssumption, ZenonT(30) DEF LogWrite
  <2>4. Read(b)' = v /\ \A c \in Blocks : c # b => Read(c)' = Read(c)
    BY <1>1, <2>3, Zenon DEF Read, TypeOK
  <2>5. View' = [View EXCEPT ![b] = v]
    BY <1>1, <2>4, Zenon DEF View
  <2> QED
    BY <1>2, <2>2, <2>5, ZenonT(30) DEF AD!Next, AD!Write
<1>7. CASE EndOp(p)
  <2>1. p \in Active /\ Active' = Active \ {p} /\ cache' = cache
    BY <1>7, SMTT(30) DEF EndOp, EndOpLeave, EndOpCommit, WakeLog, Active, TypeOK
  <2>2. View' = View
    BY <1>1, <2>1, SameView, Zenon DEF Read
  <2> QED
    BY <1>2, <2>1, <2>2, SMTT(30) DEF AD!Next, AD!End
<1> QED
  BY <1>3, <1>4, <1>5, <1>6, <1>7, Zenon DEF BeginOp

\* Recycling a buffer is invisible.
LEMMA RefineEvict ==
  ASSUME Consistent, NEW b \in Blocks, Evict(b)
  PROVE  [AD!Next]_AD!avars
<1>1. Active' = Active /\ Committed' = Committed
  BY Zenon DEF Evict, Active, Committed, disk, proc
<1>2. View' = View
  BY EvictReads, SameView, Zenon DEF Evict, Running
<1> QED
  BY <1>1, <1>2, RefineStutter, SMTT(30)

\* Of the commit's steps, writing the header is Commit; the others are
\* invisible.
LEMMA RefineCommit ==
  ASSUME Consistent, NEW p \in Procs, Commit(p)
  PROVE  [AD!Next]_AD!avars
<1> USE DEF Consistent, LogInv, Running
<1>1. boot = "up" /\ boot' = "up"
  BY Zenon DEF Commit, WriteLog, WriteHead, InstallTrans, ClearHead, EndOpFinish
<1>2. Active' = Active
  BY Zenon DEF Commit, WriteLog, WriteHead, InstallTrans, ClearHead, EndOpFinish, Active,
         WakeLog, TypeOK, proc
<1>3. CASE WriteLog(p)
  <2>1. hdr = <<>> /\ hdr' = <<>> /\ home' = home
    BY <1>1, <1>3, SMTT(30) DEF WriteLog, Headers, Installing, Calls
  <2>2. Committed' = Committed
    BY <2>1, OverlayEmpty, SMTT(30) DEF Committed, TypeOK
  <2> QED
    BY <1>1, <1>2, <1>3, <2>2, WriteLogReads, SameView, RefineStutter, SMTT(30)
<1>4. CASE WriteHead(p)
  <2>1. /\ hdr' = lh /\ UNCHANGED <<home, logd, cache>> /\ ~Installing
        /\ tail = Len(lh) /\ Active = {}
    BY <1>4, Zenon DEF WriteHead, mem, Calls, Installing, Active
  <2>2. View' = View /\ View \in [Blocks -> Vals] /\ \A b \in Blocks : View[b] = Read(b)
    BY <1>1, <2>1, SameView, ReadType, ZenonT(30) DEF Read, View
  <2>3. /\ \A i \in 1 .. Len(lh) : lh[i] \in Blocks /\ logd[i] = Read(lh[i])
        /\ \A b \in Blocks : ~InLog(b) => Read(b) = home[b]
    BY <1>1, <1>4, <2>1, SMTT(30) DEF WriteHead, Progress, Pinned, TypeOK
  <2>4. Overlay(lh, logd, home) = View
    <3>1. lh \in Seq(Blocks) /\ NoDuplicates(lh)
      BY Zenon DEF Headers, TypeOK
    <3>2. \A i \in 1 .. Len(lh) : View[lh[i]] = logd[i]
      BY <2>2, <2>3, SMTT(30)
    <3>3. \A b \in Blocks : (\A i \in 1 .. Len(lh) : lh[i] # b) => View[b] = home[b]
      BY <2>2, <2>3, Zenon DEF InLog
    <3>4. View \in [Blocks -> Vals]
      BY <2>2, SMTT(30)
    <3> HIDE DEF Consistent, LogInv, Running
    <3>5. /\ \A i \in 1 .. Len(lh) : Overlay(lh, logd, home)[lh[i]] = logd[i]
          /\ \A b \in Blocks : (\A i \in 1 .. Len(lh) : lh[i] # b)
                                  => Overlay(lh, logd, home)[b] = home[b]
      BY <3>1, OverlayAt, SMTT(30)
    <3>6. ASSUME NEW b \in Blocks PROVE Overlay(lh, logd, home)[b] = View[b]
      <4>1. CASE \A i \in 1 .. Len(lh) : lh[i] # b
        BY <3>3, <3>5, <4>1, SMTT(30)
      <4>2. CASE \E i \in 1 .. Len(lh) : lh[i] = b
        BY <3>2, <3>5, <4>2, SMTT(30)
      <4> QED
        BY <4>1, <4>2, SMTT(30)
    <3>7. Overlay(lh, logd, home) = [b \in Blocks |-> Overlay(lh, logd, home)[b]]
      BY Zenon DEF Overlay
    <3> QED
      BY <3>4, <3>6, <3>7, SMTT(30)
  <2>5. Committed' = View
    BY <2>1, <2>4, Zenon DEF Committed
  <2> QED
    BY <1>2, <2>1, <2>2, <2>5, SMTT(30) DEF AD!Next, AD!Commit
<1>5. CASE InstallTrans(p)
  <2>1. /\ tail + 1 \in 1 .. Len(hdr) /\ hdr' = hdr /\ logd' = logd
        /\ home' = [home EXCEPT ![hdr[tail + 1]] = logd[tail + 1]]
    BY <1>1, <1>5, TailType, ZenonT(30) DEF InstallTrans, Headers, Installing
  <2>2. \A b \in Blocks : (\A i \in 1 .. Len(hdr) : hdr[i] # b) => home'[b] = home[b]
    BY <2>1, Zenon DEF TypeOK
  <2>3. Committed' = Committed
    BY <2>1, <2>2, Zenon DEF Committed, Overlay
  <2> QED
    BY <1>1, <1>2, <1>5, <2>3, InstallTransReads, SameView, RefineStutter, Zenon
<1>6. CASE ClearHead(p)
  <2>0. TypeOK
    BY Zenon
  <2>1. hdr = lh /\ hdr' = <<>> /\ tail = Len(lh) /\ UNCHANGED <<home, logd, cache>>
    BY <1>1, <1>6, SMTT(30) DEF ClearHead, Headers, Installing
  <2>2. \A i \in 1 .. Len(hdr) : home[hdr[i]] = logd[i]
    BY <1>6, <2>1, ZenonT(30) DEF ClearHead, Progress
  <2>3. Committed = home
    <3>1. NoDuplicates(hdr)
      BY <2>1, Zenon DEF Headers
    <3> HIDE DEF Consistent, LogInv
    <3> QED
      BY <2>0, <2>2, <3>1, InstalledCommitted, Zenon
  <2>4. Committed' = home
    BY <2>1, OverlayEmpty, Zenon DEF Committed, TypeOK
  <2>5. View' = View
    BY <1>1, <2>1, SameView, Zenon DEF Read
  <2> QED
    BY <1>2, <2>3, <2>4, <2>5, RefineStutter, Zenon
<1>7. CASE EndOpFinish(p)
  <2>1. UNCHANGED <<home, logd, hdr, cache>>
    BY <1>7, SMTT(30) DEF EndOpFinish, disk
  <2>2. Committed' = Committed /\ View' = View
    BY <1>1, <2>1, SameView, Zenon DEF Committed, Read
  <2> QED
    BY <1>2, <2>2, RefineStutter, Zenon
<1> QED
  BY <1>3, <1>4, <1>5, <1>6, <1>7, Zenon DEF Commit

\* Recovery is invisible, however often crashes repeat it.
LEMMA RefineRecover ==
  ASSUME Consistent, Recover
  PROVE  [AD!Next]_AD!avars
<1> USE DEF Consistent, LogInv
<1>1. boot # "up" /\ Active' = Active
  BY Zenon DEF Recover, RecoverReadHead, RecoverInstall, RecoverClear, Active, proc
<1>2. View = Committed
  BY <1>1, Zenon DEF View, Committed, Overlay
<1>3. CASE RecoverReadHead
  <2>1. Committed' = Committed /\ boot' # "up"
    BY <1>3, Zenon DEF RecoverReadHead, Committed, disk
  <2>2. View' = Committed'
    BY <2>1, Zenon DEF View, Committed, Overlay
  <2> QED
    BY <1>1, <1>2, <2>1, <2>2, RefineStutter, Zenon
<1>4. CASE RecoverInstall
  <2>1. /\ tail + 1 \in 1 .. Len(hdr) /\ hdr' = hdr /\ logd' = logd /\ boot' # "up"
        /\ home' = [home EXCEPT ![hdr[tail + 1]] = logd[tail + 1]]
    BY <1>4, TailType, Zenon DEF RecoverInstall, Headers
  <2>2. \A b \in Blocks : (\A i \in 1 .. Len(hdr) : hdr[i] # b) => home'[b] = home[b]
    BY <2>1, Zenon DEF TypeOK
  <2>3. Committed' = Committed
    BY <2>1, <2>2, Zenon DEF Committed, Overlay
  <2>4. View' = Committed'
    BY <2>1, Zenon DEF View, Committed, Overlay
  <2> QED
    BY <1>1, <1>2, <2>3, <2>4, RefineStutter, Zenon
<1>5. CASE RecoverClear
  <2>0. TypeOK
    BY Zenon
  <2>1. /\ hdr = lh /\ hdr' = <<>> /\ tail = Len(lh) /\ boot' = "up"
        /\ UNCHANGED <<home, logd, cache>>
    BY <1>5, SMTT(30) DEF RecoverClear, Headers
  <2>2. \A i \in 1 .. Len(hdr) : home[hdr[i]] = logd[i]
    BY <1>5, <2>1, Zenon DEF RecoverClear, Progress
  <2>3. Committed = home
    <3>1. NoDuplicates(hdr)
      BY <2>1, Zenon DEF Headers
    <3> HIDE DEF Consistent, LogInv
    <3> QED
      BY <2>0, <2>2, <3>1, InstalledCommitted, Zenon
  <2>4. Committed' = home
    BY <2>1, OverlayEmpty, ZenonT(30) DEF Committed, TypeOK
  <2>5. \A b \in Blocks : Read(b)' = home[b]
    BY <1>5, <2>1, Zenon DEF RecoverClear, Pinned, Read
  <2>6. View' = home
    BY <2>1, <2>5, Zenon DEF View, TypeOK
  <2> QED
    BY <1>1, <1>2, <2>3, <2>4, <2>6, RefineStutter, SMTT(30)
<1> QED
  BY <1>3, <1>4, <1>5, Zenon DEF Recover

\* Every step of log.c is a step of the abstract disk or a stuttering step.
LEMMA RefineNext == Consistent /\ [Next]_vars => [AD!Next]_AD!avars
<1> SUFFICES ASSUME Consistent, [Next]_vars PROVE [AD!Next]_AD!avars
  BY SMTT(30)
<1>1. CASE UNCHANGED vars
  BY <1>1, RefineStutter, Zenon
     DEF vars, disk, mem, proc, Committed, View, Read, Active
<1>2. CASE Crash
  <2>1. Committed' = Committed /\ Active' = {} /\ boot' # "up"
    BY <1>2, SMTT(30) DEF Crash, Committed, Active, disk
  <2>2. View' = Committed'
    BY <2>1, Zenon DEF View, Committed, Overlay
  <2> QED
    BY <2>1, <2>2, Zenon DEF AD!Next, AD!Crash
<1> QED
  BY <1>1, <1>2, RefineCall, RefineEvict, RefineCommit, RefineRecover, Zenon DEF Next

\* Commits are atomic: whatever crashes happen, during a commit and during
\* recovery too, log.c implements the atomic disk its header comment promises.
THEOREM Refinement == Spec => ImplementsAtomicDisk
BY RefineInit, RefineNext, ConsistentHolds, PTL DEF Spec, ImplementsAtomicDisk, AD!Spec
===============================================================================
