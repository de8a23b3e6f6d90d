----------------------------- MODULE PipeProofs -----------------------------
(***************************************************************************)
(* PipeInv holds for every number of readers and writers, every size of    *)
(* the pipe and every word length that is a multiple of it.  The first     *)
(* part is arithmetic: what counters that wrap around still tell apart.    *)
(***************************************************************************)
EXTENDS Pipe, TLAPS

------------------------------------------------------------------------------
(* Division with remainder *)

\* Quotient and remainder exist ...
LEMMA Divided ==
    ASSUME NEW a \in Int, NEW w \in Nat \ {0}
    PROVE  \E q \in Int, r \in 0 .. w - 1 : a = w * q + r /\ r = a % w
<1>1. a % w \in 0 .. w - 1 /\ a \div w \in Int /\ a = w * (a \div w) + (a % w)
  BY SMT
<1> WITNESS a \div w \in Int, a % w \in 0 .. w - 1
<1> QED
  BY <1>1, Zenon

\* ... a multiple of w closer to 0 than w is 0 ...
LEMMA Scaled ==
    ASSUME NEW w \in Nat \ {0}, NEW q \in Int, w * q < w, -w < w * q
    PROVE  q = 0
<1>1. CASE q >= 1
  <2>1. w * q >= w
    BY <1>1, SMT
  <2> QED
    BY <2>1
<1>2. CASE q <= -1
  <2>1. w * q <= -w
    BY <1>2, SMT
  <2> QED
    BY <2>1
<1> QED
  BY <1>1, <1>2

LEMMA Distribute ==
    ASSUME NEW w \in Int, NEW q \in Int, NEW e \in Int
    PROVE  w * (q - e) = w * q - w * e /\ w * q \in Int /\ w * e \in Int
BY SMT

\* ... so the remainder is unique.
LEMMA RemainderUnique ==
    ASSUME NEW w \in Nat \ {0}, NEW q \in Int, NEW r \in 0 .. w - 1,
           NEW e \in Int, NEW s \in 0 .. w - 1, w * q + r = w * e + s
    PROVE  r = s
<1>1. w * (q - e) < w /\ -w < w * (q - e)
  BY Distribute
<1>2. q - e = 0
  BY <1>1, Scaled
<1> QED
  BY <1>2, Distribute

LEMMA ModUnique ==
    ASSUME NEW w \in Nat \ {0}, NEW a \in Int, NEW q \in Int, NEW r \in 0 .. w - 1,
           a = w * q + r
    PROVE  a % w = r
<1>1. PICK e \in Int, s \in 0 .. w - 1 : a = w * e + s /\ s = a % w
  BY Divided, Zenon
<1>2. w * q + r = w * e + s
  BY <1>1, Zenon
<1>3. r = s
  BY <1>2, RemainderUnique, Zenon
<1> QED
  BY <1>1, <1>3, Zenon

\* A counter kept modulo w goes on as the number itself does.
LEMMA ModAdd ==
    ASSUME NEW w \in Nat \ {0}, NEW a \in Int, NEW k \in Int
    PROVE  ((a % w) + k) % w = (a + k) % w
<1>1. PICK c \in Int : c = a + k
  OBVIOUS
<1>2. PICK q \in Int, r \in 0 .. w - 1 : c = w * q + r /\ r = c % w
  BY Divided, Zenon
<1>3. PICK e \in Int, s \in 0 .. w - 1 : a = w * e + s /\ s = a % w
  BY Divided, Zenon
<1>4. PICK t \in Int : t = s + k
  OBVIOUS
<1>5. c = w * q + r /\ a = w * e + s
  BY <1>2, <1>3, Zenon
<1>6. t = w * (q - e) + r
  BY <1>1, <1>4, <1>5, Distribute
<1>7. t % w = r
  BY <1>6, ModUnique
<1> QED
  BY <1>1, <1>2, <1>3, <1>4, <1>7, Zenon

\* The place in the buffer is the same for the counter and for the number, since
\* the buffer's size divides the word.
LEMMA ModMod ==
    ASSUME NEW w \in Nat \ {0}, NEW p \in Nat \ {0}, w % p = 0, NEW a \in Int
    PROVE  (a % w) % p = a % p
<1>1. PICK m \in Int : w = p * m
  <2>1. w \in Int
    OBVIOUS
  <2>2. PICK m \in Int, s \in 0 .. p - 1 : w = p * m + s /\ s = w % p
    BY <2>1, Divided, Zenon
  <2>3. p * m \in Int
    BY SMT
  <2> QED
    BY <2>2, <2>3
<1>2. PICK q \in Int, r \in 0 .. w - 1 : a = w * q + r /\ r = a % w
  BY Divided, Zenon
<1>3. r \in Int
  OBVIOUS
<1>4. PICK e \in Int, s \in 0 .. p - 1 : r = p * e + s /\ s = r % p
  BY <1>3, Divided, Zenon
<1>5. a = w * q + r /\ r = p * e + s
  BY <1>2, <1>4, Zenon
<1>6. /\ p * (m * q + e) = (p * m) * q + p * e
      /\ p * e \in Int /\ (p * m) * q \in Int
  BY SMT
<1>7. a = p * (m * q + e) + s
  BY <1>1, <1>5, <1>6
<1>8. a % p = s
  BY <1>7, ModUnique
<1> QED
  BY <1>2, <1>4, <1>8, Zenon

\* Numbers less than p apart have different remainders.
LEMMA ModDiffer ==
    ASSUME NEW p \in Nat \ {0}, NEW a \in Int, NEW c \in Int,
           a % p = c % p, a - c < p, c - a < p
    PROVE  a = c
<1>1. PICK q \in Int, r \in 0 .. p - 1 : a = p * q + r /\ r = a % p
  BY Divided, Zenon
<1>2. PICK e \in Int, s \in 0 .. p - 1 : c = p * e + s /\ s = c % p
  BY Divided, Zenon
<1>3. a = p * q + r /\ c = p * e + r
  BY <1>1, <1>2, Zenon
<1>4. p * (q - e) = a - c
  BY <1>3, Distribute
<1>5. q - e = 0
  BY <1>4, Scaled
<1> QED
  BY <1>3, <1>4, <1>5

\* The distance of two counters is the distance of the numbers.
LEMMA ModDistance ==
    ASSUME NEW w \in Nat \ {0}, NEW a \in Int, NEW c \in Int, a - c \in 0 .. w - 1
    PROVE  ((a % w) - (c % w)) % w = a - c
<1>1. PICK q \in Int, r \in 0 .. w - 1 : a = w * q + r /\ r = a % w
  BY Divided, Zenon
<1>2. PICK e \in Int, s \in 0 .. w - 1 : c = w * e + s /\ s = c % w
  BY Divided, Zenon
<1>3. a = w * q + r /\ c = w * e + s
  BY <1>1, <1>2, Zenon
<1>4. r - s = w * (e - q) + (a - c)
  BY <1>3, Distribute
<1>5. (r - s) % w = a - c
  BY <1>4, ModUnique
<1> QED
  BY <1>1, <1>2, <1>5, Zenon

LEMMA ModType ==
    ASSUME NEW w \in Nat \ {0}, NEW a \in Int
    PROVE  a % w \in 0 .. w - 1
BY SMT

------------------------------------------------------------------------------
(* What the counters tell *)

\* The conjuncts of PipeInv that the others follow from.
Inductive ==
    /\ TypeOK /\ NoLostWakeup
    /\ Counters /\ Locking /\ Ends /\ (~SMP => HolderWakes)

\* The tests of pipewrite and piperead, nwrite == nread + PIPESIZE and
\* nread == nwrite, are exact although the counters wrap.
LEMMA FullEmpty ==
    ASSUME TypeOK, Counters
    PROVE  /\ Empty <=> got = sent
           /\ Full <=> sent = got + PIPESIZE
<1>1. /\ Word \in Nat \ {0} /\ PIPESIZE \in Nat \ {0} /\ PIPESIZE < Word
      /\ got \in Int /\ sent \in Int /\ got <= sent /\ sent <= got + PIPESIZE
      /\ got - sent < Word /\ sent - got < Word
  BY PipeAssumption DEF TypeOK, Counters
<1>2. got % Word = sent % Word <=> got = sent
  BY <1>1, ModDiffer, Zenon
<1>3. PICK c \in Int : c = got + PIPESIZE
  BY <1>1
<1>4. ((got % Word) + PIPESIZE) % Word = c % Word
  <2>1. PIPESIZE \in Int
    BY <1>1
  <2> QED
    BY <1>1, <1>3, <2>1, ModAdd, Zenon
<1>5. c - sent < Word /\ sent - c < Word
  BY <1>1, <1>3
<1>6. sent % Word = c % Word <=> sent = c
  BY <1>1, <1>5, ModDiffer, Zenon
<1> QED
  BY <1>2, <1>3, <1>4, <1>6 DEF Empty, Full, Counters

LEMMA FifoHolds ==
    ASSUME TypeOK, Counters
    PROVE  Fifo
<1>1. /\ Word \in Nat \ {0} /\ PIPESIZE \in Nat \ {0} /\ PIPESIZE < Word /\ Word % PIPESIZE = 0
      /\ got \in Int /\ sent \in Int /\ got <= sent /\ sent <= got + PIPESIZE
      /\ sent - got \in 0 .. Word - 1
  BY PipeAssumption DEF TypeOK, Counters
<1>2. Count = sent - got
  <2>1. Count = ((sent % Word) - (got % Word)) % Word
    BY DEF Count, Counters
  <2> QED
    BY <1>1, <2>1, ModDistance, Zenon
<1>3. ASSUME NEW k \in 1 .. Count
      PROVE  data[(nread + k - 1) % PIPESIZE] = got + k
  <2>1. PICK c \in Int : c = got + (k - 1)
    BY <1>1, <1>2
  <2>2. k - 1 \in Int /\ k \in Int
    BY <1>1, <1>2
  <2>3. PICK m \in Int : m = (got % Word) + (k - 1)
    BY <1>1, <2>2, ModType
  <2>4. m % PIPESIZE = c % PIPESIZE
    <3>1. (m % Word) % PIPESIZE = m % PIPESIZE
      BY <1>1, ModMod, Zenon
    <3>2. (c % Word) % PIPESIZE = c % PIPESIZE
      BY <1>1, ModMod, Zenon
    <3>3. m % Word = c % Word
      BY <1>1, <2>1, <2>2, <2>3, ModAdd, Zenon
    <3> QED
      BY <3>1, <3>2, <3>3
  <2>5. nread + k - 1 = m
    BY <1>1, <2>2, <2>3 DEF Counters, TypeOK
  <2>6. c \in got .. sent - 1 /\ c + 1 = got + k
    BY <1>1, <1>2, <2>1
  <2>7. data[c % PIPESIZE] = c + 1
    BY <2>6 DEF Counters
  <2> QED
    BY <2>4, <2>5, <2>6, <2>7
<1>4. Count <= PIPESIZE /\ sent = got + Count
  BY <1>1, <1>2
<1> QED
  BY <1>3, <1>4 DEF Fifo

------------------------------------------------------------------------------
(* Steps that leave the buffer as it is *)

\* An end that is closed, and processes that fall asleep or wake, change neither
\* the bytes nor the counters.
LEMMA SameBuffer ==
    ASSUME Counters, UNCHANGED <<data, nread, nwrite, sent, got>>
    PROVE  Counters' /\ (Empty' <=> Empty) /\ (Full' <=> Full)
BY DEF Counters, Empty, Full

LEMMA CallInv ==
    ASSUME Inductive, NEW p \in Procs, NEW k \in 1 .. MaxN, Call(p, k)
    PROVE  Inductive'
<1>1. Counters' /\ (Empty' <=> Empty) /\ (Full' <=> Full)
  BY SameBuffer DEF Inductive, Call, pipe
<1>2. TypeOK'
  BY PipeAssumption DEF Inductive, TypeOK, Locking, Call, pipe
<1>3. Locking' /\ Ends'
  BY PipeAssumption DEF Inductive, TypeOK, Locking, Ends, Call, pipe, Procs
<1>4. NoLostWakeup' /\ (~SMP => HolderWakes')
  BY <1>1, PipeAssumption
  DEF Inductive, TypeOK, NoLostWakeup, HolderWakes, MaySleep, Locking, Ends, Procs, Call, pipe
<1> QED
  BY <1>1, <1>2, <1>3, <1>4 DEF Inductive

LEMMA AcquireInv ==
    ASSUME Inductive, NEW p \in Procs, Acquire(p)
    PROVE  Inductive'
<1>1. Counters' /\ (Empty' <=> Empty) /\ (Full' <=> Full)
  BY SameBuffer DEF Inductive, Acquire, pipe
<1>2. TypeOK'
  BY PipeAssumption DEF Inductive, TypeOK, Locking, Acquire, pipe
<1>3. Locking' /\ Ends'
  BY PipeAssumption DEF Inductive, TypeOK, Locking, Ends, Acquire, pipe, Procs
<1>4. NoLostWakeup' /\ (~SMP => HolderWakes')
  BY <1>1, PipeAssumption
  DEF Inductive, TypeOK, NoLostWakeup, HolderWakes, MaySleep, Locking, Ends, Procs, Acquire, pipe
<1> QED
  BY <1>1, <1>2, <1>3, <1>4 DEF Inductive

LEMMA WriteGiveUpInv ==
    ASSUME Inductive, NEW p \in Procs, WriteGiveUp(p)
    PROVE  Inductive'
<1>1. Counters' /\ (Empty' <=> Empty) /\ (Full' <=> Full)
  BY SameBuffer DEF Inductive, WriteGiveUp, Return, pipe
<1>2. TypeOK'
  BY PipeAssumption DEF Inductive, TypeOK, Locking, WriteGiveUp, Return, pipe
<1>3. Locking' /\ Ends'
  BY PipeAssumption DEF Inductive, TypeOK, Locking, Ends, WriteGiveUp, Return, pipe, Procs
<1>4. NoLostWakeup' /\ (~SMP => HolderWakes')
  BY <1>1, PipeAssumption
  DEF Inductive, TypeOK, NoLostWakeup, HolderWakes, MaySleep, Locking, Ends, Procs, WriteGiveUp, Return, pipe
<1> QED
  BY <1>1, <1>2, <1>3, <1>4 DEF Inductive

LEMMA WriteFullInv ==
    ASSUME Inductive, NEW p \in Procs, WriteFull(p)
    PROVE  Inductive'
<1>1. Counters' /\ (Empty' <=> Empty) /\ (Full' <=> Full)
  BY SameBuffer DEF Inductive, WriteFull, SleepOn, WakeReaders, pipe
<1>2. TypeOK'
  BY PipeAssumption DEF Inductive, TypeOK, Locking, WriteFull, SleepOn, WakeReaders, pipe
<1>3. Locking' /\ Ends'
  BY PipeAssumption DEF Inductive, TypeOK, Locking, Ends, WriteFull, SleepOn, WakeReaders, pipe, Procs
<1>4. NoLostWakeup' /\ (~SMP => HolderWakes')
  BY <1>1, PipeAssumption
  DEF Inductive, TypeOK, NoLostWakeup, HolderWakes, MaySleep, Locking, Ends, Procs, WriteFull, SleepOn, WakeReaders, pipe
<1> QED
  BY <1>1, <1>2, <1>3, <1>4 DEF Inductive

LEMMA WriteEndInv ==
    ASSUME Inductive, NEW p \in Procs, WriteEnd(p)
    PROVE  Inductive'
<1>1. Counters' /\ (Empty' <=> Empty) /\ (Full' <=> Full)
  BY SameBuffer DEF Inductive, WriteEnd, Return, WakeReaders, pipe
<1>2. TypeOK'
  BY PipeAssumption DEF Inductive, TypeOK, Locking, WriteEnd, Return, WakeReaders, pipe
<1>3. Locking' /\ Ends'
  BY PipeAssumption DEF Inductive, TypeOK, Locking, Ends, WriteEnd, Return, WakeReaders, pipe, Procs
<1>4. NoLostWakeup' /\ (~SMP => HolderWakes')
  BY <1>1, PipeAssumption
  DEF Inductive, TypeOK, NoLostWakeup, HolderWakes, MaySleep, Locking, Ends, Procs, WriteEnd, Return, WakeReaders, pipe
<1> QED
  BY <1>1, <1>2, <1>3, <1>4 DEF Inductive

LEMMA ReadGiveUpInv ==
    ASSUME Inductive, NEW p \in Procs, ReadGiveUp(p)
    PROVE  Inductive'
<1>1. Counters' /\ (Empty' <=> Empty) /\ (Full' <=> Full)
  BY SameBuffer DEF Inductive, ReadGiveUp, Return, pipe
<1>2. TypeOK'
  BY PipeAssumption DEF Inductive, TypeOK, Locking, ReadGiveUp, Return, pipe
<1>3. Locking' /\ Ends'
  BY PipeAssumption DEF Inductive, TypeOK, Locking, Ends, ReadGiveUp, Return, pipe, Procs
<1>4. NoLostWakeup' /\ (~SMP => HolderWakes')
  BY <1>1, PipeAssumption
  DEF Inductive, TypeOK, NoLostWakeup, HolderWakes, MaySleep, Locking, Ends, Procs, ReadGiveUp, Return, pipe
<1> QED
  BY <1>1, <1>2, <1>3, <1>4 DEF Inductive

LEMMA ReadSleepInv ==
    ASSUME Inductive, NEW p \in Procs, ReadSleep(p)
    PROVE  Inductive'
<1>1. Counters' /\ (Empty' <=> Empty) /\ (Full' <=> Full)
  BY SameBuffer DEF Inductive, ReadSleep, SleepOn, pipe
<1>2. TypeOK'
  BY PipeAssumption DEF Inductive, TypeOK, Locking, ReadSleep, SleepOn, pipe
<1>3. Locking' /\ Ends'
  BY PipeAssumption DEF Inductive, TypeOK, Locking, Ends, ReadSleep, SleepOn, pipe, Procs
<1>4. NoLostWakeup' /\ (~SMP => HolderWakes')
  BY <1>1, PipeAssumption
  DEF Inductive, TypeOK, NoLostWakeup, HolderWakes, MaySleep, Locking, Ends, Procs, ReadSleep, SleepOn, pipe
<1> QED
  BY <1>1, <1>2, <1>3, <1>4 DEF Inductive

LEMMA ReadReadyInv ==
    ASSUME Inductive, NEW p \in Procs, ReadReady(p)
    PROVE  Inductive'
<1>1. Counters' /\ (Empty' <=> Empty) /\ (Full' <=> Full)
  BY SameBuffer DEF Inductive, ReadReady, pipe
<1>2. TypeOK'
  BY PipeAssumption DEF Inductive, TypeOK, Locking, ReadReady, pipe
<1>3. Locking' /\ Ends'
  BY PipeAssumption DEF Inductive, TypeOK, Locking, Ends, ReadReady, pipe, Procs
<1>4. NoLostWakeup' /\ (~SMP => HolderWakes')
  BY <1>1, PipeAssumption
  DEF Inductive, TypeOK, NoLostWakeup, HolderWakes, MaySleep, Locking, Ends, Procs, ReadReady, pipe
<1> QED
  BY <1>1, <1>2, <1>3, <1>4 DEF Inductive

LEMMA ReadEndInv ==
    ASSUME Inductive, NEW p \in Procs, ReadEnd(p)
    PROVE  Inductive'
<1>1. Counters' /\ (Empty' <=> Empty) /\ (Full' <=> Full)
  BY SameBuffer DEF Inductive, ReadEnd, Return, WakeWriters, pipe
<1>2. TypeOK'
  BY PipeAssumption DEF Inductive, TypeOK, Locking, ReadEnd, Return, WakeWriters, pipe
<1>3. Locking' /\ Ends'
  BY PipeAssumption DEF Inductive, TypeOK, Locking, Ends, ReadEnd, Return, WakeWriters, pipe, Procs
<1>4. NoLostWakeup' /\ (~SMP => HolderWakes')
  BY <1>1, PipeAssumption
  DEF Inductive, TypeOK, NoLostWakeup, HolderWakes, MaySleep, Locking, Ends, Procs, ReadEnd, Return, WakeWriters, pipe
<1> QED
  BY <1>1, <1>2, <1>3, <1>4 DEF Inductive

LEMMA CloseInv ==
    ASSUME Inductive, NEW p \in Procs, Close(p)
    PROVE  Inductive'
<1>1. Counters' /\ (Empty' <=> Empty) /\ (Full' <=> Full)
  BY SameBuffer DEF Inductive, Close, WakeWriters, WakeReaders, local, pipe
<1>2. TypeOK'
  BY PipeAssumption, Zenon DEF Inductive, TypeOK, Locking, Close, WakeWriters, WakeReaders, local, pipe
<1>3. Locking' /\ Ends'
  BY PipeAssumption, Zenon DEF Inductive, TypeOK, Locking, Ends, Close, WakeWriters, WakeReaders, local, pipe, Procs
<1>4. NoLostWakeup' /\ (~SMP => HolderWakes')
  BY <1>1, PipeAssumption, Zenon
  DEF Inductive, TypeOK, NoLostWakeup, HolderWakes, MaySleep, Locking, Ends, Procs, Close, WakeWriters, WakeReaders, local, pipe
<1> QED
  BY <1>1, <1>2, <1>3, <1>4 DEF Inductive

LEMMA KillInv ==
    ASSUME Inductive, NEW p \in Procs, Kill(p)
    PROVE  Inductive'
<1>1. Counters' /\ (Empty' <=> Empty) /\ (Full' <=> Full)
  BY SameBuffer DEF Inductive, Kill, local, pipe
<1>2. TypeOK'
  BY PipeAssumption DEF Inductive, TypeOK, Locking, Kill, local, pipe
<1>3. Locking' /\ Ends'
  BY PipeAssumption DEF Inductive, TypeOK, Locking, Ends, Kill, local, pipe, Procs
<1>4. NoLostWakeup' /\ (~SMP => HolderWakes')
  BY <1>1, PipeAssumption
  DEF Inductive, TypeOK, NoLostWakeup, HolderWakes, MaySleep, Locking, Ends, Procs, Kill, local, pipe
<1> QED
  BY <1>1, <1>2, <1>3, <1>4 DEF Inductive

------------------------------------------------------------------------------
(* The steps that move a byte *)

LEMMA WriteByteInv ==
    ASSUME Inductive, NEW p \in Procs, WriteByte(p)
    PROVE  Inductive'
<1>1. /\ Word \in Nat \ {0} /\ PIPESIZE \in Nat \ {0} /\ Word % PIPESIZE = 0
      /\ got \in Int /\ sent \in Int /\ sent' = sent + 1 /\ got' = got
  BY PipeAssumption DEF Inductive, TypeOK, WriteByte
<1>2. got <= sent /\ sent < got + PIPESIZE
  BY <1>1, FullEmpty DEF Inductive, Counters, WriteByte
<1>3. nwrite % PIPESIZE = sent % PIPESIZE
  BY <1>1, ModMod, Zenon DEF Inductive, Counters
<1>4. nwrite' = sent' % Word
  <2>1. nwrite' = ((sent % Word) + 1) % Word
    BY DEF Inductive, Counters, WriteByte
  <2>2. 1 \in Int
    OBVIOUS
  <2> QED
    BY <1>1, <2>1, <2>2, ModAdd, Zenon
<1>5. sent % PIPESIZE \in 0 .. PIPESIZE - 1
  BY <1>1, ModType
<1>6. ASSUME NEW k \in got' .. sent' - 1
      PROVE  data'[k % PIPESIZE] = k + 1
  <2>1. k \in Int /\ k % PIPESIZE \in 0 .. PIPESIZE - 1
    BY <1>1, ModType
  <2>2. CASE k = sent
    BY <1>3, <1>5, <2>2 DEF Inductive, TypeOK, WriteByte
  <2>3. CASE k # sent
    <3>1. k \in got .. sent - 1 /\ k - sent < PIPESIZE /\ sent - k < PIPESIZE
      BY <1>1, <1>2, <2>3
    <3>2. k % PIPESIZE # sent % PIPESIZE
      BY <1>1, <2>1, <2>3, <3>1, ModDiffer, Zenon
    <3>3. data'[k % PIPESIZE] = data[k % PIPESIZE]
      BY <1>3, <2>1, <3>2 DEF Inductive, TypeOK, WriteByte
    <3> QED
      BY <3>1, <3>3 DEF Inductive, Counters
  <2> QED
    BY <2>2, <2>3
<1>7. Counters'
  <2>1. nread' = got' % Word
    BY DEF Inductive, Counters, WriteByte
  <2>2. got' <= sent' /\ sent' <= got' + PIPESIZE
    BY <1>1, <1>2
  <2> QED
    BY <1>4, <1>6, <2>1, <2>2 DEF Counters
<1>8. TypeOK'
  <2>1. nwrite' \in 0 .. Word - 1
    BY <1>1, <1>4, ModType
  <2>2. data' \in [0 .. PIPESIZE - 1 -> 0 .. MaxBytes] /\ sent' \in 0 .. MaxBytes
    BY <1>1, PipeAssumption DEF Inductive, TypeOK, WriteByte
  <2>3. i' \in [Procs -> 0 .. MaxN] /\ \A q \in Procs : i'[q] <= n'[q]
    BY PipeAssumption DEF Inductive, TypeOK, WriteByte
  <2> QED
    BY <2>1, <2>2, <2>3, Zenon DEF Inductive, TypeOK, WriteByte
<1>9. Locking' /\ Ends'
  BY DEF Inductive, TypeOK, Locking, Ends, WriteByte
<1>10. NoLostWakeup' /\ (~SMP => HolderWakes')
  <2>1. lock' = p /\ lock = p /\ p # None
    BY PipeAssumption DEF Inductive, Locking, WriteByte
  <2>2. ASSUME ~SMP, NEW q \in asleep'
        PROVE  q \in Readers /\ readopen' /\ p \notin killed'
    BY <2>2 DEF Inductive, HolderWakes, MaySleep, WriteByte
  <2>3. \A q \in Procs : pc'[q] \in {"write", "wait", "read"} => q = p
    BY <1>9, <2>1 DEF Locking
  <2>4. pc'[p] = "write"
    BY DEF WriteByte
  <2> QED
    BY <2>1, <2>2, <2>3, <2>4 DEF NoLostWakeup, HolderWakes
<1> QED
  BY <1>7, <1>8, <1>9, <1>10 DEF Inductive

LEMMA ReadByteInv ==
    ASSUME Inductive, NEW p \in Procs, ReadByte(p)
    PROVE  Inductive'
<1>1. /\ Word \in Nat \ {0} /\ PIPESIZE \in Nat \ {0} /\ Word % PIPESIZE = 0
      /\ got \in Int /\ sent \in Int /\ sent' = sent
  BY PipeAssumption DEF Inductive, TypeOK, ReadByte
<1>2. got < sent /\ sent <= got + PIPESIZE
  BY <1>1, FullEmpty DEF Inductive, Counters, ReadByte
<1>3. nread % PIPESIZE = got % PIPESIZE
  BY <1>1, ModMod, Zenon DEF Inductive, Counters
<1>4. got' = got + 1
  <2>1. got \in got .. sent - 1
    BY <1>1, <1>2
  <2> QED
    BY <1>3, <2>1 DEF Inductive, Counters, ReadByte
<1>5. nread' = got' % Word
  <2>1. nread' = ((got % Word) + 1) % Word
    BY DEF Inductive, Counters, ReadByte
  <2>2. 1 \in Int
    OBVIOUS
  <2> QED
    BY <1>1, <1>4, <2>1, <2>2, ModAdd, Zenon
<1>6. Counters'
  <2>1. got' <= sent' /\ sent' <= got' + PIPESIZE
    BY <1>1, <1>2, <1>4
  <2>2. ASSUME NEW k \in got' .. sent' - 1
        PROVE  data'[k % PIPESIZE] = k + 1
    <3>1. k \in got .. sent - 1
      BY <1>1, <1>4
    <3> QED
      BY <3>1 DEF Inductive, Counters, ReadByte
  <2> QED
    BY <1>5, <2>1, <2>2 DEF Inductive, Counters, ReadByte
<1>7. TypeOK'
  <2>1. nread' \in 0 .. Word - 1
    <3>1. got' \in Int
      BY <1>1, <1>4
    <3> QED
      BY <1>1, <1>5, <3>1, ModType, Zenon
  <2>2. got' \in 0 .. MaxBytes
    BY <1>1, <1>2, <1>4, PipeAssumption DEF Inductive, TypeOK
  <2>3. i' \in [Procs -> 0 .. MaxN] /\ \A q \in Procs : i'[q] <= n'[q]
    BY PipeAssumption DEF Inductive, TypeOK, ReadByte
  <2> QED
    BY <2>1, <2>2, <2>3, Zenon DEF Inductive, TypeOK, ReadByte
<1>8. Locking' /\ Ends'
  BY DEF Inductive, TypeOK, Locking, Ends, ReadByte
<1>9. NoLostWakeup' /\ (~SMP => HolderWakes')
  <2>1. lock' = p /\ p # None
    BY PipeAssumption DEF Inductive, Locking, ReadByte
  <2>2. ~SMP => \A q \in asleep' : q \in Writers /\ readopen'
    BY DEF Inductive, HolderWakes, ReadByte
  <2>3. \A q \in Procs : pc'[q] \in {"write", "wait", "read"} => q = p
    BY <1>8, <2>1 DEF Locking
  <2>4. pc'[p] = "read"
    BY DEF ReadByte
  <2> QED
    BY <2>1, <2>2, <2>3, <2>4 DEF NoLostWakeup, HolderWakes
<1> QED
  BY <1>6, <1>7, <1>8, <1>9 DEF Inductive

------------------------------------------------------------------------------
LEMMA InitInv == Init => Inductive
<1> SUFFICES ASSUME Init PROVE Inductive
  OBVIOUS
<1>1. Word \in Nat \ {0} /\ PIPESIZE \in Nat \ {0} /\ PIPESIZE < Word /\ 0 \in Int
  BY PipeAssumption
<1>2. 0 % Word = 0
  BY <1>1, SMT
<1>3. Counters
  BY <1>1, <1>2 DEF Init, Counters
<1>4. TypeOK
  <2>1. data \in [0 .. PIPESIZE - 1 -> 0 .. MaxBytes]
    BY PipeAssumption DEF Init
  <2>2. n \in [Procs -> 0 .. MaxN] /\ i \in [Procs -> 0 .. MaxN] /\ \A p \in Procs : i[p] <= n[p]
    BY PipeAssumption DEF Init
  <2>3. sent \in 0 .. MaxBytes /\ got \in 0 .. MaxBytes /\ nread \in 0 .. Word - 1 /\ nwrite \in 0 .. Word - 1
    BY <1>1, PipeAssumption DEF Init
  <2>4. pc \in [Procs -> {"idle", "enter", "wait", "write", "read"}]
    BY DEF Init
  <2> QED
    BY <2>1, <2>2, <2>3, <2>4, Zenon DEF Init, TypeOK
<1> QED
  BY <1>3, <1>4, PipeAssumption DEF Init, Inductive, NoLostWakeup, Locking, Ends, HolderWakes

LEMMA StepInv == Inductive /\ [Next]_vars => Inductive'
<1> SUFFICES ASSUME Inductive, [Next]_vars PROVE Inductive'
  OBVIOUS
<1>1. CASE UNCHANGED vars
  BY <1>1 DEF vars, pipe, local, Inductive, TypeOK, NoLostWakeup, MaySleep, Empty, Full, Counters, Locking,
     Ends, HolderWakes
<1>2. CASE Next
  BY <1>2, CallInv, AcquireInv, WriteGiveUpInv, WriteFullInv, WriteByteInv, WriteEndInv, ReadGiveUpInv,
     ReadSleepInv, ReadReadyInv, ReadByteInv, ReadEndInv, CloseInv, KillInv
  DEF Next, Write, Read
<1> QED
  BY <1>1, <1>2

LEMMA InductivePipeInv == Inductive => PipeInv
<1> SUFFICES ASSUME Inductive PROVE PipeInv
  OBVIOUS
<1>1. Fifo
  BY FifoHolds DEF Inductive
<1>2. NoUseAfterFree
  BY DEF Inductive, NoUseAfterFree, Ends, Locking, Procs, TypeOK
<1> QED
  BY <1>1, <1>2 DEF Inductive, PipeInv

\* Bytes come out as they went in, through buffers and counters of any size, the page
\* outlives every call, and on one CPU nobody sleeps through a wakeup (pipewrite,
\* piperead, pipeclose, with any number of readers and writers that may be killed).
THEOREM PipeInvariant == Spec => []PipeInv
<1>1. Spec => []Inductive
  BY InitInv, StepInv, PTL DEF Spec
<1> QED
  BY <1>1, InductivePipeInv, PTL
==============================================================================
