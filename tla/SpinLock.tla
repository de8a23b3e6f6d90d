------------------------------- MODULE SpinLock -------------------------------
(***************************************************************************)
(* kernel/spinlock.c: spin locks and the nesting of "interrupts off" on a  *)
(* CPU.  The state of a CPU is the record [noff, intena, sie]: how many    *)
(* push_off are open, whether interrupts were on before the first of them, *)
(* and whether they are on now (the SIE bit of sstatus).                   *)
(***************************************************************************)
EXTENDS Integers

CONSTANTS Cpus, Locks, None

ASSUME SpinAssumption == None \notin Cpus

VARIABLES cpu, holder     \* per CPU and per lock (lk->cpu, None when it is free)

PushOff(k) == [k EXCEPT !.sie = FALSE, !.intena = IF k.noff = 0 THEN k.sie ELSE @, !.noff = @ + 1]

PopOffPanics(k) == k.sie \/ k.noff < 1

PopOff(k) == [k EXCEPT !.noff = @ - 1, !.sie = k.noff = 1 /\ k.intena]

\* acquire on CPU c: interrupts off, the lock if it is free, else later when it is
AcquirePanics(c, l) == holder[l] = c
AcquireTry(c, l) ==
    /\ cpu' = [cpu EXCEPT ![c] = PushOff(@)]
    /\ holder' = IF holder[l] = None THEN [holder EXCEPT ![l] = c] ELSE holder
AcquireGot(c, l) == holder[l] = None /\ holder' = [holder EXCEPT ![l] = c] /\ UNCHANGED cpu

ReleasePanics(c, l) == holder[l] # c \/ PopOffPanics(cpu[c])
Release(c, l) == cpu' = [cpu EXCEPT ![c] = PopOff(@)] /\ holder' = [holder EXCEPT ![l] = None]
===============================================================================
