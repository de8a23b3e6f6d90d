-------------------------------- MODULE Eevdf --------------------------------
(***************************************************************************)
(* The scheduling policy of kernel/proc.c on one CPU: virtual runtimes and *)
(* deadlines, the timer tick, and the three passes of scheduler() over the *)
(* process table, during which device interrupts may wake processes.       *)
(*                                                                         *)
(* A nice value is represented by its weight.  Only differences of virtual *)
(* times matter to the code, so they are kept relative to the smallest     *)
(* vruntime of a live process (Rebase).  A process that exits leaves the   *)
(* run queue and its slot; module Proc has the life cycle in full.         *)
(***************************************************************************)
EXTENDS Integers, FiniteSets, FiniteSetsExt

CONSTANTS
    NPROC,
    Weights,       \* the weights of the nice values, all positive
    DefaultWeight, \* of NICE_DEFAULT, which init has
    TickWork,      \* MILLI_TICK * NICE_20_WEIGHT
    BASE_SLICE,    \* ticks of a slice
    Word,          \* the arithmetic of uint64 is modulo Word
    Workloads,     \* sets of calls that processes make besides computing
    MaxLag         \* how far others may run ahead of a sleeper

ASSUME EevdfAssumption ==
    /\ NPROC \in Nat \ {0}
    /\ Weights \subseteq Nat \ {0}
    /\ DefaultWeight \in Weights
    /\ TickWork \in Nat \ {0}
    /\ BASE_SLICE \in Nat \ {0}
    /\ Word \in Nat \ {0}
    /\ Workloads \subseteq SUBSET {"sleep", "exit", "fork", "setnice"}
    /\ MaxLag \in Nat

VARIABLES
    state, weight, vruntime, vdeadline, remain_slice,    \* struct proc
    cur,                     \* c->proc
    pass,                    \* of scheduler(), or "run"
    scan,                    \* its next slot
    v0, nr, sum_weight, avg_numer,                       \* st
    best,
    fresh,                   \* nothing was woken since the passes began
    steady,                  \* no process came, left or changed its weight
                             \* since the first tick
    calls                    \* the workload, which never changes

task  == <<state, weight, vruntime, vdeadline, remain_slice>>
stats == <<v0, nr, sum_weight, avg_numer>>
vars  == <<task, cur, pass, scan, stats, best, fresh, steady, calls>>

Slots == 1 .. NPROC

OnRq(p) == state[p] \in {"RUNNABLE", "RUNNING"}
Live    == {p \in Slots : state[p] # "UNUSED"}

TypeOK ==
    /\ state \in [Slots -> {"UNUSED", "SLEEPING", "RUNNABLE", "RUNNING"}]
    /\ weight \in [Slots -> Weights \cup {0}]
    /\ vruntime \in [Slots -> Nat]
    /\ vdeadline \in [Slots -> Nat]
    /\ remain_slice \in [Slots -> 0 .. BASE_SLICE]
    /\ cur \in 0 .. NPROC
    /\ pass \in {"min", "sum", "pick", "run"}
    /\ scan \in 1 .. NPROC + 1
    /\ v0 \in Nat
    /\ nr \in 0 .. NPROC
    /\ sum_weight \in Nat
    /\ avg_numer \in 0 .. Word - 1
    /\ best \in 0 .. NPROC
    /\ fresh \in BOOLEAN
    /\ steady \in BOOLEAN
    /\ calls \in Workloads

\* Mutant: the division comes before the multiplication.
TickDeltaTruncated(w)        == 2 * (TickWork \div (2 * w))

tick_delta(w)        == TickWork \div w
eevdf_slice_delta(w) == (BASE_SLICE * TickWork) \div w

\* userinit (allocproc): init, with vruntime 0.
Init ==
    /\ state = [p \in Slots |-> IF p = 1 THEN "RUNNABLE" ELSE "UNUSED"]
    /\ weight = [p \in Slots |-> IF p = 1 THEN DefaultWeight ELSE 0]
    /\ vruntime = [p \in Slots |-> 0]
    /\ vdeadline = [p \in Slots |-> IF p = 1 THEN eevdf_slice_delta(DefaultWeight) ELSE 0]
    /\ remain_slice = [p \in Slots |-> IF p = 1 THEN BASE_SLICE ELSE 0]
    /\ cur = 0
    /\ pass = "min"
    /\ scan = 1
    /\ v0 = 0 /\ nr = 0 /\ sum_weight = 0 /\ avg_numer = 0
    /\ best = 0
    /\ fresh = TRUE
    /\ steady = TRUE
    /\ calls \in Workloads

------------------------------------------------------------------------------
(* scheduler(): eevdf_find_min_vruntime, eevdf_calc_rq_stats, the choice *)

FindMin ==
    /\ pass = "min" /\ scan <= NPROC
    /\ IF OnRq(scan)
         THEN /\ v0' = IF nr = 0 \/ vruntime[scan] < v0 THEN vruntime[scan] ELSE v0
              /\ nr' = nr + 1
         ELSE UNCHANGED <<v0, nr>>
    /\ scan' = scan + 1
    /\ UNCHANGED <<task, cur, pass, sum_weight, avg_numer, best, fresh, steady, calls>>

FindMinEnd ==
    /\ pass = "min" /\ scan > NPROC
    /\ pass' = IF nr = 0 THEN "pick" ELSE "sum"
    /\ scan' = 1
    /\ UNCHANGED <<task, cur, stats, best, fresh, steady, calls>>

CalcStats ==
    /\ pass = "sum" /\ scan <= NPROC
    /\ IF OnRq(scan)
         THEN /\ sum_weight' = sum_weight + weight[scan]
              /\ avg_numer' = (avg_numer + ((vruntime[scan] - v0) % Word) * weight[scan]) % Word
         ELSE UNCHANGED <<sum_weight, avg_numer>>
    /\ scan' = scan + 1
    /\ UNCHANGED <<task, cur, pass, v0, nr, best, fresh, steady, calls>>

CalcStatsEnd ==
    /\ pass = "sum" /\ scan > NPROC
    /\ pass' = "pick"
    /\ scan' = 1
    /\ UNCHANGED <<task, cur, stats, best, fresh, steady, calls>>

\* Mutant: the test against the average is left out.
EligibleAnyone(p) == OnRq(p) /\ vruntime[p] >= v0

eevdf_is_eligible(p) ==
    /\ nr # 0 /\ sum_weight # 0
    /\ OnRq(p)
    /\ vruntime[p] >= v0
    /\ avg_numer >= ((vruntime[p] - v0) * sum_weight) % Word

Pick ==
    /\ pass = "pick" /\ scan <= NPROC
    /\ best' = IF /\ state[scan] = "RUNNABLE"
                  /\ eevdf_is_eligible(scan)
                  /\ best = 0 \/ vdeadline[scan] < vdeadline[best]
               THEN scan ELSE best
    /\ scan' = scan + 1
    /\ UNCHANGED <<task, cur, pass, stats, fresh, steady, calls>>

\* swtch to the best process, or another round.
PickEnd ==
    /\ pass = "pick" /\ scan > NPROC
    /\ IF best = 0
         THEN pass' = "min" /\ UNCHANGED state
         ELSE pass' = "run" /\ state' = [state EXCEPT ![best] = "RUNNING"]
    /\ cur' = best
    /\ best' = 0
    /\ scan' = 1
    /\ v0' = 0 /\ nr' = 0 /\ sum_weight' = 0 /\ avg_numer' = 0
    /\ fresh' = TRUE
    /\ UNCHANGED <<weight, vruntime, vdeadline, remain_slice, steady, calls>>

------------------------------------------------------------------------------
(* The running process and interrupts *)

\* The process leaves the CPU with the given state.
SwitchOut(s) ==
    /\ state' = [state EXCEPT ![cur] = s]
    /\ cur' = 0
    /\ pass' = "min"

Lag(v) == Max({v[p] : p \in Live}) - Min({v[p] : p \in Live})

\* Virtual times relative to the smallest vruntime.
Rebase(t, v) ==
    [p \in Slots |-> IF p \in Live THEN t[p] - Min({v[q] : q \in Live}) ELSE 0]

\* The timer interrupt: eevdf_tick and, at the end of the slice,
\* eevdf_refresh_deadline and yield.
Tick ==
    LET v    == [vruntime EXCEPT ![cur] = @ + tick_delta(weight[cur])]
        last == remain_slice[cur] <= 1
        d    == IF last
                  THEN [vdeadline EXCEPT ![cur] = v[cur] + eevdf_slice_delta(weight[cur])]
                  ELSE vdeadline
    IN
    /\ pass = "run"
    /\ "sleep" \in calls => Lag(v) <= MaxLag
    /\ vruntime' = Rebase(v, v)
    /\ vdeadline' = Rebase(d, v)
    /\ remain_slice' = [remain_slice EXCEPT ![cur] = IF last THEN BASE_SLICE ELSE @ - 1]
    /\ IF last THEN SwitchOut("RUNNABLE") ELSE UNCHANGED <<state, cur, pass>>
    /\ UNCHANGED <<weight, scan, stats, best, fresh, steady, calls>>

\* No tick was charged yet, or all processes are level again at the end of a slice.
Unstarted == \A p \in Live : vruntime[p] = 0 /\ remain_slice[p] = BASE_SLICE

Sleep ==
    /\ pass = "run"
    /\ "sleep" \in calls
    /\ SwitchOut("SLEEPING")
    /\ steady' = (steady /\ Unstarted)
    /\ UNCHANGED <<weight, vruntime, vdeadline, remain_slice, scan, stats, best, fresh, calls>>

\* wakeup or kkill, from the running process or from an interrupt.  Interrupts
\* are off while scheduler() holds best->lock.
Wakeup(p) ==
    /\ state[p] = "SLEEPING"
    /\ best = 0
    /\ state' = [state EXCEPT ![p] = "RUNNABLE"]
    /\ remain_slice' = [remain_slice EXCEPT ![p] = BASE_SLICE]
    /\ vdeadline' = [vdeadline EXCEPT ![p] = vruntime[p] + eevdf_slice_delta(weight[p])]
    /\ fresh' = (pass = "run")
    /\ steady' = (steady /\ Unstarted)
    /\ UNCHANGED <<weight, vruntime, cur, pass, scan, stats, best, calls>>

\* kexit, and freeproc later on.  init does not exit.
Exit ==
    /\ pass = "run"
    /\ "exit" \in calls
    /\ cur # 1
    /\ SwitchOut("UNUSED")
    /\ weight' = [weight EXCEPT ![cur] = 0]
    /\ vruntime' = [vruntime EXCEPT ![cur] = 0]
    /\ vdeadline' = [vdeadline EXCEPT ![cur] = 0]
    /\ remain_slice' = [remain_slice EXCEPT ![cur] = 0]
    /\ steady' = (steady /\ Unstarted)
    /\ UNCHANGED <<scan, stats, best, fresh, calls>>

\* kfork: the child starts at the parent's vruntime with a slice of its own.
Fork(c) ==
    /\ pass = "run"
    /\ "fork" \in calls
    /\ state[c] = "UNUSED"
    /\ state' = [state EXCEPT ![c] = "RUNNABLE"]
    /\ weight' = [weight EXCEPT ![c] = weight[cur]]
    /\ vruntime' = [vruntime EXCEPT ![c] = vruntime[cur]]
    /\ remain_slice' = [remain_slice EXCEPT ![c] = BASE_SLICE]
    /\ vdeadline' = [vdeadline EXCEPT ![c] = vruntime[cur] + eevdf_slice_delta(weight[cur])]
    /\ steady' = (steady /\ Unstarted)
    /\ UNCHANGED <<cur, pass, scan, stats, best, fresh, calls>>

\* Mutant: the deadline is not refreshed.
SetNiceStale(p, w) ==
    /\ pass = "run"
    /\ "setnice" \in calls
    /\ p \in Live
    /\ weight' = [weight EXCEPT ![p] = w]
    /\ UNCHANGED vdeadline
    /\ steady' = (steady /\ Unstarted)
    /\ UNCHANGED <<state, vruntime, remain_slice, cur, pass, scan, stats, best, fresh, calls>>

\* ksetnice
SetNice(p, w) ==
    /\ pass = "run"
    /\ "setnice" \in calls
    /\ p \in Live
    /\ weight' = [weight EXCEPT ![p] = w]
    /\ vdeadline' = [vdeadline EXCEPT ![p] = vruntime[p] + eevdf_slice_delta(w)]
    /\ steady' = (steady /\ Unstarted)
    /\ UNCHANGED <<state, vruntime, remain_slice, cur, pass, scan, stats, best, fresh, calls>>

------------------------------------------------------------------------------
Scheduler == FindMin \/ FindMinEnd \/ CalcStats \/ CalcStatsEnd \/ Pick \/ PickEnd

Next ==
    \/ Scheduler
    \/ Tick \/ Sleep \/ Exit
    \/ \E p \in Slots : Wakeup(p) \/ Fork(p)
    \/ \E p \in Slots, w \in Weights : SetNice(p, w)

Spec == Init /\ [][Next]_vars

\* The CPU runs the scheduler's code and the timer keeps ticking.
FairSpec == Spec /\ WF_vars(Scheduler) /\ WF_vars(Tick)

------------------------------------------------------------------------------
(* Properties *)

Chosen == pass = "pick" /\ scan > NPROC

\* Sum over the run queue of weight * (vruntime of p - vruntime): what p has had
\* beyond its weighted fair share.
Excess(p) ==
    MapThenSumSet(LAMBDA q : weight[q] * (vruntime[p] - vruntime[q]), {q \in Slots : OnRq(q)})

TotalWeight == MapThenSumSet(LAMBDA q : weight[q], {q \in Slots : OnRq(q)})

\* One CPU is never left idle by the test of eligibility: when the passes found
\* a process on the run queue, scheduler() picks one, also when interrupts wake
\* processes in between and the sums wrap around.
NeverIdle == Chosen /\ best = 0 => nr = 0

\* Eligible by the definition: not beyond the weighted average of the queue.
EarliestEligible(p) ==
    /\ Excess(p) <= 0
    /\ \A q \in Slots :
          state[q] = "RUNNABLE" /\ Excess(q) <= 0 => vdeadline[p] <= vdeadline[q]

\* scheduler() picks a process whenever there is one, and if nothing was woken
\* during its passes, the eligible one with the earliest virtual deadline, for all
\* its uint64 arithmetic.
PicksEarliest ==
    /\ NeverIdle
    /\ Chosen /\ best # 0 /\ fresh => EarliestEligible(best)

\* scheduler() "selects the eligible runnable process with the earliest virtual
\* deadline" (.github/README.md:19-20), so never the one that is ahead of all the
\* others on the run queue: it is beyond the average, before and after any wakeup.
NeverFurthestAhead ==
    Chosen /\ best # 0 /\ nr > 1 =>
       \E q \in Slots \ {best} : OnRq(q) /\ vruntime[q] >= vruntime[best]

\* The deadline leaves room for what remains of the slice, whatever the order of
\* ticks, sleeps, setnice and fork: a process does not overrun its deadline.
DeadlineCoversSlice ==
    \A p \in Live : vdeadline[p] >= vruntime[p] + remain_slice[p] * tick_delta(weight[p])

\* The fields of a process agree after every tick, wakeup, fork and setnice.
EevdfInv == TypeOK /\ DeadlineCoversSlice

\* Weighted fairness: among processes that compute all the time with fixed
\* weights, none gets ahead of its share by more than one of its slices brings.
FairShare ==
    steady => \A p \in Slots :
       OnRq(p) => Excess(p) <= eevdf_slice_delta(weight[p]) * (TotalWeight - weight[p])

\* No runnable process waits for ever while the others compute, fork and change
\* their nice values.
NoStarvation ==
    \A p \in Slots :
       state[p] = "RUNNABLE" /\ calls \subseteq {"fork", "setnice"} ~> state[p] = "RUNNING"
==============================================================================
