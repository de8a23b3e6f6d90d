------------------------------- MODULE Console -------------------------------
(***************************************************************************)
(* The console (kernel/console.c), its UART (kernel/uart.c), the clock and *)
(* the traps that connect them to processes (kernel/trap.c), on CPUs whose *)
(* interrupts may strike whenever they are on.                             *)
(*                                                                         *)
(* A context is a process or the scheduler of a CPU.  Its kernel stack is  *)
(* the sequence todo of the steps it still has to take; an interrupt puts  *)
(* the steps of its handler on top.  A process with nothing to do is in    *)
(* user mode.  Which process a scheduler picks is left open here.          *)
(***************************************************************************)
EXTENDS SpinLock, SequencesExt

CONSTANTS
    Procs,
    BootCpu,            \* cpuid 0, the one that counts ticks
    Workloads,          \* calls of each process, bytes typed, CPUs and timers, for all initial states
    INPUT_BUF_SIZE,
    Batch,              \* bytes consolewrite passes to uartwrite at a time
    FifoSize,           \* bytes the UART can hold for transmission
    Word                \* uint counters are modulo Word

ASSUME ConsoleAssumption ==
    /\ BootCpu \in Cpus /\ Procs \cap Cpus = {} /\ None \notin Procs
    /\ Word \in Nat /\ INPUT_BUF_SIZE \in 1 .. Word - 1 /\ Word % INPUT_BUF_SIZE = 0
    /\ Batch \in Nat \ {0} /\ FifoSize \in Nat \ {0}

VARIABLES
    started,  \* the CPUs that run (CPUS of the Makefile), and those whose timer goes off
    run,      \* the context each CPU executes
    todo,     \* the kernel stack of each context
    proc,     \* per process: state, chan, killed, intena and locals of its call
    script,   \* the calls each process has still to make
    cons,     \* buf, r, w, e
    uart,     \* the device: bytes to send, tx interrupt, bytes received, interrupt claimed
    tx_busy,
    line,     \* history: the bytes stored and not erased, from the first on
    taken     \* history: how many of them readers took

vars == <<cpu, holder, started, run, todo, proc, script, cons, uart, tx_busy, line, taken>>
soft == <<started, script, cons, uart, tx_busy, line, taken>>
hard == <<cpu, holder, run>>

Ctx   == Procs \cup Cpus
Minus(a, b) == (a - b) % Word

\* The context of CPU c is about to do op.
Now(c, op) == todo[run[c]] # <<>> /\ Head(todo[run[c]])[1] = op
Arg(c)     == Head(todo[run[c]])[2]
Goes(c, more) == todo' = [todo EXCEPT ![run[c]] = more \o Tail(@)]
Under(l, steps) == <<<<"acquire", l>>>> \o steps \o <<<<"release", l>>>>
Panic(c, why) == todo' = [todo EXCEPT ![run[c]] = <<<<"panic", why>>>>] /\ UNCHANGED <<hard, proc, soft>>

Wakeup(chan) ==
    [p \in Procs |-> IF proc[p].state = "SLEEPING" /\ proc[p].chan = chan
                     THEN [proc[p] EXCEPT !.state = "RUNNABLE"] ELSE proc[p]]

------------------------------------------------------------------------------
(* Locks and context switches *)

\* acquire: interrupts off, then the swap; spinning is told apart only when it must wait
Acquire(c) ==
    /\ Now(c, "acquire")
    /\ IF AcquirePanics(c, Arg(c)) THEN Panic(c, "acquire")
       ELSE /\ AcquireTry(c, Arg(c))
            /\ Goes(c, IF holder[Arg(c)] = None THEN <<>> ELSE <<<<"spin", Arg(c)>>>>)
            /\ UNCHANGED <<run, proc, soft>>

Spin(c) ==
    /\ Now(c, "spin")
    /\ AcquireGot(c, Arg(c))
    /\ Goes(c, <<>>)
    /\ UNCHANGED <<run, proc, soft>>

ReleaseStep(c) ==
    /\ Now(c, "release")
    /\ IF ReleasePanics(c, Arg(c)) THEN Panic(c, "release")
       ELSE Release(c, Arg(c)) /\ Goes(c, <<>>) /\ UNCHANGED <<run, proc, soft>>

\* The CPU is left to its scheduler, which releases p->lock and turns interrupts on.
Idle == [noff |-> 0, intena |-> TRUE, sie |-> TRUE]
ToScheduler(c) == cpu' = [cpu EXCEPT ![c] = Idle] /\ run' = [run EXCEPT ![c] = c]

\* sleep(chan, l): p->lock is taken, l released, and sched finds only p->lock held.
Sleep(c, chan, l) ==
    IF cpu[c].noff # 1 \/ holder[l] # c THEN Panic(c, "sched locks")
    ELSE /\ ToScheduler(c)
         /\ holder' = [holder EXCEPT ![l] = None]
         /\ proc' = [proc EXCEPT ![run[c]] = [@ EXCEPT !.state = "SLEEPING", !.chan = chan,
                                                       !.intena = cpu[c].intena]]
         /\ todo' = [todo EXCEPT ![run[c]] = <<<<"unlock", 0>>, <<"acquire", l>>>> \o Tail(@)]
         /\ UNCHANGED soft

\* The slice is used up (or not).
Yield(c) ==
    /\ Now(c, "yield")
    /\ \/ Goes(c, <<>>) /\ UNCHANGED <<hard, proc, soft>>
       \/ /\ run[c] \in Procs
          /\ IF cpu[c].noff # 0 THEN Panic(c, "sched locks")
             ELSE /\ ToScheduler(c)
                  /\ Goes(c, <<<<"unlock", 0>>>>)
                  /\ proc' = [proc EXCEPT ![run[c]] = [@ EXCEPT !.state = "RUNNABLE", !.intena = cpu[c].sie]]
                  /\ UNCHANGED <<holder, soft>>

\* Mutant: intena is not saved across swtch.
ResumedIntenaLost(c, p) == [cpu[c] EXCEPT !.noff = 1, !.sie = FALSE, !.intena = cpu[c].sie]

\* CPU c when sched returns in process p, with p->lock held.
Resumed(c, p) == [cpu[c] EXCEPT !.noff = 1, !.sie = FALSE, !.intena = proc[p].intena]

Switch(c, p) ==
    /\ run[c] = c /\ todo[c] = <<>>
    /\ proc[p].state = "RUNNABLE"
    /\ run' = [run EXCEPT ![c] = p]
    /\ cpu' = [cpu EXCEPT ![c] = Resumed(c, p)]
    /\ proc' = [proc EXCEPT ![p].state = "RUNNING", ![p].chan = "none"]
    /\ UNCHANGED <<holder, todo, soft>>

\* release(&p->lock) after sched
Unlock(c) ==
    /\ Now(c, "unlock")
    /\ cpu' = [cpu EXCEPT ![c] = PopOff(@)]
    /\ Goes(c, <<>>)
    /\ UNCHANGED <<holder, run, proc, soft>>

------------------------------------------------------------------------------
(* Traps *)

User(c) == run[c] \in Procs /\ todo[run[c]] = <<>>
Checked(c) == IF User(c) THEN <<<<"check", 0>>>> ELSE <<>>
Trap(c, steps) ==
    /\ cpu[c].sie
    /\ cpu' = [cpu EXCEPT ![c].sie = FALSE]
    /\ todo' = [todo EXCEPT ![run[c]] = steps \o <<<<"sret", 0>>>> \o @]
    /\ UNCHANGED <<holder, run, proc, soft>>

Timer(c) ==
    /\ c \in started.timers
    /\ c = BootCpu \/ run[c] \in Procs      \* else it has no effect
    /\ Trap(c, (IF c = BootCpu THEN Under("tickslock", <<<<"tick", 0>>>>) ELSE <<>>)
            \o Checked(c) \o <<<<"yield", 0>>>>)

Raised == uart.txirq \/ uart.rx # <<>>
External(c) == Raised /\ ~uart.claimed /\ Trap(c, <<<<"claim", 0>>>> \o Checked(c))

\* kexit (see Proc)
Exits(c) ==
    /\ ToScheduler(c)
    /\ proc' = [proc EXCEPT ![run[c]] = [@ EXCEPT !.state = "ZOMBIE", !.call = "none"]]
    /\ todo' = [todo EXCEPT ![run[c]] = <<>>]
    /\ UNCHANGED <<holder, soft>>

\* A killed process exits here instead of returning to user mode.
Check(c) ==
    /\ Now(c, "check")
    /\ IF proc[run[c]].killed THEN Exits(c)
       ELSE Goes(c, <<>>) /\ UNCHANGED <<hard, proc, soft>>

Sret(c) ==
    /\ Now(c, "sret") \/ Now(c, "return")
    /\ cpu' = [cpu EXCEPT ![c].sie = TRUE]
    /\ proc' = IF Now(c, "return") THEN [proc EXCEPT ![run[c]].call = "none"] ELSE proc
    /\ Goes(c, <<>>)
    /\ UNCHANGED <<holder, run, soft>>

CallSteps(call) ==
    CASE call.op = "read"   -> Under("cons", <<<<"read", 0>>>>)
      [] call.op = "write"  -> <<<<"batch", 0>>>>
      [] call.op = "pause"  -> Under("tickslock", <<<<"ticks0", 0>>, <<"pause", 0>>>>)
      [] call.op = "uptime" -> Under("tickslock", <<>>)
      [] call.op = "kill"   -> <<<<"kill", call.arg>>>>

\* The next call of a program, or its exit.
Syscall(c) ==
    /\ User(c)
    /\ IF script[run[c]] = <<>> \/ proc[run[c]].killed THEN Exits(c)
       ELSE LET p == run[c]  call == Head(script[p]) IN
            /\ script' = [script EXCEPT ![p] = Tail(@)]
            /\ proc' = [proc EXCEPT ![p] = [@ EXCEPT !.call = call.op, !.n = call.n, !.got = <<>>,
                                                     !.elapsed = 0]]
            /\ todo' = [todo EXCEPT ![p] = CallSteps(call) \o <<<<"check", 0>>, <<"return", 0>>>>]
            /\ UNCHANGED <<hard, started, cons, uart, tx_busy, line, taken>>

------------------------------------------------------------------------------
(* sys_pause, sys_kill and the clock *)

\* ticks only matters as the ticks gone since ticks0, up to n.
Tick(c) ==
    /\ Now(c, "tick")
    /\ LET up == Wakeup("ticks") IN
       proc' = [p \in Procs |-> [up[p] EXCEPT !.elapsed = IF proc[p].call = "pause" /\ @ < proc[p].n THEN @ + 1 ELSE @]]
    /\ Goes(c, <<>>)
    /\ UNCHANGED <<hard, soft>>

Ticks0(c) ==
    /\ Now(c, "ticks0")
    /\ proc' = [proc EXCEPT ![run[c]].elapsed = 0]
    /\ Goes(c, <<>>)
    /\ UNCHANGED <<hard, soft>>

Pause(c) ==
    /\ Now(c, "pause")
    /\ LET p == run[c] IN
       Goes(c, IF proc[p].elapsed >= proc[p].n \/ proc[p].killed THEN <<>>
               ELSE <<<<"sleep", <<"ticks", "tickslock">>>>, <<"pause", 0>>>>)
    /\ UNCHANGED <<hard, proc, soft>>

SleepStep(c) == Now(c, "sleep") /\ Sleep(c, Arg(c)[1], Arg(c)[2])

Kill(c) ==
    /\ Now(c, "kill")
    /\ proc' = [proc EXCEPT ![Arg(c)] = [@ EXCEPT !.killed = TRUE,
                              !.state = IF @ = "SLEEPING" THEN "RUNNABLE" ELSE @]]
    /\ Goes(c, <<>>)
    /\ UNCHANGED <<hard, soft>>

------------------------------------------------------------------------------
(* The UART: uartwrite, uartputc_sync and uartintr *)

Sent(u) == [u EXCEPT !.tx = @ + 1, !.txirq = FALSE]    \* WriteReg(THR, c)

\* consolewrite: the next batch, unless copying it in fails
Batches(c) ==
    /\ Now(c, "batch")
    /\ LET p == run[c]  nn == IF proc[p].n < Batch THEN proc[p].n ELSE Batch IN
       \/ Goes(c, <<>>) /\ UNCHANGED <<hard, proc, soft>>
       \/ /\ proc[p].n > 0
          /\ proc' = [proc EXCEPT ![p].n = @ - nn]
          /\ Goes(c, Under("tx_lock", <<<<"send", nn>>>>) \o <<<<"batch", 0>>>>)
          /\ UNCHANGED <<hard, soft>>

Send(c) ==
    /\ Now(c, "send")
    /\ CASE Arg(c) = 0 -> Goes(c, <<>>) /\ UNCHANGED <<hard, proc, soft>>
         [] Arg(c) > 0 /\ tx_busy ->
              /\ Goes(c, <<<<"sleep", <<"tx_chan", "tx_lock">>>>, <<"send", Arg(c)>>>>)
              /\ UNCHANGED <<hard, proc, soft>>
         [] OTHER ->
              /\ uart' = Sent(uart)
              /\ tx_busy' = TRUE
              /\ Goes(c, <<<<"send", Arg(c) - 1>>>>)
              /\ UNCHANGED <<hard, proc, started, script, cons, line, taken>>

\* uartputc_sync: push_off, wait for an empty transmitter, write, pop_off
Putc(c) ==
    /\ Now(c, "putc")
    /\ cpu' = [cpu EXCEPT ![c] = PushOff(@)]
    /\ Goes(c, <<<<"idle", 0>>, <<"thr", 0>>>>)
    /\ UNCHANGED <<holder, run, proc, soft>>

IsIdle(c) == Now(c, "idle") /\ uart.tx = 0 /\ Goes(c, <<>>) /\ UNCHANGED <<hard, proc, soft>>

Thr(c) ==
    /\ Now(c, "thr")
    /\ uart' = Sent(uart)
    /\ cpu' = [cpu EXCEPT ![c] = PopOff(@)]
    /\ Goes(c, <<>>)
    /\ UNCHANGED <<holder, run, proc, started, script, cons, tx_busy, line, taken>>

\* Mutant: the interrupt is acknowledged after the transmitter was looked at.
UartIntrLateAck ==
    <<<<"acquire", "tx_lock">>, <<"txdone", 0>>, <<"isr", 0>>, <<"release", "tx_lock">>, <<"getc", 0>>>>

UartIntr == <<<<"isr", 0>>>> \o Under("tx_lock", <<<<"txdone", 0>>>>) \o <<<<"getc", 0>>>>

\* plic_claim; another CPU may have claimed the interrupt by now
Claim(c) ==
    /\ Now(c, "claim")
    /\ IF Raised /\ ~uart.claimed
       THEN uart' = [uart EXCEPT !.claimed = TRUE] /\ Goes(c, UartIntr \o <<<<"complete", 0>>>>)
       ELSE Goes(c, <<>>) /\ UNCHANGED uart
    /\ UNCHANGED <<hard, proc, started, script, cons, tx_busy, line, taken>>

Isr(c) ==
    /\ Now(c, "isr") \/ Now(c, "complete")
    /\ uart' = IF Now(c, "isr") THEN [uart EXCEPT !.txirq = FALSE] ELSE [uart EXCEPT !.claimed = FALSE]
    /\ Goes(c, <<>>)
    /\ UNCHANGED <<hard, proc, started, script, cons, tx_busy, line, taken>>

TxDone(c) ==
    /\ Now(c, "txdone")
    /\ tx_busy' = (tx_busy /\ uart.tx # 0)
    /\ proc' = IF uart.tx = 0 THEN Wakeup("tx_chan") ELSE proc
    /\ Goes(c, <<>>)
    /\ UNCHANGED <<hard, started, script, cons, uart, line, taken>>

Getc(c) ==
    /\ Now(c, "getc")
    /\ IF uart.rx = <<>> THEN Goes(c, <<>>) /\ UNCHANGED uart
       ELSE /\ uart' = [uart EXCEPT !.rx = Tail(@)]
            /\ Goes(c, Under("cons", <<<<"intr", Head(uart.rx)>>>>) \o <<<<"getc", 0>>>>)
    /\ UNCHANGED <<hard, proc, started, script, cons, tx_busy, line, taken>>

\* The device sends a byte; a byte is typed.
Transmit ==
    /\ uart.tx > 0
    /\ uart' = [uart EXCEPT !.tx = @ - 1, !.txirq = @ \/ uart.tx = 1]
    /\ UNCHANGED <<hard, todo, proc, started, script, cons, tx_busy, line, taken>>

Type ==
    /\ uart.typing # <<>>
    /\ uart' = [uart EXCEPT !.rx = Append(@, Head(uart.typing)), !.typing = Tail(@)]
    /\ UNCHANGED <<hard, todo, proc, started, script, cons, tx_busy, line, taken>>

------------------------------------------------------------------------------
(* consoleintr and consoleread, under cons.lock *)

At(i) == cons.buf[i % INPUT_BUF_SIZE]
Erase == [cons EXCEPT !.e = Minus(@, 1)]
Rubout == <<<<"putc", 0>>, <<"putc", 0>>, <<"putc", 0>>>>    \* consputc(BACKSPACE)

Room == Minus(cons.e, cons.r) < INPUT_BUF_SIZE

\* procdump prints; ^U goes on erasing; anything else is echoed, then stored.
ConsoleIntr(c) ==
    /\ Now(c, "intr")
    /\ LET ch == Arg(c)
           erases == ch \in {"^U", "^H"} /\ cons.e # cons.w /\ (ch = "^U" => At(Minus(cons.e, 1)) # "nl")
       IN
       /\ IF erases THEN cons' = Erase /\ line' = Front(line) ELSE UNCHANGED <<cons, line>>
       /\ Goes(c, CASE ch = "^P" -> Under("pr", <<<<"putc", 0>>>>)
                    [] erases -> Rubout \o (IF ch = "^U" THEN <<<<"intr", ch>>>> ELSE <<>>)
                    [] ch \notin {"^P", "^U", "^H", "nul"} /\ Room ->
                         <<<<"putc", 0>>, <<"store", IF ch = "cr" THEN "nl" ELSE ch>>>>
                    [] OTHER -> <<>>)
    /\ UNCHANGED <<hard, proc, started, script, uart, tx_busy, taken>>

\* Mutant: only a newline or an end of file hands the line to the readers.
CommitsLine(ch, n) == ch \in {"nl", "^D"}

Commits(ch, n) == ch \in {"nl", "^D"} \/ n = INPUT_BUF_SIZE

Store(c) ==
    /\ Now(c, "store")
    /\ LET ch == Arg(c)  e == (cons.e + 1) % Word  commit == Commits(ch, Minus(e, cons.r)) IN
       /\ cons' = [cons EXCEPT !.buf = [@ EXCEPT ![cons.e % INPUT_BUF_SIZE] = ch], !.e = e,
                               !.w = IF commit THEN e ELSE @]
       /\ proc' = IF commit THEN Wakeup("cons.r") ELSE proc
       /\ line' = Append(line, ch)
    /\ Goes(c, <<>>)
    /\ UNCHANGED <<hard, started, script, uart, tx_busy, taken>>

\* One round of consoleread's loop; copying the byte out may fail.
Read(c) ==
    /\ Now(c, "read")
    /\ LET p == run[c]  ch == At(cons.r)  n == proc[p].n IN
       CASE n = 0 -> Goes(c, <<>>) /\ UNCHANGED <<hard, proc, soft>>
         [] n > 0 /\ cons.r = cons.w ->
              /\ Goes(c, IF proc[p].killed THEN <<>>
                         ELSE <<<<"sleep", <<"cons.r", "cons">>>>, <<"read", 0>>>>)
              /\ UNCHANGED <<hard, proc, soft>>
         [] OTHER ->
              /\ \/ ch # "^D" /\ proc' = [proc EXCEPT ![p] = [@ EXCEPT !.n = n - 1, !.got = Append(@, ch)]]
                    /\ Goes(c, IF ch = "nl" THEN <<>> ELSE <<<<"read", 0>>>>)
                 \/ Goes(c, <<>>) /\ UNCHANGED proc     \* end of file, or either_copyout = -1
              /\ IF ch = "^D" /\ proc[p].got # <<>> THEN UNCHANGED <<cons, taken>>
                 ELSE cons' = [cons EXCEPT !.r = (@ + 1) % Word] /\ taken' = taken + 1
              /\ UNCHANGED <<hard, started, script, uart, tx_busy, line>>

------------------------------------------------------------------------------
Init ==
    /\ cpu = [c \in Cpus |-> Idle]
    /\ holder = [l \in Locks |-> None]
    /\ run = [c \in Cpus |-> c]
    /\ todo = [x \in Ctx |-> IF x \in Cpus THEN <<>> ELSE <<<<"unlock", 0>>, <<"return", 0>>>>]   \* forkret
    /\ cons = [buf |-> [i \in 0 .. INPUT_BUF_SIZE - 1 |-> "nul"], r |-> 0, w |-> 0, e |-> 0]
    /\ \E load \in Workloads :
         /\ started = [cpus |-> load.cpus, timers |-> load.timers]
         /\ script = load.script
         /\ proc = [p \in Procs |-> [state |-> IF script[p] = <<>> THEN "UNUSED" ELSE "RUNNABLE",
                                     chan |-> "none", killed |-> FALSE, intena |-> TRUE,
                                     call |-> "none", n |-> 0, got |-> <<>>, elapsed |-> 0]]
         /\ uart = [tx |-> 0, txirq |-> FALSE, rx |-> <<>>, claimed |-> FALSE, typing |-> load.typing]
    /\ tx_busy = FALSE
    /\ line = <<>> /\ taken = 0

\* What only the CPU itself can tell: such steps are taken before any other CPU's.
Private == {"unlock", "sret", "return", "yield", "putc", "release", "tick", "ticks0", "intr", "store",
            "batch"}
IsPrivate(c) == todo[run[c]] # <<>> /\ Head(todo[run[c]])[1] \in Private
Turn(c) == c \in started.cpus /\ \A d \in started.cpus : IsPrivate(d) => d = c
NoneBusy == \A d \in started.cpus : ~IsPrivate(d)

Step(c) ==
    /\ Turn(c)
    /\ \/ Acquire(c) \/ Spin(c) \/ ReleaseStep(c) \/ SleepStep(c) \/ Yield(c) \/ Unlock(c)
       \/ Check(c) \/ Sret(c) \/ Tick(c) \/ Ticks0(c) \/ Pause(c) \/ Kill(c)
       \/ Batches(c) \/ Send(c) \/ Putc(c) \/ IsIdle(c) \/ Thr(c)
       \/ Claim(c) \/ Isr(c) \/ TxDone(c) \/ Getc(c) \/ ConsoleIntr(c) \/ Store(c) \/ Read(c)
       \/ NoneBusy /\ Syscall(c)

Others(c) ==
    /\ c \in started.cpus /\ NoneBusy
    /\ Timer(c) \/ External(c) \/ \E p \in Procs : Switch(c, p)

Next ==
    \/ \E c \in Cpus : Step(c) \/ Others(c)
    \/ NoneBusy /\ (Transmit \/ Type)

InHandler(x) == \E i \in 1 .. Len(todo[x]) : todo[x][i][1] = "sret"

\* Programs do not compute for ever: a process in user mode makes its next call.
ThreadStep(p) == \E c \in Cpus : run[c] = p /\ ~InHandler(p) /\ Step(c)

Fairness ==
    /\ \A p \in Procs : SF_vars(ThreadStep(p)) /\ SF_vars(\E c \in Cpus : Switch(c, p))
    /\ \A c \in Cpus : WF_vars(InHandler(run[c]) /\ Step(c))
    /\ SF_vars(\E c \in Cpus : External(c))
    /\ SF_vars(Timer(BootCpu))
    /\ WF_vars(Transmit)

Spec == Init /\ [][Next]_vars /\ Fairness

------------------------------------------------------------------------------
\* The console's data is sound: the ring holds, in order, exactly the bytes typed
\* and neither erased nor taken; a complete line, an end of file or a full ring is
\* always handed to the readers; a read returns at most one line and never the
\* end-of-file mark; the transmitter is never overrun by uartwrite meeting the
\* echo; and nobody sleeps on a condition that already holds, or on a transmitter
\* that will not interrupt again.
ConsoleInv ==
    LET n == Minus(cons.e, cons.r)  done == Minus(cons.w, cons.r) IN
    /\ done <= n /\ n <= INPUT_BUF_SIZE
    /\ Len(line) = taken + n
    /\ \A i \in 0 .. n - 1 : At(cons.r + i) = line[taken + i + 1]
    /\ \A i \in done .. n - 1 : line[taken + i + 1] \notin {"nl", "^D"}
    /\ n = INPUT_BUF_SIZE => done = n
    /\ uart.tx <= FifoSize
    /\ \A p \in Procs :
         /\ \A i \in 1 .. Len(proc[p].got) :
              proc[p].got[i] # "^D" /\ (proc[p].got[i] = "nl" => i = Len(proc[p].got))
         /\ proc[p].state = "SLEEPING" =>
              /\ proc[p].chan = "cons.r" => cons.r = cons.w
              /\ proc[p].chan = "ticks" => proc[p].elapsed < proc[p].n
              /\ proc[p].chan = "tx_chan" => tx_busy
    /\ tx_busy => \/ uart.tx > 0 \/ uart.txirq
                  \/ \E x \in Ctx : \E i \in 1 .. Len(todo[x]) : todo[x][i][1] = "txdone"

\* The discipline of locks and interrupts: a CPU's noff counts exactly what it
\* holds; interrupts are on only when it holds nothing, are on in user mode, in the
\* scheduler and wherever a system call holds no lock, and are off in a handler,
\* also after the handler's process was switched out and in again (sched saves
\* intena); handlers do not nest; and no assertion of spinlock.c or sched fails.
CpuInv ==
    \A c \in Cpus :
      LET x == run[c]
          head == IF todo[x] = <<>> THEN "none" ELSE Head(todo[x])[1]
          extra == IF head \in {"spin", "idle", "thr", "unlock"} THEN 1 ELSE 0
      IN
      /\ head # "panic"
      /\ cpu[c].noff = Cardinality({l \in Locks : holder[l] = c}) + extra
      /\ cpu[c].sie <=> (cpu[c].noff = 0 /\ ~InHandler(x))
      /\ Cardinality({i \in 1 .. Len(todo[x]) : todo[x][i][1] = "sret"}) <= 1
      /\ \A d \in Cpus \ {c} : run[d] # x

\* What is asked of the devices comes: a write and a pause return (or the killed
\* caller exits), whatever the other CPU, the echo and the interrupts do; and input
\* handed to the readers does not stay there while somebody reads.
Due(p) == IF proc[p].call = "read" THEN cons.r # cons.w ELSE proc[p].call # "none"
CallsReturn == \A p \in Procs : Due(p) ~> ~Due(p)
===============================================================================
