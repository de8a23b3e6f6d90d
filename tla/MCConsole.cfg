CONSTANTS
    p1 = p1
    p2 = p2
    c1 = c1
    c2 = c2
    None = None
    Procs = {p1, p2}
    Cpus = {c1, c2}
    BootCpu = c1
    Locks <- MCLocks
    Workloads <- MCWorkloads
    INPUT_BUF_SIZE = 2
    Batch = 1
    FifoSize = 2
    Word = 4
SPECIFICATION Spec
INVARIANT ConsoleInv
INVARIANT CpuInv
PROPERTY CallsReturn
CHECK_DEADLOCK FALSE
