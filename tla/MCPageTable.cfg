CONSTANTS
    t1 = t1
    t2 = t2
    t3 = t3
    t4 = t4
    Rest = t4
    Pages = {1, 2, 3, 4, 5, 6, 7, 8, 9, 10, 11, 12, 13, 14, 15}
    Threads = {t1, t2, t3, t4}
    Null = Null
    Junk = Junk
    Boot = t1
    Procs = {t1, t2}
    Fan = 3
    MMAPBASE = 7
    MmapEnd = 19
    Sizes = {3}
    Touched = {1, 8, 9, 10, 18}
    Ranges <- MCRanges
    Buffers <- MCBuffers
    Loads <- MCLoads
SPECIFICATION PTSpec
INVARIANTS KAllocInv TreeInv MunmapTidy CopyExact
CHECK_DEADLOCK FALSE
