SPECIFICATION FairSpec
CONSTANTS
    Procs = {1, 2, 3, 4, 5, 6, 7}
    NFILE = 6
    NOFILE = 5
    PIPESIZE = 1
    NPipes = 2
    MAXARGS = 4
    Null = Null
    Programs <- MCPrograms
    Loads <- MCLoads
INVARIANTS FilesInv ParseExact RunsAsWritten
PROPERTY LinesEnd
CHECK_DEADLOCK FALSE
