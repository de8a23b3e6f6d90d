------------------------------ MODULE FileTable ------------------------------
(***************************************************************************)
(* Open files (kernel/file.c, and dup, close, open, pipe, fork and exit    *)
(* where they use descriptors): the table of files with their reference    *)
(* counts, the descriptors of each process, and the two ends of a pipe.    *)
(*                                                                         *)
(* fileclose drops the last reference under ftable.lock and closes the     *)
(* pipe after it (pend); sys_pipe takes its two files one by one (held),   *)
(* and closes them one by one when it fails.                               *)
(* A pipe holds at most PIPESIZE items; module Pipe has its bytes.         *)
(***************************************************************************)
EXTENDS Integers, Sequences, FiniteSets, FiniteSetsExt

CONSTANTS Procs, NFILE, NOFILE, PIPESIZE, NPipes, Null

Console == <<"console">>     \* names are sequences of characters

Files == 1 .. NFILE
Fds   == 0 .. NOFILE - 1
Pipes == 1 .. NPipes

VARIABLES
    ofile,       \* per process: the file behind each descriptor
    file,        \* the table: ref, type, obj, readable, writable, off
    pipe,        \* the pipes: readopen, writeopen, items in it, label of its creator
    pend,        \* per process: the pipe end that fileclose has still to close
    held,        \* per process: files that sys_pipe has taken and has still to install or to close
    size,        \* items in each file of the disk, Null if there is none
    room         \* how many files, descriptors and pipes this system has room for, and
                 \* whether copyout may find no page

ftvars == <<ofile, file, pipe, pend, held, size, room>>

NoFile == [ref |-> 0, type |-> "NONE", obj |-> Null, readable |-> FALSE, writable |-> FALSE, off |-> 0]
NoFds  == [fd \in Fds |-> Null]
NoPipe == [readopen |-> FALSE, writeopen |-> FALSE, n |-> 0, label |-> Null]

FtInit ==
    /\ ofile = [p \in Procs |-> NoFds]
    /\ file = [f \in Files |-> NoFile]
    /\ pipe = [g \in Pipes |-> NoPipe]
    /\ pend = [p \in Procs |-> Null]
    /\ held = [p \in Procs |-> <<>>]

FileOf(p, fd) == file[ofile[p][fd]]
FreeFds(p)    == {fd \in Fds : fd < room.nofile /\ ofile[p][fd] = Null}
FreeFiles     == {f \in Files : f <= room.nfile /\ file[f].ref = 0}
FreePipes     == {g \in Pipes : g <= room.npipe /\ ~pipe[g].readopen /\ ~pipe[g].writeopen}
Fdalloc(p)    == Min(FreeFds(p))
Filealloc     == Min(FreeFiles)

------------------------------------------------------------------------------
\* fileclose of f by p, up to the release of ftable.lock
Fileclose(p, f) ==
    IF file[f].ref > 1
    THEN file' = [file EXCEPT ![f].ref = @ - 1] /\ UNCHANGED pend
    ELSE /\ file' = [file EXCEPT ![f] = NoFile]
         /\ pend' = [pend EXCEPT ![p] = IF file[f].type = "PIPE" THEN [pipe |-> file[f].obj, writable |-> file[f].writable]
                                        ELSE @]

\* sys_close, and one round of the loop in kexit
Close(p, fd) ==
    /\ ofile[p][fd] # Null
    /\ ofile' = [ofile EXCEPT ![p][fd] = Null]
    /\ Fileclose(p, ofile[p][fd])
    /\ UNCHANGED <<pipe, held, size, room>>

EndClosed(g, writable) ==
    IF writable THEN [pipe[g] EXCEPT !.writeopen = FALSE] ELSE [pipe[g] EXCEPT !.readopen = FALSE]

\* pipeclose; the page is freed with the second end
Pipeclose(p) ==
    /\ pend[p] # Null
    /\ LET q == EndClosed(pend[p].pipe, pend[p].writable) IN
       pipe' = [pipe EXCEPT ![pend[p].pipe] = IF q.readopen \/ q.writeopen THEN q ELSE NoPipe]
    /\ pend' = [pend EXCEPT ![p] = Null]
    /\ UNCHANGED <<ofile, file, held, size, room>>

Dup(p, fd) ==
    /\ ofile[p][fd] # Null /\ FreeFds(p) # {}
    /\ ofile' = [ofile EXCEPT ![p][Fdalloc(p)] = ofile[p][fd]]
    /\ file' = [file EXCEPT ![ofile[p][fd]].ref = @ + 1]
    /\ UNCHANGED <<pipe, pend, held, size, room>>

\* The copy of the parent's descriptors in kfork
Share(p, q) ==
    /\ ofile' = [ofile EXCEPT ![q] = ofile[p]]
    /\ file' = [f \in Files |-> [file[f] EXCEPT !.ref = @ + Cardinality({fd \in Fds : ofile[p][fd] = f})]]
    /\ UNCHANGED <<pipe, pend, held, size, room>>

------------------------------------------------------------------------------
\* sys_open of the console or of a file, which CREATE makes and TRUNC empties
CanOpen(name, mode) == size[name] # Null \/ "CREATE" \in mode
Opened(name, mode) ==
    [NoFile EXCEPT !.ref = 1, !.type = IF name = Console THEN "DEVICE" ELSE "INODE", !.obj = name,
                   !.readable = "WRONLY" \notin mode, !.writable = mode \cap {"WRONLY", "RDWR"} # {}]
Made(name, mode) ==
    IF size[name] # Null /\ "TRUNC" \notin mode THEN size ELSE [size EXCEPT ![name] = 0]

Open(p, name, mode) ==
    /\ CanOpen(name, mode) /\ FreeFiles # {} /\ FreeFds(p) # {}
    /\ ofile' = [ofile EXCEPT ![p][Fdalloc(p)] = Filealloc]
    /\ file' = [file EXCEPT ![Filealloc] = Opened(name, mode)]
    /\ size' = Made(name, mode)
    /\ UNCHANGED <<pipe, pend, held, room>>

\* No file, no descriptor, or nothing to open; create comes first and stays.
OpenFails(p, name, mode) ==
    /\ ~CanOpen(name, mode) \/ FreeFiles = {} \/ FreeFds(p) = {}
    /\ size' = IF CanOpen(name, mode) /\ size[name] = Null THEN [size EXCEPT ![name] = 0] ELSE size
    /\ UNCHANGED <<ofile, file, pipe, pend, held, room>>

------------------------------------------------------------------------------
(* sys_pipe: two filealloc, then the pipe and the descriptors.  When a part of it   *)
(* fails, what is held is closed file by file.                                      *)

PipeFile(p) ==
    /\ Len(held[p]) < 2 /\ FreeFiles # {}
    /\ file' = [file EXCEPT ![Filealloc].ref = 1]
    /\ held' = [held EXCEPT ![p] = Append(@, Filealloc)]
    /\ UNCHANGED <<ofile, pipe, pend, size, room>>

\* pipealloc fails: no file, or no page
PipeNone(p) ==
    /\ IF Len(held[p]) < 2 THEN FreeFiles = {} ELSE FreePipes = {}
    /\ UNCHANGED ftvars

PipeEnd(g, writable) ==
    [NoFile EXCEPT !.ref = 1, !.type = "PIPE", !.obj = g, !.readable = ~writable, !.writable = writable]

\* The rest of pipealloc
PipeMade(p, label) ==
    /\ Len(held[p]) = 2 /\ FreePipes # {}
    /\ pipe' = [pipe EXCEPT ![Min(FreePipes)] = [readopen |-> TRUE, writeopen |-> TRUE, n |-> 0, label |-> label]]
    /\ file' = [file EXCEPT ![held[p][1]] = PipeEnd(Min(FreePipes), FALSE), ![held[p][2]] = PipeEnd(Min(FreePipes), TRUE)]
    /\ UNCHANGED <<pend, size, room>>

\* Descriptors for the two ends: the second is the lowest after the first
PipeFds(p) == <<Fdalloc(p), Min(FreeFds(p) \ {Fdalloc(p)})>>

PipeDone(p, label) ==
    /\ PipeMade(p, label) /\ Cardinality(FreeFds(p)) >= 2
    /\ ofile' = [ofile EXCEPT ![p] = [@ EXCEPT ![PipeFds(p)[1]] = held[p][1], ![PipeFds(p)[2]] = held[p][2]]]
    /\ held' = [held EXCEPT ![p] = <<>>]

\* Mutant: the descriptor of the read end stays.
PipeNoFdsKeeps(p, label) ==
    /\ PipeMade(p, label) /\ Cardinality(FreeFds(p)) < 2
    /\ ofile' = IF FreeFds(p) = {} THEN ofile ELSE [ofile EXCEPT ![p][Fdalloc(p)] = held[p][1]]
    /\ UNCHANGED held

\* No two descriptors: the first, if there was one, is taken back.
PipeNoFds(p, label) ==
    /\ PipeMade(p, label) /\ Cardinality(FreeFds(p)) < 2
    /\ UNCHANGED <<ofile, held>>

\* copyout fails: both descriptors are taken back.
PipeNoCopy(p, label) ==
    /\ PipeMade(p, label) /\ Cardinality(FreeFds(p)) >= 2 /\ room.lowmem
    /\ UNCHANGED <<ofile, held>>

\* One fileclose on the way out of a call that failed
PipeUndo(p) ==
    /\ held[p] # <<>>
    /\ Fileclose(p, Head(held[p]))
    /\ held' = [held EXCEPT ![p] = Tail(@)]
    /\ UNCHANGED <<ofile, pipe, size, room>>

------------------------------------------------------------------------------
(* fileread and filewrite of one item *)

PipeOf(p, fd) == pipe[FileOf(p, fd).obj]

\* A read that has to wait for the other end, and a write
ReadBlocks(p, fd) ==
    FileOf(p, fd).readable /\ FileOf(p, fd).type = "PIPE" /\ PipeOf(p, fd).n = 0 /\ PipeOf(p, fd).writeopen
WriteBlocks(p, fd) ==
    FileOf(p, fd).writable /\ FileOf(p, fd).type = "PIPE" /\ PipeOf(p, fd).n = PIPESIZE /\ PipeOf(p, fd).readopen

\* A read that returns an item (not 0 or -1), and a write that succeeds
Readable(p, fd) ==
    LET f == FileOf(p, fd) IN
    f.readable /\ (CASE f.type = "PIPE" -> pipe[f.obj].n > 0 [] f.type = "INODE" -> f.off < size[f.obj] [] OTHER -> FALSE)
Writable(p, fd) ==
    FileOf(p, fd).writable /\ (FileOf(p, fd).type = "PIPE" => PipeOf(p, fd).readopen)

Moved(p, fd, k) ==
    LET f == ofile[p][fd] IN
    /\ pipe' = IF file[f].type = "PIPE" THEN [pipe EXCEPT ![file[f].obj].n = @ + k] ELSE pipe
    /\ file' = IF file[f].type = "INODE" THEN [file EXCEPT ![f].off = @ + 1] ELSE file
    /\ size' = IF file[f].type = "INODE" /\ k > 0 THEN [size EXCEPT ![file[f].obj] = Max({@, file[f].off + 1})] ELSE size
    /\ UNCHANGED <<ofile, pend, held, room>>

Fileread(p, fd)  == Readable(p, fd) /\ Moved(p, fd, -1)
Filewrite(p, fd) == ~WriteBlocks(p, fd) /\ Writable(p, fd) /\ Moved(p, fd, 1)

------------------------------------------------------------------------------
(* Properties *)

Refs(f) ==
    Cardinality({x \in Procs \X Fds : ofile[x[1]][x[2]] = f})
    + Cardinality({p \in Procs : \E k \in DOMAIN held[p] : held[p][k] = f})
EndHeld(g, writable) ==
    \/ \E f \in Files : file[f].type = "PIPE" /\ file[f].obj = g /\ file[f].writable = writable
    \/ \E p \in Procs : pend[p] = [pipe |-> g, writable |-> writable]

\* Every count is the number of descriptors that lead to the file (so it is freed with
\* the last one, and by no failed call), and a pipe's end is open exactly while a file
\* for it exists or its last close is still on the way to pipeclose.
FilesInv ==
    /\ \A f \in Files : file[f].ref = Refs(f) /\ (file[f].ref = 0 => file[f] = NoFile)
    /\ \A g \in Pipes :
         /\ pipe[g].readopen <=> EndHeld(g, FALSE)
         /\ pipe[g].writeopen <=> EndHeld(g, TRUE)
         /\ pipe[g].n \in 0 .. PIPESIZE
    /\ \A f, e \in Files : f # e /\ file[f].type = "PIPE" /\ file[e].type = "PIPE" =>
         <<file[f].obj, file[f].writable>> # <<file[e].obj, file[e].writable>>
==============================================================================
