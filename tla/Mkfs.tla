--------------------------------- MODULE Mkfs ---------------------------------
(***************************************************************************)
(* mkfs/mkfs.c: the image a machine boots with, as a disk of module Inode. *)
(* A file to install is a record with its name and its cells.              *)
(***************************************************************************)
EXTENDS Inode

\* Appending cell x to inode i of image m; blocks are taken in order.
Append1(m, i, x) ==
    LET c   == m.di[i]
        fbn == c.size \div BSIZE
        ind == c.addrs[NDIRECT]
        New(k) == [m EXCEPT !.di[i].addrs[k] = m.freeblock, !.freeblock = @ + 1]
        \* the image with an indirect block, and then with the block for the cell
        m1  == IF fbn >= NDIRECT /\ ind = Zero THEN New(NDIRECT) ELSE m
        i1  == m1.di[i].addrs[NDIRECT]
        m2  == IF fbn < NDIRECT
               THEN IF c.addrs[fbn] = Zero THEN New(fbn) ELSE m
               ELSE IF m1.blk[i1][fbn - NDIRECT] = Zero
                    THEN [m1 EXCEPT !.blk[i1][fbn - NDIRECT] = m1.freeblock, !.freeblock = @ + 1]
                    ELSE m1
        b   == IF fbn < NDIRECT THEN m2.di[i].addrs[fbn] ELSE m2.blk[i1][fbn - NDIRECT]
    IN  [m2 EXCEPT !.blk[b][c.size % BSIZE] = x, !.di[i].size = @ + 1]

Iappend(m, i, cells) == FoldLeft(LAMBDA a, x : Append1(a, i, x), m, cells)

MkIalloc(m, type) ==
    [m EXCEPT !.di[m.freeinode] = [FreeDinode EXCEPT !.type = type, !.nlink = 1],
              !.freeinode = @ + 1]

Install(m, f) ==
    LET i == m.freeinode
        a == Iappend(MkIalloc(m, "file"), ROOTINO, <<<<f.name, i>>>>)
    IN  [Iappend(a, i, f.cells) EXCEPT !.text[i] = [k \in DOMAIN f.cells |-> {f.cells[k]}]]

\* The size of the root directory is rounded up to the next block, also when it ends on one.
RootSize(off) == (off \div BSIZE + 1) * BSIZE

Mkfs(files) ==
    LET empty == CHOOSE m \in [di : [Inums -> {FreeDinode}], used : {{}}, blk : [Blocks -> {ZeroBlock}],
                               text : [Inums -> {<<>>}], stray : {{}}, freeinode : {1}, freeblock : {FirstBlock}] :
                    TRUE
        root  == Iappend(MkIalloc(empty, "dir"), ROOTINO, <<<<".", ROOTINO>>, <<"..", ROOTINO>>>>)
        all   == FoldLeft(Install, root, files)
        m     == [all EXCEPT !.di[ROOTINO].size = RootSize(@)]
    IN  [di |-> m.di, used |-> FirstBlock .. m.freeblock - 1, blk |-> m.blk,
         logged |-> {}, under |-> NoUnder, text |-> m.text, stray |-> {}]
===============================================================================
