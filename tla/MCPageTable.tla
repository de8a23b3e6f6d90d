----------------------------- MODULE MCPageTable -----------------------------
EXTENDS PageTable

CONSTANTS t1, t2, t3, t4

MCRanges == {<<7, 3>>, <<10, 1>>, <<17, 2>>}
MCBuffers == {<<1, 3, 2>>, <<2, 3, 9>>, <<15, 4, 17>>}
L(n, threads, calls) == [pages |-> 1 .. n, threads |-> threads, calls |-> calls]
MCLoads == {L(3, {t1, t2, t3}, 0)} \cup {L(n, {}, 4) : n \in 4 .. 14} \cup {L(15, {}, 5)} \cup {L(4, {t3}, 2)}
===============================================================================
