--------------------------------- MODULE MCSh ---------------------------------
(* Lines for the shell, with tables that are large enough and ones that are not. *)
EXTENDS Sh

MCPrograms == [echo |-> <<"e">>, cat |-> <<"c">>]

Room(nproc, nfile, nofile) == [nproc |-> nproc, nfile |-> nfile, nofile |-> nofile, npipe |-> 2, lowmem |-> FALSE]
Ample  == Room(7, 6, 5)
NoPage == [Ample EXCEPT !.npipe = 1]
LowMem(r) == [r EXCEPT !.lowmem = TRUE]
Disk == [n \in {Console, <<"f">>, <<"g">>, <<"h">>} |-> IF n \in {Console, <<"f">>} THEN 1 ELSE Null]
NoConsole == [Disk EXCEPT ![Console] = Null]

On(lines, tables) == [lines |-> lines, room |-> tables, disk |-> Disk, on |-> TRUE]

EchoCat    == <<"e", " ", "e", "|", "c", "\n">>
EchoEcho   == <<" ", "e", " ", "e", " ", "e", "|", "e", "\n">>
ThreeStage == <<"e", " ", "e", "|", "c", "|", "c", "\n">>
Block      == <<"(", "e", " ", "e", ";", "e", ")", ">", "g", "\n">>
Back       == <<"c", "<", "f", ">", ">", "g", "&", "\n">>
Missing    == <<"c", "<", "h", "\n">>
Unknown    == <<"x", "|", "c", ">", "g", ">", "h", "\n">>
BackList   == <<"c", "<", "f", "|", "c", "&", ";", "e", " ", "e", "\n">>
Nested     == <<"(", "e", " ", "e", ";", "c", "<", "f", ")", "|", "c", "\n">>
BackPipe   == <<"e", "|", "c", "&", ";", "e", "|", "c", "\n">>
Cd         == <<"c", "d", " ", "f", "\n">>
Plain      == <<"e", " ", "e", "\n">>

\* Every line of up to ParseLength characters, for the parser alone
ParseLength == 4
Texts == UNION {[1 .. n -> {"e", " ", "|", ">", "<", ";", "&", "(", ")"}] : n \in 1 .. ParseLength}

MCLoads ==
    {On(<<s>>, Ample) : s \in {EchoCat, EchoEcho, ThreeStage, Block, Missing, Unknown, BackList, Nested}}
    \cup {On(<<EchoCat>>, r) : r \in {Room(3, 6, 5), Room(4, 6, 5), Room(7, 1, 5), Room(7, 2, 5), Room(7, 6, 4), Room(2, 6, 5)}}
    \cup {On(<<ThreeStage>>, NoPage), On(<<EchoCat>>, LowMem(Ample)), On(<<BackPipe>>, LowMem(Room(4, 5, 5))), On(<<BackPipe>>, Room(5, 3, 5))}
    \cup {On(<<BackList>>, Room(5, 4, 5)), On(<<Back, Plain>>, Ample), On(<<<<"\n">>, Cd, <<")", "\n">>, <<>>>>, Ample),
          [On(<<Plain>>, Ample) EXCEPT !.disk = NoConsole]}
    \cup {[On(<<s>>, Ample) EXCEPT !.on = FALSE] : s \in Texts}
==============================================================================
