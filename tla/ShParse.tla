------------------------------- MODULE ShParse -------------------------------
(***************************************************************************)
(* The parser of the shell (user/sh.c): a line of characters is turned     *)
(* into a tree by recursive descent, with pointers into the line for words *)
(* that nulterminate cuts out of it at the end.  Reference is the grammar  *)
(* the parser is checked against, read off the tokens of the line.         *)
(***************************************************************************)
EXTENDS Integers, Sequences, SequencesExt

CONSTANT MAXARGS

Whitespace == {" ", "\n"}
Symbols    == {"<", "|", ">", "&", ";", "(", ")"}
NUL        == "0"

At(s, i) == IF i <= Len(s) THEN s[i] ELSE NUL
IsWord(c) == c \notin Whitespace \cup Symbols \cup {NUL}

\* The first position from i on whose character is not among chars, or does not
\* belong to a word; at the latest the end of the line
SkipOver(s, i, chars) == CHOOSE j \in i .. Len(s) + 1 :
    At(s, j) \notin chars /\ \A k \in i .. j - 1 : s[k] \in chars
SkipWord(s, i) == CHOOSE j \in i .. Len(s) + 1 :
    ~IsWord(At(s, j)) /\ \A k \in i .. j - 1 : IsWord(s[k])

EXECCMD(argv) == [type |-> "EXEC", argv |-> argv]
REDIRCMD(cmd, r) == [type |-> "REDIR", cmd |-> cmd, file |-> r.file, mode |-> r.mode, fd |-> r.fd]
PIPECMD(l, r) == [type |-> "PIPE", left |-> l, right |-> r]
LISTCMD(l, r) == [type |-> "LIST", left |-> l, right |-> r]
BACKCMD(c)    == [type |-> "BACK", cmd |-> c]
Syntax        == [type |-> "SYNTAX"]          \* panic: the line is not run

------------------------------------------------------------------------------
\* A token: its kind, where it starts (q) and ends (eq), and where the next may start
TokenTo(s, tok, q, eq) == [tok |-> tok, q |-> q, eq |-> eq, i |-> SkipOver(s, eq, Whitespace)]
TokenAt(s, q) ==
    CASE At(s, q) = NUL -> TokenTo(s, NUL, q, q)
      [] At(s, q) = ">" /\ At(s, q + 1) = ">" -> TokenTo(s, "+", q, q + 2)
      [] IsWord(At(s, q)) -> TokenTo(s, "a", q, SkipWord(s, q))
      [] OTHER -> TokenTo(s, At(s, q), q, q + 1)
Gettoken(s, i) == TokenAt(s, SkipOver(s, i, Whitespace))
Peek(s, i, toks) == At(s, SkipOver(s, i, Whitespace)) \in toks

\* A result r of a parser: the command so far, where it goes on, and whether it panicked
Parsed(cmd, i) == [cmd |-> cmd, i |-> i, ok |-> TRUE]
Panics == [cmd |-> Syntax, i |-> 1, ok |-> FALSE]

Redirection(tok, w) ==
    [file |-> <<w.q, w.eq>>, fd |-> IF tok = "<" THEN 0 ELSE 1,
     mode |-> CASE tok = "<" -> {"RDONLY"} [] tok = ">" -> {"WRONLY", "CREATE", "TRUNC"} [] OTHER -> {"WRONLY", "CREATE"}]

\* parseredirs: the redirections rs from i on; parseexec and parseblock wrap them
\* around the command, the first innermost.
RECURSIVE Parseredirs(_, _, _)
ParseredirsTo(s, tok, w, rs) ==
    IF w.tok # "a" THEN [rs |-> <<>>, i |-> 1, ok |-> FALSE]
    ELSE Parseredirs(s, w.i, Append(rs, Redirection(tok, w)))
Parseredirs(s, i, rs) ==
    IF ~Peek(s, i, {"<", ">"}) THEN [rs |-> rs, i |-> i, ok |-> TRUE]
    ELSE ParseredirsTo(s, Gettoken(s, i).tok, Gettoken(s, Gettoken(s, i).i), rs)
Wrapped(cmd, rs) == FoldLeft(REDIRCMD, cmd, rs)

RECURSIVE Parseargs(_, _, _), Parseexec(_, _), Parsepipe(_, _), Parseline(_, _), Parseback(_, _)

\* The loop of parseexec, after the redirections r
ParseargsOn(s, t, r, argv) ==
    CASE t.tok = NUL -> Parsed(Wrapped(EXECCMD(argv), r.rs), t.i)
      [] t.tok # NUL /\ (t.tok # "a" \/ Len(argv) + 1 >= MAXARGS) -> Panics
      [] OTHER -> Parseargs(s, Parseredirs(s, t.i, r.rs), Append(argv, <<t.q, t.eq>>))
Parseargs(s, r, argv) ==
    CASE ~r.ok -> Panics
      [] r.ok /\ Peek(s, r.i, {"|", ")", "&", ";"}) -> Parsed(Wrapped(EXECCMD(argv), r.rs), r.i)
      [] OTHER -> ParseargsOn(s, Gettoken(s, r.i), r, argv)

ParseblockRedirs(b, r) == IF r.ok THEN Parsed(Wrapped(b.cmd, r.rs), r.i) ELSE Panics
ParseblockEnd(s, b) ==
    IF ~b.ok \/ ~Peek(s, b.i, {")"}) THEN Panics
    ELSE ParseblockRedirs(b, Parseredirs(s, Gettoken(s, b.i).i, <<>>))
Parseblock(s, i) == ParseblockEnd(s, Parseline(s, Gettoken(s, i).i))

Parseexec(s, i) ==
    IF Peek(s, i, {"("}) THEN Parseblock(s, i) ELSE Parseargs(s, Parseredirs(s, i, <<>>), <<>>)

JoinedPipe(l, r) == IF r.ok THEN Parsed(PIPECMD(l.cmd, r.cmd), r.i) ELSE Panics
JoinedList(l, r) == IF r.ok THEN Parsed(LISTCMD(l.cmd, r.cmd), r.i) ELSE Panics

ParsepipeOn(s, l) ==
    IF l.ok /\ Peek(s, l.i, {"|"}) THEN JoinedPipe(l, Parsepipe(s, Gettoken(s, l.i).i)) ELSE l
Parsepipe(s, i) == ParsepipeOn(s, Parseexec(s, i))

\* parseline, after its pipeline l
Parseback(s, l) ==
    CASE l.ok /\ Peek(s, l.i, {"&"}) -> Parseback(s, Parsed(BACKCMD(l.cmd), Gettoken(s, l.i).i))
      [] l.ok /\ Peek(s, l.i, {";"}) -> JoinedList(l, Parseline(s, Gettoken(s, l.i).i))
      [] OTHER -> l
Parseline(s, i) == Parseback(s, Parsepipe(s, i))

------------------------------------------------------------------------------
\* nulterminate: where it writes a NUL
RECURSIVE Nulterminate(_)

\* Mutant: the words of a command in the background are left as they are.
NulterminateNotBack(c) ==
    CASE c.type = "EXEC" -> {w[2] : w \in Range(c.argv)}
      [] c.type = "REDIR" -> Nulterminate(c.cmd) \cup {c.file[2]}
      [] c.type \in {"PIPE", "LIST"} -> Nulterminate(c.left) \cup Nulterminate(c.right)
      [] OTHER -> {}

Nulterminate(c) ==
    CASE c.type = "EXEC" -> {w[2] : w \in Range(c.argv)}
      [] c.type = "REDIR" -> Nulterminate(c.cmd) \cup {c.file[2]}
      [] c.type \in {"PIPE", "LIST"} -> Nulterminate(c.left) \cup Nulterminate(c.right)
      [] c.type = "BACK" -> Nulterminate(c.cmd)
      [] OTHER -> {}

\* The string at the start of word w in a line with NULs in those places, and the
\* tree with the strings in it
String(s, nuls, w) == SubSeq(s, w[1], (CHOOSE j \in w[1] .. Len(s) + 1 :
    /\ j \in nuls \cup {Len(s) + 1}
    /\ nuls \cap w[1] .. j - 1 = {}) - 1)

RECURSIVE WithStrings(_, _, _)
WithStrings(s, nuls, c) ==
    CASE c.type = "EXEC" -> EXECCMD([k \in DOMAIN c.argv |-> String(s, nuls, c.argv[k])])
      [] c.type = "REDIR" -> [c EXCEPT !.cmd = WithStrings(s, nuls, @), !.file = String(s, nuls, @)]
      [] c.type \in {"PIPE", "LIST"} -> [c EXCEPT !.left = WithStrings(s, nuls, @), !.right = WithStrings(s, nuls, @)]
      [] c.type = "BACK" -> [c EXCEPT !.cmd = WithStrings(s, nuls, @)]
      [] OTHER -> c

ParsecmdEnd(s, r) ==
    IF ~r.ok \/ SkipOver(s, r.i, Whitespace) # Len(s) + 1 THEN Syntax
    ELSE WithStrings(s, Nulterminate(r.cmd), r.cmd)
Parsecmd(s) == ParsecmdEnd(s, Parseline(s, 1))

------------------------------------------------------------------------------
(* The language of the shell, on the tokens of the line:                     *)
(*   line ::= back [; line]    back ::= pipe | back &    pipe ::= cmd [| pipe] *)
(*   cmd  ::= ( line ) redirection*  |  words and redirections               *)

\* The second > of a >> does not start a token.
Arrows(s, i) == {k \in 1 .. i - 1 : \A j \in k .. i - 1 : s[j] = ">"}
Starts(s) == {i \in 1 .. Len(s) :
    \/ IsWord(s[i]) /\ ~(i > 1 /\ IsWord(s[i - 1]))
    \/ s[i] \in Symbols /\ (s[i] = ">" => Cardinality(Arrows(s, i)) % 2 = 0)}
WordFrom(s, i) == SubSeq(s, i, CHOOSE j \in i .. Len(s) :
    (\A k \in i .. j : IsWord(s[k])) /\ ~IsWord(At(s, j + 1)))
Token(s, i) ==
    IF IsWord(s[i]) THEN [tok |-> "a", str |-> WordFrom(s, i)]
    ELSE [tok |-> IF s[i] = ">" /\ At(s, i + 1) = ">" THEN "+" ELSE s[i], str |-> <<>>]
Nth(S, k) == CHOOSE i \in S : Cardinality({j \in S : j <= i}) = k
Tokens(s) == [k \in 1 .. Cardinality(Starts(s)) |-> Token(s, Nth(Starts(s), k))]

Depth(T, k) == Cardinality({j \in 1 .. k : T[j].tok = "("}) - Cardinality({j \in 1 .. k : T[j].tok = ")"})
Outside(T, toks) == {k \in 1 .. Len(T) : T[k].tok \in toks /\ Depth(T, k) = 0}
Upto(T, k) == SubSeq(T, 1, k)
After(T, k) == SubSeq(T, k + 1, Len(T))

Arrow == {"<", ">", "+"}
IsFile(T, k) == k > 1 /\ T[k - 1].tok \in Arrow
Simple(T) ==
    /\ \A k \in 1 .. Len(T) : T[k].tok \in Arrow \cup {"a"} /\ (IsFile(T, k) => T[k].tok = "a")
    /\ T # <<>> => Last(T).tok = "a"
ArgsOf(T) ==
    LET ks == {k \in 1 .. Len(T) : T[k].tok = "a" /\ ~IsFile(T, k)} IN
    [j \in 1 .. Cardinality(ks) |-> T[Nth(ks, j)].str]
RedirsOf(T) ==
    LET ks == {k \in 1 .. Len(T) : T[k].tok \in Arrow} IN
    [j \in 1 .. Cardinality(ks) |->
        [Redirection(T[Nth(ks, j)].tok, [q |-> 0, eq |-> 0]) EXCEPT !.file = T[Nth(ks, j) + 1].str]]

RECURSIVE RefLine(_), RefBack(_), RefPipe(_), WellFormed(_)
RefBlock(T, k) ==
    IF Simple(After(T, k)) /\ ArgsOf(After(T, k)) = <<>>
    THEN Wrapped(RefLine(SubSeq(T, 2, k - 1)), RedirsOf(After(T, k))) ELSE Syntax
RefCmd(T) ==
    IF T # <<>> /\ T[1].tok = "(" THEN RefBlock(T, Min({k \in 1 .. Len(T) : Depth(T, k) = 0}))
    ELSE IF Simple(T) /\ Len(ArgsOf(T)) < MAXARGS THEN Wrapped(EXECCMD(ArgsOf(T)), RedirsOf(T)) ELSE Syntax
RefPipe(T) ==
    LET bars == Outside(T, {"|"}) IN
    IF bars = {} THEN RefCmd(T) ELSE PIPECMD(RefCmd(Upto(T, Min(bars) - 1)), RefPipe(After(T, Min(bars))))
RefBack(T) ==
    IF T # <<>> /\ Last(T).tok = "&" THEN BACKCMD(RefBack(Front(T)))
    ELSE IF Outside(T, {"&"}) = {} THEN RefPipe(T) ELSE Syntax
RefLine(T) ==
    LET semis == Outside(T, {";"}) IN
    IF semis = {} THEN RefBack(T) ELSE LISTCMD(RefBack(Upto(T, Min(semis) - 1)), RefLine(After(T, Min(semis))))

WellFormed(c) ==
    CASE c.type = "EXEC" -> TRUE
      [] c.type \in {"REDIR", "BACK"} -> WellFormed(c.cmd)
      [] c.type \in {"PIPE", "LIST"} -> WellFormed(c.left) /\ WellFormed(c.right)
      [] OTHER -> FALSE

RefOf(T) ==
    IF (\A k \in 1 .. Len(T) : Depth(T, k) >= 0) /\ Depth(T, Len(T)) = 0
    THEN IF WellFormed(RefLine(T)) THEN RefLine(T) ELSE Syntax
    ELSE Syntax
Reference(s) == RefOf(Tokens(s))
==============================================================================
