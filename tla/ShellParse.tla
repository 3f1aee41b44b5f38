------------------------------ MODULE ShellParse ------------------------------
(***************************************************************************)
(* The parser of userspace/sh.c on the tokens that gettoken() returns, and *)
(* the grammar it should accept.  A word stands for its place in the line: *)
(* argv[] and the file of a redirection are places.  An operator of the    *)
(* parser returns whether it panicked, the command and the place after it. *)
(***************************************************************************)
EXTENDS Integers, Sequences, FiniteSets

CONSTANT MAXARGS

Symbols == {"<", ">", "+", "|", "&", ";", "(", ")"}    \* "+" is >>

ExecCmd(argv) == [type |-> "EXEC", argv |-> argv]
RedirCmd(cmd, file, fd) == [type |-> "REDIR", cmd |-> cmd, file |-> file, fd |-> fd]
PipeCmd(left, right) == [type |-> "PIPE", left |-> left, right |-> right]
ListCmd(left, right) == [type |-> "LIST", left |-> left, right |-> right]
BackCmd(cmd) == [type |-> "BACK", cmd |-> cmd]

\* gettoken() and peek() at place i of the line.
Token(s, i) == IF i > Len(s) THEN "end" ELSE IF s[i] \in Symbols THEN s[i] ELSE "a"
Peek(s, i, toks) == Token(s, i) \in toks

Ok(cmd, i) == [ok |-> TRUE, cmd |-> cmd, at |-> i]
Panic == [ok |-> FALSE, cmd |-> ExecCmd(<<>>), at |-> 0]

-------------------------------------------------------------------------------
(* The parser *)

\* parseredirs()
RECURSIVE ParseRedirs(_, _, _)
ParseRedirs(cmd, s, i) ==
    IF ~Peek(s, i, {"<", ">", "+"}) THEN Ok(cmd, i)
    ELSE IF Token(s, i + 1) # "a" THEN Panic
    ELSE ParseRedirs(RedirCmd(cmd, i + 1, IF Token(s, i) = "<" THEN 0 ELSE 1), s, i + 2)

\* parseredirs() puts its nodes around the execcmd that parseexec() still adds
\* arguments to.
RECURSIVE AddArg(_, _)
AddArg(cmd, place) ==
    IF cmd.type = "EXEC" THEN ExecCmd(Append(cmd.argv, place))
    ELSE [cmd EXCEPT !.cmd = AddArg(@, place)]

\* argc >= MAXARGS
TooMany(argc) == argc >= MAXARGS

\* The loop of parseexec(), after the redirections in front.
RECURSIVE ParseArgs(_, _, _)
ParseArgs(r, s, argc) ==
    IF ~r.ok \/ Peek(s, r.at, {"|", ")", "&", ";"}) \/ Token(s, r.at) = "end" THEN r
    ELSE IF Token(s, r.at) # "a" \/ TooMany(argc + 1) THEN Panic
    ELSE ParseArgs(ParseRedirs(AddArg(r.cmd, r.at), s, r.at + 1), s, argc + 1)

RECURSIVE ParseLine(_, _)
RECURSIVE ParseBack(_, _)
RECURSIVE ParsePipe(_, _)

\* parseblock()
ParseBlock(s, i) ==
    LET r == ParseLine(s, i + 1) IN
    IF r.ok /\ Peek(s, r.at, {")"}) THEN ParseRedirs(r.cmd, s, r.at + 1) ELSE Panic

\* parseexec()
ParseExec(s, i) ==
    IF Peek(s, i, {"("}) THEN ParseBlock(s, i)
    ELSE ParseArgs(ParseRedirs(ExecCmd(<<>>), s, i), s, 0)

\* parsepipe()
ParsePipe(s, i) ==
    LET l == ParseExec(s, i) IN
    IF ~l.ok \/ ~Peek(s, l.at, {"|"}) THEN l
    ELSE LET r == ParsePipe(s, l.at + 1) IN
         IF r.ok THEN Ok(PipeCmd(l.cmd, r.cmd), r.at) ELSE Panic

\* The loop of parseline().
ParseBack(r, s) ==
    IF ~r.ok \/ ~Peek(s, r.at, {"&"}) THEN r ELSE ParseBack(Ok(BackCmd(r.cmd), r.at + 1), s)

\* Mutant: what follows a semicolon is one pipeline.
ParseLine_OnePipe(s, i) ==
    LET l == ParseBack(ParsePipe(s, i), s) IN
    IF ~l.ok \/ ~Peek(s, l.at, {";"}) THEN l
    ELSE LET r == ParsePipe(s, l.at + 1) IN
         IF r.ok THEN Ok(ListCmd(l.cmd, r.cmd), r.at) ELSE Panic

\* parseline()
ParseLine(s, i) ==
    LET l == ParseBack(ParsePipe(s, i), s) IN
    IF ~l.ok \/ ~Peek(s, l.at, {";"}) THEN l
    ELSE LET r == ParseLine(s, l.at + 1) IN
         IF r.ok THEN Ok(ListCmd(l.cmd, r.cmd), r.at) ELSE Panic

\* nulterminate(): the words that get a NUL after them.
RECURSIVE Nulterminate(_)
Nulterminate(cmd) ==
    CASE cmd.type = "EXEC" -> {cmd.argv[i] : i \in DOMAIN cmd.argv}
      [] cmd.type = "REDIR" -> Nulterminate(cmd.cmd) \cup {cmd.file}
      [] cmd.type \in {"PIPE", "LIST"} -> Nulterminate(cmd.left) \cup Nulterminate(cmd.right)
      [] cmd.type = "BACK" -> Nulterminate(cmd.cmd)

\* parsecmd(), without nulterminate().
ParseCmd(s) ==
    LET r == ParseLine(s, 1) IN
    IF r.ok /\ r.at = Len(s) + 1 THEN r ELSE Panic

-------------------------------------------------------------------------------
(* The grammar: the commands, none or one, that the tokens lo .. hi - 1 stand for *)

Depth(s, lo, i) ==
    Cardinality({k \in lo .. i - 1 : s[k] = "("}) - Cardinality({k \in lo .. i - 1 : s[k] = ")"})
Outside(s, lo, hi, t) == {k \in lo .. hi - 1 : s[k] = t /\ Depth(s, lo, k) = 0}
First(S) == CHOOSE k \in S : \A j \in S : k <= j

\* The redirections at places R, the first innermost.
RECURSIVE Redirected(_, _, _)
Redirected(s, R, cmd) ==
    IF R = {} THEN cmd
    ELSE Redirected(s, R \ {First(R)}, RedirCmd(cmd, First(R) + 1, IF s[First(R)] = "<" THEN 0 ELSE 1))

RECURSIVE LineOf(_, _, _)
SimpleOf(s, lo, hi) ==
    LET R == {k \in lo .. hi - 1 : s[k] \in {"<", ">", "+"}}
        words == {k \in lo .. hi - 1 : Token(s, k) = "a" /\ k - 1 \notin R}
        argv == CHOOSE f \in [1 .. Cardinality(words) -> words] : \A i, j \in DOMAIN f : i < j => f[i] < f[j] IN
    IF Cardinality(words) < MAXARGS /\ (\A k \in R : k + 1 < hi /\ Token(s, k + 1) = "a")
       /\ (\A k \in lo .. hi - 1 : k \in R \/ Token(s, k) = "a")
    THEN {Redirected(s, R, ExecCmd(argv))} ELSE {}
BlockOf(s, lo, hi) ==
    LET closes == {k \in lo .. hi - 1 : s[k] = ")" /\ Depth(s, lo, k) = 1} IN
    IF closes = {} THEN {}
    ELSE LET c == First(closes)
             R == {k \in c + 1 .. hi - 1 : (k - c) % 2 = 1} IN
         IF (hi - c) % 2 = 1 /\ \A k \in c + 1 .. hi - 1 : IF k \in R THEN s[k] \in {"<", ">", "+"} ELSE Token(s, k) = "a"
         THEN {Redirected(s, R, cmd) : cmd \in LineOf(s, lo + 1, c)} ELSE {}
ExecOf(s, lo, hi) == IF lo < hi /\ s[lo] = "(" THEN BlockOf(s, lo, hi) ELSE SimpleOf(s, lo, hi)

RECURSIVE PipeOf(_, _, _)
PipeOf(s, lo, hi) ==
    LET bars == Outside(s, lo, hi, "|") IN
    IF bars = {} THEN ExecOf(s, lo, hi)
    ELSE {PipeCmd(l, r) : l \in ExecOf(s, lo, First(bars)), r \in PipeOf(s, First(bars) + 1, hi)}

RECURSIVE BackOf(_, _, _)
BackOf(s, lo, hi) ==
    IF lo < hi /\ s[hi - 1] = "&" THEN {BackCmd(cmd) : cmd \in BackOf(s, lo, hi - 1)}
    ELSE IF Outside(s, lo, hi, "&") = {} THEN PipeOf(s, lo, hi) ELSE {}

LineOf(s, lo, hi) ==
    LET semis == Outside(s, lo, hi, ";") IN
    IF semis = {} THEN BackOf(s, lo, hi)
    ELSE {ListCmd(l, r) : l \in BackOf(s, lo, First(semis)), r \in LineOf(s, First(semis) + 1, hi)}
===============================================================================
