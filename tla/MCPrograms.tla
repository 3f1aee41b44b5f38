------------------------------- MODULE MCPrograms -------------------------------
(***************************************************************************)
(* The shell at work, the heap of a program, and the pure functions over   *)
(* all small inputs: part says which of them a behaviour is about, input   *)
(* is the input.                                                           *)
(***************************************************************************)
EXTENDS Shell, Text, Umalloc

CONSTANTS MaxTokens,    \* the longest line for the parser
          Size,         \* bytes of memory for the string functions
          MaxRe,        \* the longest pattern of grep
          MaxPath,      \* the longest path
          Width         \* the bits of an int

VARIABLES part, input

vars == <<shVars, heapVars, part, input>>

Typed ==
    {<<"src", "|", "cat">>, <<"src", "|", "cat", "|", "cat">>, <<"src", "|", "true">>,
     <<"src", "&", ";", "true">>, <<"(", "src", ";", "src", ")", "|", "cat", ">", "f">>,
     <<"cat", "<", "f">>, <<"cat", "<", "g">>, <<"nosuch">>, <<"src", "(">>,
     <<"cd", "d">>, <<"#", "x">>, <<"exit">>}

Tokens == {"a", "<", ">", "|", "&", ";", "(", ")"}
Memories == [0 .. Size - 1 -> 0 .. 2]
Copies == {c \in [mem : Memories, dst : 0 .. Size - 1, src : 0 .. Size - 1, n : 0 .. Size] :
               c.dst + c.n <= Size /\ c.src + c.n <= Size}
Chars == {"x", ".", "*", "^", "$"}
Greps == [re : BoundedSeq(Chars, MaxRe), text : BoundedSeq({"x", "$"}, MaxRe - 1)]
Paths == BoundedSeq({"/", "x", "y"}, MaxPath)
Mod == 2 ^ Width
Ints == [xx : -(Mod \div 2) .. Mod \div 2 - 1, base : {10, 16}, sign : BOOLEAN]

Init ==
    /\ ShInit /\ HeapInit
    /\ \/ part = "sh" /\ input = <<>>
       \/ /\ m.ofile[SH][3] = None
          /\ \/ part \in {"parse", "heap"} /\ input = <<>>
             \/ part = "mem" /\ input \in Copies
             \/ part = "grep" /\ input \in Greps
             \/ part = "path" /\ input \in Paths
             \/ part = "int" /\ input \in Ints

Type == part = "parse" /\ Len(input) < MaxTokens /\ \E t \in Tokens : input' = Append(input, t)

Next ==
    \/ part = "sh" /\ ShNext /\ UNCHANGED <<heapVars, part, input>>
    \/ part = "heap" /\ HeapNext /\ UNCHANGED <<shVars, part, input>>
    \/ Type /\ UNCHANGED <<shVars, heapVars, part>>

Spec == Init /\ [][Next]_vars

-------------------------------------------------------------------------------
(* Properties *)

\* parsecmd(): a line is accepted when the grammar has it, with the command that the
\* grammar gives, and all its words are terminated by a NUL.
ParsedRight ==
    part = "parse" =>
        LET r == ParseCmd(input) IN
        /\ LineOf(input, 1, Len(input) + 1) = IF r.ok THEN {r.cmd} ELSE {}
        /\ r.ok => Nulterminate(r.cmd) = {i \in DOMAIN input : input[i] = "a"}

\* What the string at s has in its first n bytes, up to a NUL.
Prefix(mem, s, n) ==
    LET nuls == {i \in 0 .. n - 1 : mem[s + i] = 0}
        len == IF nuls = {} THEN n ELSE Least(nuls) IN [i \in 1 .. len |-> mem[s + i - 1]]
Sign(x) == IF x < 0 THEN -1 ELSE IF x > 0 THEN 1 ELSE 0
Compare(s, t) ==
    LET n == IF Len(s) < Len(t) THEN Len(s) ELSE Len(t)
        diff == {i \in 1 .. n : s[i] # t[i]} IN
    IF diff = {} THEN Sign(Len(s) - Len(t)) ELSE Sign(s[Least(diff)] - t[Least(diff)])

\* kernel/string.c: memmove() copies what was there before, also when the regions
\* overlap; the copies of strings write no byte outside their n bytes and keep the
\* string, padded or cut and, from safestrcpy(), always terminated; the comparisons
\* order the strings.
StringsRight ==
    part = "mem" =>
        LET i == input
            dest == i.dst .. i.dst + i.n - 1
            apart == dest \cap (i.src .. i.src + i.n - 1) = {}
            moved == Memmove(i.mem, i.dst, i.src, i.n)
            copied == Strncpy(i.mem, i.dst, i.src, i.n)
            safe == Safestrcpy(i.mem, i.dst, i.src, i.n)
            text == Prefix(i.mem, i.src, i.n) IN
        /\ moved = [a \in DOMAIN i.mem |-> IF a \in dest THEN i.mem[i.src + a - i.dst] ELSE i.mem[a]]
        /\ \A a \in DOMAIN i.mem \ dest : copied[a] = i.mem[a] /\ safe[a] = i.mem[a]
        /\ apart => /\ \A k \in 1 .. i.n : copied[i.dst + k - 1] = IF k <= Len(text) THEN text[k] ELSE 0
                    /\ i.n > 0 => /\ \E a \in dest : safe[a] = 0
                                  /\ Prefix(safe, i.dst, i.n) = Prefix(i.mem, i.src, i.n - 1)
        /\ Sign(Strncmp(i.mem, i.dst, i.src, i.n)) = Compare(Prefix(i.mem, i.dst, i.n), text)
        /\ Memcmp(i.mem, i.dst, i.src, i.n) = 0 <=> \A k \in 0 .. i.n - 1 : i.mem[i.dst + k] = i.mem[i.src + k]
        /\ (\E a \in dest : i.mem[a] = 0) => Strlen(i.mem, i.dst) = Len(Prefix(i.mem, i.dst, i.n))

RECURSIVE Value(_, _)
Value(digits, base) ==
    IF digits = <<>> THEN 0 ELSE Value(Front(digits), base) * base + Last(digits)

\* skipelem(): a path is cut into its longest parts without a slash, each cut to
\* DIRSIZ.  printint(): what is printed is the number, also for the least int, and has
\* no leading zero.
NamesAndNumbersRight ==
    /\ part = "path" =>
        LET starts == {k \in DOMAIN input : input[k] # "/" /\ (k = 1 \/ input[k - 1] = "/")}
            Part(k) == LET ends == {j \in k .. Len(input) : \A h \in k .. j : input[h] # "/"} IN
                       SubSeq(input, k, IF Cardinality(ends) > 2 THEN k + 1 ELSE k + Cardinality(ends) - 1) IN
        /\ Len(Names(input, 2)) = Cardinality(starts)
        /\ \A k \in starts : Names(input, 2)[Cardinality({j \in starts : j <= k})] = Part(k)
    /\ part = "int" =>
        LET p == Printint(input.xx, input.base, input.sign, Mod)
            v == Value(p.digits, input.base) IN
        /\ (IF p.neg THEN -v ELSE v) = IF input.sign THEN input.xx ELSE input.xx % Mod
        /\ Len(p.digits) > 1 => p.digits[1] # 0

\* The characters of a pattern with whether a star follows; a star that follows a
\* character is not one itself.
RECURSIVE Items(_)
Items(re) ==
    IF re = <<>> THEN <<>>
    ELSE IF Len(re) >= 2 /\ re[2] = "*" THEN <<[c |-> re[1], star |-> TRUE]>> \o Items(Rest(re, 3))
    ELSE <<[c |-> re[1], star |-> FALSE]>> \o Items(Tail(re))

\* grep, match(): a text matches when the items of the pattern stand for stretches of
\* it that follow each other, from the start for ^ and to the end for $.
MatchRight ==
    part = "grep" =>
        LET anchored == input.re # <<>> /\ input.re[1] = "^"
            all == Items(IF anchored THEN Tail(input.re) ELSE input.re)
            toEnd == all # <<>> /\ Last(all) = [c |-> "$", star |-> FALSE]
            items == IF toEnd THEN Front(all) ELSE all
            n == Len(input.text)
            Fits(item, lo, hi) ==
                /\ item.star \/ hi = lo + 1
                /\ \A k \in lo + 1 .. hi : item.c \in {".", input.text[k]} IN
        Match(input.re, input.text) <=>
            \E cut \in [0 .. Len(items) -> 0 .. n] :
                /\ anchored => cut[0] = 0
                /\ toEnd => cut[Len(items)] = n
                /\ \A k \in 1 .. Len(items) : cut[k - 1] <= cut[k] /\ Fits(items[k], cut[k - 1], cut[k])

\* The pure functions on text, string.c, skipelem(), printint() and match(), compute
\* what their definitions above say, for every input.
TextRight == StringsRight /\ NamesAndNumbersRight /\ MatchRight
===============================================================================
