---------------------------------- MODULE Text ----------------------------------
(***************************************************************************)
(* Functions on strings and numbers: kernel/string.c, skipelem() of        *)
(* kernel/fs.c, printint() of kernel/tty.c and the matcher of              *)
(* userspace/grep.c.  A string is a sequence; memory is a function from    *)
(* addresses to bytes, 0 being NUL.                                        *)
(***************************************************************************)
EXTENDS Integers, Sequences, SequencesExt

-------------------------------------------------------------------------------
(* kernel/string.c *)

Upto(n) == [i \in 1 .. n |-> i - 1]
Down(n) == [i \in 1 .. n |-> n - i]

\* Mutant: always from the front.
CopyOrder_Front(dst, src, n) == Upto(n)

\* s < d && s + n > d
CopyOrder(dst, src, n) == IF src < dst /\ src + n > dst THEN Down(n) ELSE Upto(n)

Memmove(mem, dst, src, n) ==
    LET Copy(m, i) == [m EXCEPT ![dst + i] = m[src + i]] IN FoldLeft(Copy, mem, CopyOrder(dst, src, n))

Memset(mem, dst, c, n) == [a \in DOMAIN mem |-> IF a \in dst .. dst + n - 1 THEN c ELSE mem[a]]

RECURSIVE Memcmp(_, _, _, _)
Memcmp(mem, p, q, n) ==
    IF n = 0 THEN 0 ELSE IF mem[p] # mem[q] THEN mem[p] - mem[q] ELSE Memcmp(mem, p + 1, q + 1, n - 1)

RECURSIVE Strncmp(_, _, _, _)
Strncmp(mem, p, q, n) ==
    IF n > 0 /\ mem[p] # 0 /\ mem[p] = mem[q] THEN Strncmp(mem, p + 1, q + 1, n - 1)
    ELSE IF n = 0 THEN 0 ELSE mem[p] - mem[q]

\* The first loop of strncpy() and safestrcpy(): memory, and where it stopped.
RECURSIVE CopyString(_, _, _, _)
CopyString(mem, s, t, n) ==
    IF n = 0 THEN [mem |-> mem, s |-> s, n |-> 0]
    ELSE LET m == [mem EXCEPT ![s] = mem[t]] IN
         IF m[s] = 0 THEN [mem |-> m, s |-> s + 1, n |-> n - 1] ELSE CopyString(m, s + 1, t + 1, n - 1)

Strncpy(mem, s, t, n) ==
    LET c == CopyString(mem, s, t, n) IN Memset(c.mem, c.s, 0, c.n)

Safestrcpy(mem, s, t, n) ==
    IF n <= 0 THEN mem ELSE LET c == CopyString(mem, s, t, n - 1) IN [c.mem EXCEPT ![c.s] = 0]

RECURSIVE Strlen(_, _)
Strlen(mem, s) == IF mem[s] = 0 THEN 0 ELSE 1 + Strlen(mem, s + 1)

-------------------------------------------------------------------------------
(* skipelem() *)

RECURSIVE Slashes(_)
Slashes(path) == IF path # <<>> /\ Head(path) = "/" THEN Slashes(Tail(path)) ELSE path
RECURSIVE Name(_)
Name(path) == IF path # <<>> /\ Head(path) # "/" THEN <<Head(path)>> \o Name(Tail(path)) ELSE <<>>

\* The name, at most DIRSIZ long, and the rest; or none.
Skipelem(path, DIRSIZ) ==
    LET p == Slashes(path)
        name == Name(p) IN
    [found |-> p # <<>>,
     name |-> SubSeq(name, 1, IF Len(name) >= DIRSIZ THEN DIRSIZ ELSE Len(name)),
     rest |-> Slashes(SubSeq(p, Len(name) + 1, Len(p)))]

\* The names that namex() takes from a path.
RECURSIVE Names(_, _)
Names(path, DIRSIZ) ==
    LET e == Skipelem(path, DIRSIZ) IN IF e.found THEN <<e.name>> \o Names(e.rest, DIRSIZ) ELSE <<>>

-------------------------------------------------------------------------------
(* printint() *)

RECURSIVE Digits(_, _)
Digits(x, base) == (IF x < base THEN <<>> ELSE Digits(x \div base, base)) \o <<x % base>>

\* x = -xx, of type uint
Magnitude(xx, mod) == (0 - xx) % mod

\* "-" stands for the sign.
Printint(xx, base, sign, mod) ==
    IF sign /\ xx < 0 THEN [neg |-> TRUE, digits |-> Digits(Magnitude(xx, mod), base)]
    ELSE [neg |-> FALSE, digits |-> Digits(xx % mod, base)]

-------------------------------------------------------------------------------
(* userspace/grep.c *)

Rest(s, i) == SubSeq(s, i, Len(s))


RECURSIVE Matchhere(_, _)
RECURSIVE Matchstar(_, _, _)
Matchhere(re, text) ==
    IF re = <<>> THEN TRUE
    ELSE IF Len(re) >= 2 /\ re[2] = "*" THEN Matchstar(re[1], Rest(re, 3), text)
    ELSE IF re = <<"$">> THEN text = <<>>
    ELSE text # <<>> /\ (re[1] = "." \/ re[1] = text[1]) /\ Matchhere(Tail(re), Tail(text))

Matchstar(c, re, text) ==
    \/ Matchhere(re, text)
    \/ text # <<>> /\ (Head(text) = c \/ c = ".") /\ Matchstar(c, re, Tail(text))

Match(re, text) ==
    IF re # <<>> /\ Head(re) = "^" THEN Matchhere(Tail(re), text)
    ELSE \E i \in 1 .. Len(text) + 1 : Matchhere(re, Rest(text, i))
===============================================================================
