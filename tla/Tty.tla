---------------------------------- MODULE Tty ----------------------------------
(***************************************************************************)
(* kernel/tty.c: the input of the terminal, ttyintr() and ttyread(), with  *)
(* sleep(), wakeup() and kill() as they use them.  input.lock is held from *)
(* the test of the buffer to the moment a reader is SLEEPING, but kill()   *)
(* does not take it: the test and the sleep are two steps.                 *)
(***************************************************************************)
EXTENDS Integers, Sequences

CONSTANTS Reader,
          INPUT_BUF,
          IndexMod,     \* 2^32: the indices are of type uint
          Start,       \* the indices after the keys typed so far
          MaxKeys,     \* bound on the keys typed
          Want         \* the sizes of read()

Char == {"x", "nl", "D"}    \* any character, '\n' and ^D

VARIABLES
    buf, r, w, e,   \* struct input
    rd,             \* each reader: where it is, how many bytes it still wants
    killed,
    keys,           \* how many keys have been typed
    got             \* the characters got out of the buffer last

input == <<buf, r, w, e>>
ttyVars == <<input, rd, killed, keys, got>>

TtyInit ==
    /\ buf = [i \in 0 .. INPUT_BUF - 1 |-> "x"]
    /\ r = Start /\ w = Start /\ e = Start
    /\ rd = [p \in Reader |-> [pc |-> "out", n |-> 0]]
    /\ killed = [p \in Reader |-> FALSE]
    /\ keys = 0
    /\ got = <<>>

Plus(i, k) == (i + k) % IndexMod
Between(i, j) == [k \in 1 .. (j - i) % IndexMod |-> buf[Plus(i, k - 1) % INPUT_BUF]]

LockFree == \A p \in Reader : rd[p].pc # "sleepy"

\* Mutant: nobody is woken.
Wakeup_Nobody == rd

\* wakeup(&input.r)
Wakeup == [p \in Reader |-> IF rd[p].pc = "asleep" THEN [rd[p] EXCEPT !.pc = "in"] ELSE rd[p]]

-------------------------------------------------------------------------------
(* ttyintr(), for one character of getc() *)

Key == LockFree /\ keys < MaxKeys /\ keys' = keys + 1 /\ UNCHANGED <<killed, got>>

\* Mutant: a full buffer is not handed over.
Complete_Newline(c, end) == c = "nl"

\* c == '\n' || input.e == input.r+INPUT_BUF
Complete(c, end) == c = "nl" \/ end = Plus(r, INPUT_BUF)

\* default:
Default(c) ==
    /\ Key
    /\ (e - r) % IndexMod < INPUT_BUF
    /\ buf' = [buf EXCEPT ![e % INPUT_BUF] = c]
    /\ e' = Plus(e, 1)
    /\ IF Complete(c, e') THEN w' = e' /\ rd' = Wakeup ELSE UNCHANGED <<w, rd>>
    /\ UNCHANGED r

\* C('H'), '\x7f'
Backspace ==
    /\ Key /\ e # w
    /\ e' = Plus(e, -1)
    /\ UNCHANGED <<buf, r, w, rd>>

\* C('W'): up to the last newline that has not been handed over.
KillLine ==
    LET line == Between(w, e)
        nls == {k \in DOMAIN line : line[k] = "nl"} IN
    /\ Key
    /\ e' = Plus(w, IF nls = {} THEN 0 ELSE CHOOSE k \in nls : \A j \in nls : j <= k)
    /\ UNCHANGED <<buf, r, w, rd>>

\* C('C'), or kill(): killcur() kills whoever ran last.
Kill(p) ==
    /\ ~killed[p]
    /\ killed' = [killed EXCEPT ![p] = TRUE]
    /\ rd' = [rd EXCEPT ![p].pc = IF @ = "asleep" THEN "in" ELSE @]
    /\ UNCHANGED <<input, keys, got>>

-------------------------------------------------------------------------------
(* ttyread() *)

Enter(p, n) ==
    /\ rd[p].pc = "out" /\ ~killed[p]
    /\ rd' = [rd EXCEPT ![p] = [pc |-> "in", n |-> n]]
    /\ UNCHANGED <<input, killed, keys, got>>

\* The loop under input.lock: it ends with n characters, a newline or ^D, or finds
\* the buffer empty.
Read(p) ==
    LET s == Between(r, w)
        ends == {k \in DOMAIN s : k = rd[p].n \/ s[k] \in {"nl", "D"}}
        k == IF ends = {} THEN Len(s) ELSE CHOOSE i \in ends : \A j \in ends : i <= j IN
    /\ rd[p].pc = "in" /\ LockFree
    /\ r' = Plus(r, k)
    /\ got' = IF k = 0 THEN got ELSE SubSeq(s, 1, k)
    /\ rd' = [rd EXCEPT ![p] =
                 IF ends # {} \/ killed[p] THEN [pc |-> "out", n |-> 0]
                 ELSE [pc |-> "sleepy", n |-> @.n - k]]
    /\ UNCHANGED <<buf, w, e, killed, keys>>

Sleep(p) ==
    /\ rd[p].pc = "sleepy"
    /\ rd' = [rd EXCEPT ![p].pc = "asleep"]
    /\ UNCHANGED <<input, killed, keys, got>>

TtyNext ==
    \/ \E c \in Char : Default(c)
    \/ Backspace \/ KillLine
    \/ \E p \in Reader : Kill(p) \/ Read(p) \/ Sleep(p) \/ \E n \in Want : Enter(p, n)

-------------------------------------------------------------------------------
(* Properties *)

\* ttyintr(), ttyread(): the edited lines are handed over, a full buffer too, and read in
\* order, also when the indices wrap around.
TtyAbstract == INSTANCE LineInput WITH
    NL <- "nl", Size <- INPUT_BUF, line <- Between(w, e), ready <- Between(r, w)
TtyRefinement == TtyAbstract!Spec

\* ttyintr() wakes the readers: what is handed over is read, as long as a reader lives.
InputIsRead == r # w ~> r = w \/ \A p \in Reader : killed[p]
===============================================================================
