------------------------------ MODULE ByteFiles ------------------------------
(***************************************************************************)
(* What read(), write() and lseek() promise: a file is a sequence of       *)
(* bytes and an open file has a position in it.  The reads and writes of   *)
(* a file take place one after the other.  Each is at the position that    *)
(* its open file had when it began, and advances, when it ends, the        *)
(* position that the open file has then.  An lseek() may come in between:  *)
(* then one of the two changes of the position may be lost.                *)
(***************************************************************************)
EXTENDS Integers, Sequences

CONSTANTS Proc, File, inode, Ino, Modulus, MaxBytes

VARIABLES bytes,   \* the contents of the files
          off,     \* the position of each open file
          op,      \* the read or write of each process that has begun
          ret,     \* what the last read() of each process returned
          out      \* the system has stopped

vars == <<bytes, off, op, ret, out>>

Nothing == [do |-> "nothing"]

Init ==
    /\ bytes \in [Ino -> Seq(Nat)]
    /\ off = [f \in File |-> 0]
    /\ op = [p \in Proc |-> Nothing]
    /\ ret = [p \in Proc |-> [r |-> 0, bytes |-> <<>>]]
    /\ out = FALSE

Acts(p) == op[p] # Nothing

\* At the position of f, while nobody else reads or writes its file.
Begin(p, f) ==
    /\ ~Acts(p) /\ \A q \in Proc : Acts(q) => inode[op[q].f] # inode[f]
    /\ op'[p] # Nothing
    /\ \E do \in {"read", "write"} :
           op' = [op EXCEPT ![p] = [do |-> do, f |-> f, at |-> off[f], n |-> op'[p].n, sought |-> FALSE]]
    /\ UNCHANGED <<bytes, off, ret, out>>

\* The operation of p ends and has moved r bytes.
End(p, r) ==
    /\ op' = [op EXCEPT ![p] = Nothing]
    /\ \/ off' = [off EXCEPT ![op[p].f] = (@ + r) % Modulus]
       \/ op[p].sought /\ UNCHANGED off
    /\ UNCHANGED out

\* n bytes with value p from a on.
Overwrite(s, p, a, n) ==
    [k \in 1 .. (IF a + n > Len(s) THEN a + n ELSE Len(s)) |->
        IF k - 1 \in a .. a + n - 1 THEN p ELSE s[k]]

\* All bytes are written, unless the place is past the end or the file would be too big.
Write(p) ==
    LET i == inode[op[p].f]
        fits == op[p].at <= Len(bytes[i]) /\ op[p].at + op[p].n <= MaxBytes IN
    /\ op[p].do = "write"
    /\ IF fits
       THEN /\ End(p, op[p].n)
            /\ bytes' = [bytes EXCEPT ![i] = Overwrite(@, p, op[p].at, op[p].n)]
       ELSE End(p, 0) /\ UNCHANGED bytes
    /\ UNCHANGED ret

\* The next bytes, as many as there are; it fails past the end of the file.
Read(p) ==
    LET s == bytes[inode[op[p].f]]
        a == op[p].at
        end == IF a + op[p].n > Len(s) THEN Len(s) ELSE a + op[p].n IN
    /\ op[p].do = "read"
    /\ IF a <= Len(s)
       THEN End(p, end - a) /\ ret' = [ret EXCEPT ![p] = [r |-> end - a, bytes |-> SubSeq(s, a + 1, end)]]
       ELSE End(p, 0) /\ ret' = [ret EXCEPT ![p] = [r |-> -1, bytes |-> <<>>]]
    /\ UNCHANGED bytes

Lseek(f) ==
    /\ off'[f] \in 0 .. Modulus - 1 /\ off' = [off EXCEPT ![f] = off'[f]]
    /\ op' \in {op, [p \in Proc |-> IF Acts(p) /\ op[p].f = f THEN [op[p] EXCEPT !.sought = TRUE] ELSE op[p]]}
    /\ UNCHANGED <<ret, out, bytes>>

Remove(i) ==
    /\ \A p \in Proc : Acts(p) => inode[op[p].f] # i
    /\ bytes' = [bytes EXCEPT ![i] = <<>>]
    /\ off' = [f \in File |-> IF inode[f] = i THEN 0 ELSE off[f]]
    /\ UNCHANGED <<op, ret, out>>

Stop == out' = TRUE

Next ==
    \/ Stop
    \/ \E f \in File : Lseek(f)
    \/ \E p \in Proc : Write(p) \/ Read(p) \/ \E f \in File : Begin(p, f)
    \/ \E i \in Ino : Remove(i)

Spec == Init /\ [][Next]_vars
===============================================================================
