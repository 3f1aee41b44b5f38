-------------------------------- MODULE Stream --------------------------------
(***************************************************************************)
(* What a pipe promises: bytes come out in the order they went in, none    *)
(* lost, none twice, and at most Size of them are on their way.            *)
(***************************************************************************)
EXTENDS Integers, Sequences

CONSTANTS Byte, Size

VARIABLES sent, recv

\* s is a beginning of t.
Begins(s, t) == Len(s) <= Len(t) /\ SubSeq(t, 1, Len(s)) = s

Init == sent = <<>> /\ recv = <<>>

Send ==
    /\ sent' \in Seq(Byte)
    /\ Begins(sent, sent') /\ sent' # sent
    /\ Len(sent') - Len(recv) <= Size
    /\ UNCHANGED recv

Receive ==
    /\ recv' \in Seq(Byte)
    /\ Begins(recv, recv') /\ recv' # recv
    /\ Begins(recv', sent)
    /\ UNCHANGED sent

Spec == Init /\ [][Send \/ Receive]_<<sent, recv>>
===============================================================================
