------------------------------ MODULE LineInput ------------------------------
(***************************************************************************)
(* What the terminal promises: keys edit a line, a finished line is handed *)
(* over, and what was handed over is read in order.                        *)
(***************************************************************************)
EXTENDS Integers, Sequences

CONSTANTS Char, NL, Size

VARIABLES line,    \* the line that is being edited
          ready,   \* what has been handed over and not been read
          got      \* what was read last

vars == <<line, ready, got>>

Init == line = <<>> /\ ready = <<>> /\ got = <<>>

\* A key: the line is finished by a newline, and when there is no room for more.
Type(c) ==
    /\ Len(ready) + Len(line) < Size
    /\ IF c = NL \/ Len(ready) + Len(line) + 1 = Size
       THEN line' = <<>> /\ ready' = ready \o Append(line, c)
       ELSE line' = Append(line, c) /\ UNCHANGED ready
    /\ UNCHANGED got

Backspace ==
    /\ line # <<>>
    /\ line' = SubSeq(line, 1, Len(line) - 1)
    /\ UNCHANGED <<ready, got>>

KillLine == line' = <<>> /\ UNCHANGED <<ready, got>>

Take ==
    \E k \in 1 .. Len(ready) :
        /\ got' = SubSeq(ready, 1, k)
        /\ ready' = SubSeq(ready, k + 1, Len(ready))
        /\ UNCHANGED line

Next == (\E c \in Char : Type(c)) \/ Backspace \/ KillLine \/ Take

Spec == Init /\ [][Next]_vars
===============================================================================
