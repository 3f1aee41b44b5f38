---------------------------- MODULE AddressSpace ----------------------------
(***************************************************************************)
(* What fork(), exec(), sbrk() and a store promise: every process has an   *)
(* address space of its own, a sequence of pages.                          *)
(***************************************************************************)
EXTENDS Integers, Sequences

CONSTANTS Slot, TEXT

VARIABLES space,   \* the pages of each process
          out      \* no more promises: a page table could not be allocated

vars == <<space, out>>

Init == space \in [Slot -> Seq({0, TEXT})] /\ out = FALSE

\* s changes its own space only.
Only(s) == space' = [space EXCEPT ![s] = space'[s]] /\ UNCHANGED out

\* It stores a value, ...
Store(s) ==
    /\ Only(s)
    /\ \E k \in DOMAIN space[s] : space'[s] = [space[s] EXCEPT ![k] = s + 1]

\* ... grows by zeroed pages or gives up its last ones, ...
Sbrk(s) ==
    /\ Only(s)
    /\ LET n == Len(space'[s])
           o == Len(space[s]) IN
       space'[s] = [k \in 1 .. n |-> IF k <= o THEN space[s][k] ELSE 0]

\* ... starts a new program, ends, or ...
Exec(s) == Only(s) /\ \A k \in DOMAIN space'[s] : space'[s][k] \in {0, TEXT}

\* ... is born as a copy of another one.
Fork(s, t) == Only(t) /\ space[t] = <<>> /\ space'[t] = space[s]

Next ==
    \/ out' = TRUE
    \/ \E s \in Slot : Store(s) \/ Sbrk(s) \/ Exec(s)
    \/ \E s, t \in Slot : Fork(s, t)

Spec == Init /\ [][Next]_vars
===============================================================================
