------------------------------ MODULE BlockStore ------------------------------
(***************************************************************************)
(* What the buffer cache promises to its callers: every sector has one     *)
(* current contents and at most one holder; only the holder changes it.    *)
(***************************************************************************)
CONSTANTS Proc, NoProc, Sector, Data, Fresh

VARIABLES lock,    \* the process between bread() and brelse(), per sector
          store    \* what bread() returns, per sector

vars == <<lock, store>>

Init ==
    /\ lock = [s \in Sector |-> NoProc]
    /\ store = [s \in Sector |-> Fresh]

Take(p, s) ==
    /\ lock[s] = NoProc
    /\ lock' = [lock EXCEPT ![s] = p]
    /\ UNCHANGED store

Put(p, s, d) ==
    /\ lock[s] = p
    /\ store' = [store EXCEPT ![s] = d]
    /\ UNCHANGED lock

Drop(p, s) ==
    /\ lock[s] = p
    /\ lock' = [lock EXCEPT ![s] = NoProc]
    /\ UNCHANGED store

Next ==
    \E p \in Proc, s \in Sector :
        \/ Take(p, s)
        \/ \E d \in Data : Put(p, s, d)
        \/ Drop(p, s)

Spec == Init /\ [][Next]_vars
===============================================================================
