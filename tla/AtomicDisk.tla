------------------------------ MODULE AtomicDisk ------------------------------
(***************************************************************************)
(* What kernel/log.c promises to the file system: the disk changes only by *)
(* whole transactions.  One process at a time holds the transaction; its   *)
(* writes are pending until Commit applies all of them in one step; a      *)
(* crash discards the pending writes and nothing else.                     *)
(***************************************************************************)
CONSTANTS Proc,     \* processes that use the file system
          NoProc,   \* no transaction is open
          Block,    \* home blocks of the file system (bitmap, inodes, data)
          Data,     \* contents of one block
          Fresh     \* what mkfs left in every block

VARIABLES owner,    \* the process inside begin_trans() .. commit_trans()
          durable,  \* the file system as the next boot will find it
          current   \* the file system as the running kernel reads it

vars == <<owner, durable, current>>

Init ==
    /\ owner = NoProc
    /\ durable = [b \in Block |-> Fresh]
    /\ current = durable

\* p opens the transaction.
Begin(p) ==
    /\ owner = NoProc
    /\ owner' = p
    /\ UNCHANGED <<durable, current>>

\* The open transaction changes a block.
Write(b, d) ==
    /\ owner # NoProc
    /\ current' = [current EXCEPT ![b] = d]
    /\ UNCHANGED <<owner, durable>>

\* All the writes of the transaction become durable at once.
Commit ==
    /\ owner # NoProc
    /\ durable' = current
    /\ UNCHANGED <<owner, current>>

\* The transaction closes; nothing is left that a crash could lose.
End ==
    /\ owner # NoProc
    /\ durable = current
    /\ owner' = NoProc
    /\ UNCHANGED <<durable, current>>

\* The machine restarts: the writes of an open transaction are forgotten.
Crash ==
    /\ owner' = NoProc
    /\ current' = durable
    /\ UNCHANGED durable

Next ==
    \/ \E p \in Proc : Begin(p)
    \/ \E b \in Block, d \in Data : Write(b, d)
    \/ Commit
    \/ End
    \/ Crash

Spec == Init /\ [][Next]_vars
===============================================================================
