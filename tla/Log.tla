--------------------------------- MODULE Log ---------------------------------
(***************************************************************************)
(* kernel/log.c: the physical redo log, with crashes at every disk write.  *)
(*                                                                         *)
(* A disk block is 512 bytes, one sector, so one bwrite() either happens   *)
(* or does not.  Everything between two disk writes touches only memory,   *)
(* which a crash loses: an action is therefore one disk write with the     *)
(* memory updates around it.  The buffer cache is its specification        *)
(* (BufCache.tla): a read returns the last contents given to the block.    *)
(***************************************************************************)
EXTENDS Integers, Sequences

CONSTANTS Proc, NoProc, Block, Data, Fresh,
          LOGSIZE,  \* kernel/include/param.h: entries of struct logheader
          LogSize   \* log.size, from the superblock: blocks of the on-disk log

ASSUME LogAssumption ==
    /\ NoProc \notin Proc
    /\ Fresh \in Data
    /\ LOGSIZE \in Nat \ {0}
    /\ LogSize \in Nat \ {0, 1}

\* How many blocks log_write() lets a transaction log.
Capacity == IF LOGSIZE < LogSize - 1 THEN LOGSIZE ELSE LogSize - 1

Slot == 1 .. Capacity

VARIABLES
    disk,      \* home blocks on disk
    logged,    \* data blocks of the on-disk log
    head,      \* the on-disk header: sector numbers, its length is n
    cache,     \* home blocks as bread() returns them
    lh,        \* log.lh, the header in memory
    busy,      \* log.busy
    pc,        \* where each process is
    phase,     \* where the kernel is in recover_from_log or commit_trans
    tail       \* install_trans()'s loop counter

stable == <<disk, logged, head>>
vars == <<disk, logged, head, cache, lh, busy, pc, phase, tail>>

\* recover_from_log() has not finished: no process can be in the file system.
Booting == phase \in {"read_head", "recover"}

Init ==
    /\ disk = [b \in Block |-> Fresh]
    /\ logged = [i \in Slot |-> Fresh]
    /\ head = <<>>
    /\ cache = disk
    /\ lh = <<>>
    /\ busy = 0
    /\ pc = [p \in Proc |-> "out"]
    /\ phase = "read_head"
    /\ tail = 0

\* Mutant: the write of the header is lost.
WriteHead_Lost(h) == UNCHANGED head

\* write_head(): the header block goes to disk.
WriteHead(h) == head' = h

\* recover_from_log(): the header of the disk becomes the one in memory.
ReadHead ==
    /\ phase = "read_head"
    /\ lh' = head
    /\ tail' = 0
    /\ phase' = "recover"
    /\ UNCHANGED <<stable, cache, busy, pc>>

\* One turn of install_trans(): the log block replaces the home block, in the
\* buffer and on disk.
InstallTrans ==
    /\ phase \in {"recover", "install"}
    /\ tail < Len(lh)
    /\ cache' = [cache EXCEPT ![lh[tail + 1]] = logged[tail + 1]]
    /\ disk' = [disk EXCEPT ![lh[tail + 1]] = logged[tail + 1]]
    /\ tail' = tail + 1
    /\ UNCHANGED <<logged, head, lh, busy, pc, phase>>

\* Mutants: the loop ends too early, and one turn too late.
AllHome_Early == TRUE
AllHome_Late == tail > Len(lh)

\* install_trans()'s loop has ended.
AllHome == tail = Len(lh)

\* log.lh.n = 0; write_head(): the transaction leaves the log.
EraseLog ==
    /\ phase \in {"recover", "install"}
    /\ AllHome
    /\ lh' = <<>>
    /\ WriteHead(<<>>)
    /\ tail' = 0
    /\ phase' = IF phase = "recover" THEN "up" ELSE "release"
    /\ UNCHANGED <<disk, logged, cache, busy, pc>>

\* begin_trans(): under log.lock, wait while a transaction is open.
BeginTrans(p) ==
    /\ ~Booting
    /\ pc[p] \in {"out", "woken"}
    /\ IF busy # 0
       THEN /\ pc' = [pc EXCEPT ![p] = "asleep"]
            /\ UNCHANGED busy
       ELSE /\ pc' = [pc EXCEPT ![p] = "in"]
            /\ busy' = 1
    /\ UNCHANGED <<stable, cache, lh, phase, tail>>

\* The log slot log_write() uses for block b: the one that already holds b,
\* or the next free one.
SlotOf(b) ==
    IF \E i \in 1 .. Len(lh) : lh[i] = b
    THEN CHOOSE i \in 1 .. Len(lh) : lh[i] = b
    ELSE Len(lh) + 1

\* log_write() by a process inside its transaction, which changed the buffer
\* of b to d just before.  The capacity test comes before the absorption test.
LogWrite(p, b, d) ==
    /\ phase = "up"
    /\ pc[p] = "in"
    /\ Len(lh) < Capacity
    /\ cache' = [cache EXCEPT ![b] = d]
    /\ logged' = [logged EXCEPT ![SlotOf(b)] = d]
    /\ lh' = IF SlotOf(b) > Len(lh) THEN Append(lh, b) ELSE lh
    /\ UNCHANGED <<disk, head, busy, pc, phase, tail>>

\* panic("too big a transaction"): this CPU stops for ever and the
\* transaction stays open.  (Another CPU stops when it next prints.)
LogPanic(p) ==
    /\ phase = "up"
    /\ pc[p] = "in"
    /\ Len(lh) >= Capacity
    /\ phase' = "panicked"
    /\ UNCHANGED <<stable, cache, lh, busy, pc, tail>>

\* commit_trans() up to the header write: the real commit.
CommitTrans(p) ==
    /\ phase = "up"
    /\ pc[p] = "in"
    /\ pc' = [pc EXCEPT ![p] = "committing"]
    /\ IF lh # <<>>
       THEN /\ WriteHead(lh)
            /\ phase' = "install"
            /\ tail' = 0
       ELSE /\ phase' = "release"
            /\ UNCHANGED <<head, tail>>
    /\ UNCHANGED <<disk, logged, cache, lh, busy>>

\* Mutant: nobody is woken.
Wakeup_Nobody == pc

\* wakeup(&log): the sleepers of begin_trans() may run.
Wakeup == [q \in Proc |-> IF pc[q] = "asleep" THEN "woken" ELSE pc[q]]

\* The end of commit_trans(), under log.lock.
EndTrans(p) ==
    /\ phase = "release"
    /\ pc[p] = "committing"
    /\ busy' = 0
    /\ pc' = [Wakeup EXCEPT ![p] = "out"]
    /\ phase' = "up"
    /\ UNCHANGED <<stable, cache, lh, tail>>

\* The machine stops and boots again: memory is lost, the disk is not.
Crash ==
    /\ cache' = disk
    /\ lh' = <<>>
    /\ busy' = 0
    /\ pc' = [p \in Proc |-> "out"]
    /\ phase' = "read_head"
    /\ tail' = 0
    /\ UNCHANGED stable

Trans(p) ==
    \/ BeginTrans(p)
    \/ \E b \in Block, d \in Data : LogWrite(p, b, d)
    \/ LogPanic(p)
    \/ CommitTrans(p)
    \/ EndTrans(p)

Next ==
    \/ ReadHead
    \/ InstallTrans
    \/ EraseLog
    \/ \E p \in Proc : Trans(p)
    \/ Crash

Spec == Init /\ [][Next]_vars

-------------------------------------------------------------------------------
(* Fairness: a CPU that runs commit_trans or recovery runs on, and a system  *)
(* call that opened a transaction reaches its commit_trans (every begin_trans *)
(* of the kernel is followed by one).  Nothing makes a process call            *)
(* begin_trans, except one that sleep() returned to inside it.                 *)
Fairness ==
    /\ WF_vars(ReadHead)
    /\ WF_vars(InstallTrans)
    /\ WF_vars(EraseLog)
    /\ \A p \in Proc : /\ WF_vars(pc[p] = "woken" /\ BeginTrans(p))
                       /\ WF_vars(CommitTrans(p))
                       /\ WF_vars(EndTrans(p))

FairSpec == Spec /\ Fairness

-------------------------------------------------------------------------------
(* Properties *)

TypeOK ==
    /\ disk \in [Block -> Data]
    /\ logged \in [Slot -> Data]
    /\ head \in Seq(Block)
    /\ cache \in [Block -> Data]
    /\ lh \in Seq(Block)
    /\ busy \in {0, 1}
    /\ pc \in [Proc -> {"out", "asleep", "woken", "in", "committing"}]
    /\ phase \in {"read_head", "recover", "up", "install", "release", "panicked"}
    /\ tail \in Nat

\* The disk with a committed log installed: what recovery will produce.
Redo(d, g, h) ==
    [b \in Block |-> IF \E i \in 1 .. Len(h) : h[i] = b
                     THEN g[CHOOSE i \in 1 .. Len(h) : h[i] = b]
                     ELSE d[b]]

\* begin_trans(): one transaction at a time, busy exactly while one is open.
OneTransaction ==
    /\ \A p, q \in Proc :
          pc[p] \in {"in", "committing"} /\ pc[q] \in {"in", "committing"} => p = q
    /\ busy = 1 <=> \E p \in Proc : pc[p] \in {"in", "committing"}

\* begin_trans()/commit_trans(): nobody sleeps on a log that is free.
NoLostWakeup == \A p \in Proc : pc[p] = "asleep" => busy = 1

\* write-ahead rule of commit_trans(): a home block changes on disk only while
\* the header on disk names it and the log block holds the same contents.
WriteAhead ==
    [][\A b \in Block : disk'[b] # disk[b] =>
          \E i \in 1 .. Len(head) : head[i] = b /\ logged[i] = disk'[b]]_vars

\* log_write()/install_trans(): once the machine is up and no transaction is
\* open, memory, disk and log agree: nothing of a transaction is left behind.
Quiescent ==
    phase = "up" /\ busy = 0 => head = <<>> /\ lh = <<>> /\ cache = disk

\* begin_trans()/commit_trans(): a process asleep in begin_trans is woken, unless
\* the transaction it waits for panics.
SleeperWoken ==
    \A p \in Proc : pc[p] = "asleep" ~> pc[p] # "asleep" \/ phase = "panicked"

\* recover_from_log(): once the machine stops crashing, recovery ends.
BootEnds == []<><<Crash>>_vars \/ []<>(~Booting)

\* What makes the refinement inductive: the header lists each block once and fits
\* the log; the log is being installed only while both headers agree, and then
\* the first tail blocks are home already; otherwise the disk's header is empty;
\* and the buffers hold what the logged blocks would make of the disk.
Distinct(h) ==
    /\ Len(h) <= Capacity
    /\ \A i, j \in 1 .. Len(h) : h[i] = h[j] => i = j

\* c is disk d with the blocks of log g home, for a header h.
Redone(c, d, g, h) ==
    /\ \A i \in 1 .. Len(h) : c[h[i]] = g[i]
    /\ \A b \in Block : (\A i \in 1 .. Len(h) : h[i] # b) => c[b] = d[b]

PhaseInv ==
    /\ phase \in {"up", "panicked", "release"} => head = <<>>
    /\ phase = "release" => lh = <<>>
    /\ busy = 0 => Booting \/ (phase = "up" /\ lh = <<>>)
    /\ busy = 1 => ~Booting
    /\ \A p \in Proc : /\ pc[p] = "in" => phase \in {"up", "panicked"}
                       /\ pc[p] = "committing" => phase \in {"install", "release"}

InstallInv ==
    phase \in {"recover", "install"} =>
        /\ head = lh
        /\ tail <= Len(lh)
        /\ \A i \in 1 .. tail : disk[lh[i]] = logged[i]

LogInv ==
    /\ TypeOK
    /\ OneTransaction
    /\ NoLostWakeup
    /\ Distinct(lh) /\ Distinct(head)
    /\ PhaseInv
    /\ InstallInv
    /\ IF Booting THEN cache = disk ELSE Redone(cache, disk, logged, lh)

\* The abstract state: the transaction is open while busy is set, the next boot
\* finds the disk with a committed log installed, the kernel reads its buffers.
Owner == IF busy = 1 THEN CHOOSE p \in Proc : pc[p] \in {"in", "committing"} ELSE NoProc
Durable == Redo(disk, logged, head)
Current == IF Booting THEN Durable ELSE cache

Atomic == INSTANCE AtomicDisk
            WITH owner <- Owner, durable <- Durable, current <- Current

\* Crash atomicity: log.c implements a disk that changes by whole transactions.
Refinement == Atomic!Spec
===============================================================================
