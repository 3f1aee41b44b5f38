------------------------------- MODULE BufCache -------------------------------
(***************************************************************************)
(* kernel/bio.c over kernel/memdisk.c: NBUF buffers cache the sectors of   *)
(* the disk.  A critical section under bcache.lock is one action.  A       *)
(* buffer is used outside the lock only by the process that made it        *)
(* B_BUSY, so reading and writing it are steps of their own.               *)
(*                                                                         *)
(* The callers are any processes that release what they take and change a  *)
(* buffer only to hand it to bwrite() or log_write().  In the code a       *)
(* process asks for a buffer while it holds others only inside a           *)
(* transaction, in whatever order (log_write() takes a block of the log    *)
(* after its home block, install_trans() before it, bmap() and itrunc()    *)
(* hold an indirect block meanwhile), and begin_trans() admits one         *)
(* transaction at a time.  Here: one process at a time does that, up to    *)
(* Depth buffers.                                                          *)
(***************************************************************************)
EXTENDS Integers, FiniteSets

CONSTANTS Proc, NoProc,
          Sector, NoSector,  \* NoSector: a buffer with dev = -1
          Data, Fresh,       \* Fresh: what the disk image holds
          NBUF,              \* kernel/include/param.h
          Depth,             \* most buffers a process holds at once
          MaxDirty           \* most blocks in the log: log_write()'s limit

ASSUME BufAssumption ==
    /\ NoProc \notin Proc
    /\ NoSector \notin Sector
    /\ Fresh \in Data
    /\ NBUF \in Nat \ {0}
    /\ Depth \in Nat
    /\ MaxDirty \in Nat

Buf == 1 .. NBUF
NoBuf == 0

VARIABLES
    sector,    \* b->sector, NoSector before the first use
    holder,    \* the process that set B_BUSY, NoProc if it is clear
    valid,     \* B_VALID
    dirty,     \* B_DIRTY
    data,      \* b->data
    age,       \* the place of b in the list that starts at bcache.head.next
    disk,      \* memdisk
    pc,        \* where each process is
    want,      \* bget()'s parameter sector
    b,         \* the local variable b of bget() and bread()
    panicked

buffers == <<sector, holder, valid, dirty, data, age>>
vars == <<buffers, disk, pc, want, b, panicked>>

\* binit() puts every buffer at the head of the list, the last one first.
Init ==
    /\ sector = [c \in Buf |-> NoSector]
    /\ holder = [c \in Buf |-> NoProc]
    /\ valid = [c \in Buf |-> 0]
    /\ dirty = [c \in Buf |-> 0]
    /\ data = [c \in Buf |-> Fresh]
    /\ age = [c \in Buf |-> NBUF + 1 - c]
    /\ disk = [s \in Sector |-> Fresh]
    /\ pc = [p \in Proc |-> "run"]
    /\ want = [p \in Proc |-> NoSector]
    /\ b = [p \in Proc |-> NoBuf]
    /\ panicked = 0

-------------------------------------------------------------------------------
(* bget() *)

Held(p) == {c \in Buf : holder[c] = p}

\* q took a buffer, or waits for one, while it holds another: it is in the
\* transaction that log.busy stands for.
Nesting(q) ==
    \/ Cardinality(Held(q)) > 1
    \/ Held(q) # {} /\ pc[q] \in {"asleep", "woken"}

MayAsk(p, s) ==
    /\ \A c \in Held(p) : sector[c] # s
    /\ Cardinality(Held(p)) < Depth
    /\ Held(p) # {} => \A q \in Proc \ {p} : ~Nesting(q)

\* p is at the head of bget()'s loop for sector s: it was called, or woken.
Loops(p, s) ==
    /\ panicked = 0
    /\ \/ pc[p] = "run" /\ MayAsk(p, s)
       \/ pc[p] = "woken" /\ want[p] = s

\* Mutant: a dirty buffer is recycled.
Idle_Dirty == {c \in Buf : holder[c] = NoProc}

Idle == {c \in Buf : holder[c] = NoProc /\ dirty[c] = 0}

Cached(s) == \E c \in Buf : sector[c] = s

\* The sector is cached and nobody uses it.
BgetHit(p, s) ==
    /\ Loops(p, s)
    /\ \E c \in Buf :
          /\ sector[c] = s
          /\ holder[c] = NoProc
          /\ holder' = [holder EXCEPT ![c] = p]
          /\ b' = [b EXCEPT ![p] = c]
    /\ pc' = [pc EXCEPT ![p] = "read"]
    /\ want' = [want EXCEPT ![p] = s]
    /\ UNCHANGED <<sector, valid, dirty, data, age, disk, panicked>>

\* It is cached and busy: sleep on the buffer, then go round the loop.
BgetSleep(p, s) ==
    /\ Loops(p, s)
    /\ \E c \in Buf :
          /\ sector[c] = s
          /\ holder[c] # NoProc
          /\ b' = [b EXCEPT ![p] = c]
    /\ pc' = [pc EXCEPT ![p] = "asleep"]
    /\ want' = [want EXCEPT ![p] = s]
    /\ UNCHANGED <<buffers, disk, panicked>>

\* It is not cached: the last idle buffer of the list is recycled.
BgetRecycle(p, s) ==
    /\ Loops(p, s)
    /\ ~Cached(s)
    /\ \E c \in Idle :
          /\ \A d \in Idle : age[d] <= age[c]
          /\ sector' = [sector EXCEPT ![c] = s]
          /\ holder' = [holder EXCEPT ![c] = p]
          /\ valid' = [valid EXCEPT ![c] = 0]
          /\ dirty' = [dirty EXCEPT ![c] = 0]
          /\ b' = [b EXCEPT ![p] = c]
    /\ pc' = [pc EXCEPT ![p] = "read"]
    /\ want' = [want EXCEPT ![p] = s]
    /\ UNCHANGED <<data, age, disk, panicked>>

\* panic("bget: no buffers"), with bcache.lock held for ever.
BgetPanic(p, s) ==
    /\ Loops(p, s)
    /\ ~Cached(s)
    /\ Idle = {}
    /\ panicked' = 1
    /\ UNCHANGED <<buffers, disk, pc, want, b>>

-------------------------------------------------------------------------------
(* bread(), bwrite(), brelse() *)

\* Mutant: the sector is not read.
NeedsRead_Never(c) == FALSE

NeedsRead(c) == valid[c] = 0

\* bread() after bget(): memiderw() reads the sector if it has to.
Bread(p) ==
    /\ pc[p] = "read"
    /\ IF NeedsRead(b[p])
       THEN /\ data' = [data EXCEPT ![b[p]] = disk[sector[b[p]]]]
            /\ valid' = [valid EXCEPT ![b[p]] = 1]
       ELSE UNCHANGED <<data, valid>>
    /\ pc' = [pc EXCEPT ![p] = "run"]
    /\ want' = [want EXCEPT ![p] = NoSector]
    /\ b' = [b EXCEPT ![p] = NoBuf]
    /\ UNCHANGED <<sector, holder, dirty, age, disk, panicked>>

\* The holder changes the data and calls bwrite(): memiderw() writes the sector.
Bwrite(p, c, d) ==
    /\ pc[p] = "run" /\ holder[c] = p
    /\ data' = [data EXCEPT ![c] = d]
    /\ dirty' = [dirty EXCEPT ![c] = 0]
    /\ valid' = [valid EXCEPT ![c] = 1]
    /\ disk' = [disk EXCEPT ![sector[c]] = d]
    /\ UNCHANGED <<sector, holder, age, pc, want, b, panicked>>

\* The holder changes the data and calls log_write(), which leaves B_DIRTY set
\* until install_trans() calls bwrite() for the block.
MarkDirty(p, c, d) ==
    /\ pc[p] = "run" /\ holder[c] = p
    /\ dirty[c] = 1 \/ Cardinality({e \in Buf : dirty[e] = 1}) < MaxDirty
    /\ data' = [data EXCEPT ![c] = d]
    /\ dirty' = [dirty EXCEPT ![c] = 1]
    /\ UNCHANGED <<sector, holder, valid, age, disk, pc, want, b, panicked>>

\* Mutant: nobody is woken.
Wakeup_Nobody(c) == pc

\* wakeup(c)
Wakeup(c) == [q \in Proc |-> IF pc[q] = "asleep" /\ b[q] = c THEN "woken" ELSE pc[q]]

\* brelse(): to the head of the list, and wake who waits for the buffer.
Brelse(p, c) ==
    /\ panicked = 0
    /\ pc[p] = "run" /\ holder[c] = p
    /\ age' = [e \in Buf |-> IF e = c THEN 1
                            ELSE IF age[e] < age[c] THEN age[e] + 1 ELSE age[e]]
    /\ holder' = [holder EXCEPT ![c] = NoProc]
    /\ pc' = Wakeup(c)
    /\ UNCHANGED <<sector, valid, dirty, data, disk, want, b, panicked>>

Bget(p, s) == BgetHit(p, s) \/ BgetSleep(p, s) \/ BgetRecycle(p, s) \/ BgetPanic(p, s)

Next ==
    \E p \in Proc :
        \/ \E s \in Sector : Bget(p, s)
        \/ Bread(p)
        \/ \E c \in Buf, d \in Data : Bwrite(p, c, d) \/ MarkDirty(p, c, d)
        \/ \E c \in Buf : Brelse(p, c)

Spec == Init /\ [][Next]_vars

-------------------------------------------------------------------------------
(* Fairness: a process in the kernel goes on, and who holds a buffer and does  *)
(* not wait for another one releases it in the end.                            *)
Fairness ==
    \A p \in Proc :
        /\ WF_vars(Bread(p))
        /\ WF_vars(pc[p] = "woken" /\ Bget(p, want[p]))
        /\ \A c \in Buf : SF_vars(Brelse(p, c))

FairSpec == Spec /\ Fairness

-------------------------------------------------------------------------------
(* Properties *)

TypeOK ==
    /\ sector \in [Buf -> Sector \cup {NoSector}]
    /\ holder \in [Buf -> Proc \cup {NoProc}]
    /\ valid \in [Buf -> {0, 1}]
    /\ dirty \in [Buf -> {0, 1}]
    /\ data \in [Buf -> Data]
    /\ age \in [Buf -> Nat]
    /\ disk \in [Sector -> Data]
    /\ pc \in [Proc -> {"run", "read", "asleep", "woken"}]
    /\ want \in [Proc -> Sector \cup {NoSector}]
    /\ b \in [Proc -> Buf \cup {NoBuf}]
    /\ panicked \in {0, 1}

\* bget(): a sector is in one buffer at most, also when its buffer is recycled
\* while processes wait for it.
UniqueSector ==
    \A c, d \in Buf : sector[c] = sector[d] /\ sector[c] # NoSector => c = d

\* brelse(): the list keeps every buffer, each at a place of its own.
ListIntact ==
    /\ \A c \in Buf : age[c] \in 1 .. NBUF
    /\ \A c, d \in Buf : age[c] = age[d] => c = d

\* bread(), memiderw(): a clean buffer agrees with its sector of the disk, and
\* a dirty one holds data.
Coherent ==
    \A c \in Buf : /\ valid[c] = 1 /\ dirty[c] = 0 => data[c] = disk[sector[c]]
                   /\ dirty[c] = 1 => valid[c] = 1

\* bread() returns a buffer that has been read.
HeldIsValid ==
    \A c \in Buf, p \in Proc :
        holder[c] = p => valid[c] = 1 \/ (pc[p] = "read" /\ b[p] = c)

\* bget(), brelse(): whoever sleeps waits for a busy buffer of its sector, and
\* whoever reads a buffer is its holder.
NoLostWakeup ==
    \A p \in Proc :
        /\ pc[p] = "asleep" => /\ b[p] \in Buf
                               /\ holder[b[p]] # NoProc
                               /\ sector[b[p]] = want[p]
        /\ pc[p] = "read" => b[p] \in Buf /\ holder[b[p]] = p

\* A buffer in use has a sector, and so has a process in bget() or bread().
InUse ==
    /\ \A c \in Buf : holder[c] # NoProc \/ valid[c] = 1 => sector[c] \in Sector
    /\ \A p \in Proc : pc[p] # "run" => want[p] \in Sector

BufInv ==
    /\ TypeOK
    /\ UniqueSector
    /\ ListIntact
    /\ Coherent
    /\ HeldIsValid
    /\ NoLostWakeup
    /\ InUse

\* bget(), brelse(): a process asleep on a buffer is woken.
SleeperWoken ==
    \A p \in Proc : pc[p] = "asleep" ~> pc[p] # "asleep" \/ panicked = 1

\* The abstract state: who holds the buffer of a sector, and what a bread() of
\* the sector returns.
BufOf(s) == CHOOSE c \in Buf : sector[c] = s
Lock == [s \in Sector |-> IF Cached(s) THEN holder[BufOf(s)] ELSE NoProc]
Contents == [s \in Sector |-> IF Cached(s) /\ valid[BufOf(s)] = 1 THEN data[BufOf(s)] ELSE disk[s]]

Store == INSTANCE BlockStore WITH lock <- Lock, store <- Contents

\* The buffer cache implements a locked store: whatever is recycled, written or
\* read again, a sector has one holder and its contents change by the holder only.
Refinement == Store!Spec
===============================================================================
