------------------------------- MODULE Spinlock -------------------------------
(***************************************************************************)
(* kernel/spinlock.c: acquire() and release() with pushcli() and popcli(), *)
(* one step per access to shared memory, on processors that interrupts     *)
(* can stop at any step as long as they are enabled.  Kernel code and      *)
(* interrupt handlers take the locks in ascending order.                   *)
(***************************************************************************)
EXTENDS Integers, FiniteSets

CONSTANTS CPU, NoCpu,
          NLOCK        \* the number of spinlocks

ASSUME SpinAssumption == NoCpu \notin CPU /\ NLOCK \in Nat

Lock == 1 .. NLOCK
NoLock == 0

VARIABLES
    locked, cpu,         \* fields of struct spinlock, per lock
    IF_, ncli, intena,   \* the interrupt flag, and fields of struct cpu
    pc, lk,              \* where each processor is, and its argument lk
    held,                \* the locks it holds: between acquire() and release()
    saved                \* what the interrupt handler it runs interrupted

vars == <<locked, cpu, IF_, ncli, intena, pc, lk, held, saved>>

Pcs == {"idle", "spin", "record", "clear", "popcli", "panic"}
Nothing == [pc |-> "none", lk |-> NoLock, held |-> {}]
InHandler(c) == saved[c].pc # "none"

\* initlock() for every lock; mpmain() has not enabled interrupts yet.
Init ==
    /\ locked = [l \in Lock |-> 0]
    /\ cpu = [l \in Lock |-> NoCpu]
    /\ IF_ = [c \in CPU |-> 0]
    /\ ncli = [c \in CPU |-> 0]
    /\ intena = [c \in CPU |-> 0]
    /\ pc = [c \in CPU |-> "idle"]
    /\ lk = [c \in CPU |-> NoLock]
    /\ held = [c \in CPU |-> {}]
    /\ saved = [c \in CPU |-> Nothing]

-------------------------------------------------------------------------------

holding(c, l) == locked[l] = 1 /\ cpu[l] = c

\* Mutant: interrupts stay enabled.
Pushcli_NoCli(c) ==
    /\ ncli' = [ncli EXCEPT ![c] = @ + 1]
    /\ intena' = [intena EXCEPT ![c] = IF ncli[c] = 0 THEN IF_[c] ELSE @]
    /\ UNCHANGED IF_

Pushcli(c) ==
    /\ IF_' = [IF_ EXCEPT ![c] = 0]
    /\ ncli' = [ncli EXCEPT ![c] = @ + 1]
    /\ intena' = [intena EXCEPT ![c] = IF ncli[c] = 0 THEN IF_[c] ELSE @]

\* acquire() up to its loop.
Acquire(c, l) ==
    /\ pc[c] = "idle"
    /\ \A h \in held[c] : h < l
    /\ Pushcli(c)
    /\ pc' = [pc EXCEPT ![c] = IF holding(c, l) THEN "panic" ELSE "spin"]
    /\ lk' = [lk EXCEPT ![c] = l]
    /\ UNCHANGED <<locked, cpu, held, saved>>

Free(l) == locked[l] = 0

\* The exchange that finds the lock free.
Xchg(c) ==
    /\ pc[c] = "spin"
    /\ Free(lk[c])
    /\ locked' = [locked EXCEPT ![lk[c]] = 1]
    /\ pc' = [pc EXCEPT ![c] = "record"]
    /\ UNCHANGED <<cpu, IF_, ncli, intena, lk, held, saved>>

\* lk->cpu = cpu, and acquire() returns.
Record(c) ==
    /\ pc[c] = "record"
    /\ cpu' = [cpu EXCEPT ![lk[c]] = c]
    /\ held' = [held EXCEPT ![c] = @ \cup {lk[c]}]
    /\ pc' = [pc EXCEPT ![c] = "idle"]
    /\ lk' = [lk EXCEPT ![c] = NoLock]
    /\ UNCHANGED <<locked, IF_, ncli, intena, saved>>

\* release() up to its exchange.
Release(c, l) ==
    /\ pc[c] = "idle"
    /\ l \in held[c]
    /\ IF holding(c, l)
       THEN /\ cpu' = [cpu EXCEPT ![l] = NoCpu]
            /\ held' = [held EXCEPT ![c] = @ \ {l}]
            /\ pc' = [pc EXCEPT ![c] = "clear"]
       ELSE /\ pc' = [pc EXCEPT ![c] = "panic"]
            /\ UNCHANGED <<cpu, held>>
    /\ lk' = [lk EXCEPT ![c] = l]
    /\ UNCHANGED <<locked, IF_, ncli, intena, saved>>

\* Mutant: the lock stays taken.
Cleared_Not(l) == locked

Cleared(l) == [locked EXCEPT ![l] = 0]

\* xchg(&lk->locked, 0)
Clear(c) ==
    /\ pc[c] = "clear"
    /\ locked' = Cleared(lk[c])
    /\ pc' = [pc EXCEPT ![c] = "popcli"]
    /\ lk' = [lk EXCEPT ![c] = NoLock]
    /\ UNCHANGED <<cpu, IF_, ncli, intena, held, saved>>

MayEnable(c) == ncli[c] = 1 /\ intena[c] = 1

Popcli(c) ==
    /\ pc[c] = "popcli"
    /\ IF IF_[c] = 1 \/ ncli[c] < 1
       THEN /\ pc' = [pc EXCEPT ![c] = "panic"]
            /\ UNCHANGED <<IF_, ncli>>
       ELSE /\ pc' = [pc EXCEPT ![c] = "idle"]
            /\ ncli' = [ncli EXCEPT ![c] = @ - 1]
            /\ IF_' = [IF_ EXCEPT ![c] = IF MayEnable(c) THEN 1 ELSE @]
    /\ UNCHANGED <<locked, cpu, intena, lk, held, saved>>

-------------------------------------------------------------------------------
(* The processor *)

\* sti() of scheduler(), which holds no lock.
Sti(c) ==
    /\ pc[c] = "idle" /\ held[c] = {} /\ ncli[c] = 0 /\ ~InHandler(c)
    /\ IF_[c] = 0
    /\ IF_' = [IF_ EXCEPT ![c] = 1]
    /\ UNCHANGED <<locked, cpu, ncli, intena, pc, lk, held, saved>>

\* An interrupt: an interrupt gate clears the flag.
Interrupt(c) ==
    /\ IF_[c] = 1 /\ ~InHandler(c) /\ pc[c] # "panic"
    /\ saved' = [saved EXCEPT ![c] = [pc |-> pc[c], lk |-> lk[c], held |-> held[c]]]
    /\ IF_' = [IF_ EXCEPT ![c] = 0]
    /\ pc' = [pc EXCEPT ![c] = "idle"]
    /\ lk' = [lk EXCEPT ![c] = NoLock]
    /\ held' = [held EXCEPT ![c] = {}]
    /\ UNCHANGED <<locked, cpu, ncli, intena>>

\* iret
Iret(c) ==
    /\ InHandler(c) /\ pc[c] = "idle" /\ held[c] = {}
    /\ pc' = [pc EXCEPT ![c] = saved[c].pc]
    /\ lk' = [lk EXCEPT ![c] = saved[c].lk]
    /\ held' = [held EXCEPT ![c] = saved[c].held]
    /\ saved' = [saved EXCEPT ![c] = Nothing]
    /\ IF_' = [IF_ EXCEPT ![c] = 1]
    /\ UNCHANGED <<locked, cpu, ncli, intena>>

Next ==
    \E c \in CPU :
        \/ \E l \in Lock : Acquire(c, l) \/ Release(c, l)
        \/ Xchg(c) \/ Record(c) \/ Clear(c) \/ Popcli(c)
        \/ Sti(c) \/ Interrupt(c) \/ Iret(c)

Spec == Init /\ [][Next]_vars

\* A processor goes on: it runs acquire() and release() to their end, and the
\* code between them comes to each of its releases.  Nothing makes the exchange
\* fair: others may win it again and again.
Fairness ==
    \A c \in CPU :
        /\ WF_vars(Xchg(c) \/ Record(c) \/ Clear(c) \/ Popcli(c))
        /\ \A l \in Lock : SF_vars(Release(c, l))

FairSpec == Spec /\ Fairness

-------------------------------------------------------------------------------
(* Properties *)

TypeOK ==
    /\ locked \in [Lock -> {0, 1}]
    /\ cpu \in [Lock -> CPU \cup {NoCpu}]
    /\ IF_ \in [CPU -> {0, 1}]
    /\ ncli \in [CPU -> Nat]
    /\ intena \in [CPU -> {0, 1}]
    /\ pc \in [CPU -> Pcs]
    /\ lk \in [CPU -> Lock \cup {NoLock}]
    /\ held \in [CPU -> SUBSET Lock]
    /\ saved \in [CPU -> [pc : Pcs \cup {"none"}, lk : Lock \cup {NoLock}, held : SUBSET Lock]]

\* acquire(): no two processors hold a lock, and no processor holds it both in a
\* handler and in the code the handler interrupted.
MutualExclusion ==
    \A l \in Lock :
        /\ \A c, d \in CPU : l \in held[c] \cup saved[c].held /\ l \in held[d] \cup saved[d].held => c = d
        /\ \A c \in CPU : l \notin held[c] \cap saved[c].held

\* acquire(), release(), popcli(): the panics are unreachable.  In particular no
\* handler waits for a lock of the code it interrupted.
NoPanic == \A c \in CPU : pc[c] # "panic"

\* pushcli(), popcli(): interrupts are off while any lock is held, and back as
\* they were once all are released.
InterruptsOff ==
    \A c \in CPU :
        /\ IF_[c] = 1 => held[c] = {} /\ ncli[c] = 0
        /\ saved[c].held = {}
        /\ pc[c] = "idle" => ncli[c] = Cardinality(held[c])
        /\ pc[c] = "idle" /\ ncli[c] = 0 /\ intena[c] = 1 /\ ~InHandler(c) => IF_[c] = 1

\* c has taken l: it won the exchange and has not undone it.
Owns(c, l) == l \in held[c] \/ (pc[c] \in {"record", "clear"} /\ lk[c] = l)

\* What makes the properties inductive: lk is set inside acquire() and release();
\* ownership is exclusive and agrees with the fields of the lock; ncli counts the
\* locks; an interrupt finds its processor outside all of them.
LkInv ==
    \A c \in CPU :
        /\ pc[c] \in {"spin", "record", "clear"} <=> lk[c] # NoLock
        /\ lk[c] \notin held[c]

OwnInv ==
    /\ \A c, d \in CPU : \A l \in Lock : Owns(c, l) /\ Owns(d, l) => c = d
    /\ \A c \in CPU : \A l \in Lock : Owns(c, l) => locked[l] = 1
    /\ \A c \in CPU : \A l \in Lock : l \in held[c] <=> cpu[l] = c

CountInv ==
    \A c \in CPU : ncli[c] = Cardinality(held[c]) + (IF pc[c] = "idle" THEN 0 ELSE 1)

FlagInv ==
    \A c \in CPU :
        /\ IF_[c] = 1 => pc[c] = "idle" /\ held[c] = {} /\ ~InHandler(c)
        /\ saved[c] \in {Nothing, [pc |-> "idle", lk |-> NoLock, held |-> {}]}
        /\ InHandler(c) /\ ncli[c] > 0 => intena[c] = 0
        /\ ncli[c] = 0 /\ intena[c] = 1 /\ ~InHandler(c) => IF_[c] = 1

SpinInv == TypeOK /\ NoPanic /\ LkInv /\ OwnInv /\ CountInv /\ FlagInv

\* acquire(): while a processor spins, some processor gets a lock; the locks
\* never block everyone.
Progress == \A c \in CPU : pc[c] = "spin" ~> \E d \in CPU : pc[d] = "record"
===============================================================================
