----------------------------- MODULE ProcProofs -----------------------------
(***************************************************************************)
(* Proofs about Proc.tla for every size of the process table, every number *)
(* of processors and every argument of kill(): ProcInv is inductive.       *)
(***************************************************************************)
EXTENDS Proc, TLAPS, WellFoundedInduction

\* The table scans of allocproc(), wait(), kill() and scheduler() stop at a slot
\* that satisfies their test, if there is one.
LEMMA LeastIn ==
  ASSUME NEW S \in SUBSET Slot, S # {}
  PROVE  Least(S) \in S
<1> DEFINE R == OpToRel(<, Nat)
<1>1. S \subseteq Nat
  BY ProcAssumption DEF Slot
<1>2. PICK x \in S : \A y \in S : ~ (<<y, x>> \in R)
  BY <1>1, NatLessThanWellFounded, WFMin, Zenon
<1>3. \A y \in S : <<y, x>> \in R <=> y < x
  BY <1>1, Zenon DEF OpToRel
<1>4. \A y \in S : ~ (y < x)
  BY <1>2, <1>3, Zenon
<1>. HIDE DEF R
<1>5. x \in S /\ \A y \in S : x <= y
  BY <1>1, <1>4
<1>. QED  BY <1>5, Zenon DEF Least

\* Slots are positive, so the null pointer and &ticks are no slots; slot 1 is one.
LEMMA SlotFacts ==
  /\ Slot \subseteq Nat
  /\ None \notin Slot
  /\ Ticks \notin Slot
  /\ Ticks # None
  /\ initproc \in Slot
BY ProcAssumption DEF Slot, None, Ticks, initproc

\* userinit() leaves a table that satisfies the invariant.
LEMMA InitProcInv == Init => ProcInv
<1> SUFFICES ASSUME Init PROVE ProcInv
  OBVIOUS
<1>. USE SlotFacts, ProcAssumption
<1>1. TypeOK
  BY DEF Init, TypeOK, States, Pcs
<1>2. OneProcessor
  BY DEF Init, OneProcessor
<1>3. PidInv
  BY DEF Init, PidInv, UniquePid
<1>4. ForkInv
  BY DEF Init, ForkInv, EmbryoOwned
<1>5. InitInv
  BY DEF Init, InitInv, Live
<1>6. ParentAlive /\ NoMissedExit
  BY DEF Init, ParentAlive, NoMissedExit, Live
<1>. QED  BY <1>1, <1>2, <1>3, <1>4, <1>5, <1>6 DEF ProcInv

\* Steps that change neither the table nor who runs, but for pc, and leave
\* fork() alone, preserve the invariant.
LEMMA PcOnlyInv ==
  ASSUME ProcInv, UNCHANGED <<table, np, cpu>>,
         pc' \in [Slot -> Pcs], scan' = scan, current_proc' = current_proc,
         nextpid' = nextpid, panicked' \in {0, 1},
         \A f \in Slot : /\ pc'[f] = "fork" <=> pc[f] = "fork"
                         /\ pc'[f] = "forked" <=> pc[f] = "forked",
         pc'[initproc] # "exit"
  PROVE  ProcInv'
<1>1. TypeOK'
  BY DEF ProcInv, TypeOK, table
<1>2. OneProcessor'
  BY DEF ProcInv, OneProcessor, table
<1>3. PidInv'
  BY DEF ProcInv, PidInv, UniquePid, table
<1>4. ForkInv'
  BY DEF ProcInv, ForkInv, EmbryoOwned, Live, table
<1>5. InitInv'
  BY DEF ProcInv, InitInv, Live, table
<1>6. ParentAlive' /\ NoMissedExit'
  BY DEF ProcInv, ParentAlive, NoMissedExit, Live, Children, table
<1>. QED  BY <1>1, <1>2, <1>3, <1>4, <1>5, <1>6 DEF ProcInv

\* allocproc() takes a free slot and a fresh pid: the invariant holds after it.
LEMMA AllocProcInv ==
  ASSUME NEW p \in Slot, ProcInv, AllocProc(p)
  PROVE  ProcInv'
<1> DEFINE n == Least(Free)
<1>1. n \in Slot /\ state[n] = "UNUSED" /\ n # p /\ n # initproc
  <2>1. n \in Free
    BY LeastIn DEF AllocProc, Free
  <2>. QED  BY <2>1 DEF ProcInv, InitInv, Live, AllocProc, Running, Free
<1>2. /\ Running(p) /\ pc[p] = "syscall"
      /\ state' = [state EXCEPT ![n] = "EMBRYO"]
      /\ pid' = [pid EXCEPT ![n] = nextpid]
      /\ nextpid' = nextpid + 1
      /\ np' = [np EXCEPT ![p] = n]
      /\ pc' = [pc EXCEPT ![p] = "fork"]
      /\ UNCHANGED <<parent, killed, chan, uid, cpu, scan, current_proc, panicked>>
  BY DEF AllocProc, NextPid
<1>. HIDE DEF n
<1>. USE SlotFacts
<1>3. TypeOK'
  BY <1>1, <1>2 DEF ProcInv, TypeOK, States, Pcs
<1>4. OneProcessor'
  BY <1>1, <1>2 DEF ProcInv, TypeOK, OneProcessor
<1>5. PidInv'
  BY <1>1, <1>2 DEF ProcInv, TypeOK, PidInv, UniquePid
<1>6. ForkInv'
  BY <1>1, <1>2 DEF ProcInv, TypeOK, ForkInv, EmbryoOwned, ParentAlive, Live, Running
<1>7. InitInv'
  BY <1>1, <1>2 DEF ProcInv, TypeOK, InitInv, Live
<1>8. ParentAlive'
  BY <1>1, <1>2 DEF ProcInv, TypeOK, ParentAlive, Live
<1>9. NoMissedExit'
  BY <1>1, <1>2 DEF ProcInv, TypeOK, NoMissedExit, Children
<1>. QED  BY <1>3, <1>4, <1>5, <1>6, <1>7, <1>8, <1>9 DEF ProcInv

\* fork() without a free slot changes nothing the invariant speaks of.
LEMMA ForkNoSlotInv ==
  ASSUME NEW p \in Slot, ProcInv, ForkNoSlot(p)
  PROVE  ProcInv'
<1>1. pc' \in [Slot -> Pcs]
  BY DEF ProcInv, TypeOK, ForkNoSlot, ForkReturnsError, Pcs
<1>2. /\ \A f \in Slot : /\ pc'[f] = "fork" <=> pc[f] = "fork"
                         /\ pc'[f] = "forked" <=> pc[f] = "forked"
      /\ pc'[initproc] # "exit"
  BY SlotFacts DEF ProcInv, TypeOK, InitInv, ForkNoSlot, ForkReturnsError
<1>. QED  BY <1>1, <1>2, PcOnlyInv DEF ForkNoSlot, ProcInv, TypeOK

\* A wait() that returns -1 preserves the invariant.
LEMMA WaitErrorInv ==
  ASSUME NEW p \in Slot, ProcInv, WaitError(p)
  PROVE  ProcInv'
<1>1. pc' \in [Slot -> Pcs]
  BY DEF ProcInv, TypeOK, WaitError, Return, Pcs
<1>2. /\ \A f \in Slot : /\ pc'[f] = "fork" <=> pc[f] = "fork"
                         /\ pc'[f] = "forked" <=> pc[f] = "forked"
      /\ pc'[initproc] # "exit"
  BY SlotFacts DEF ProcInv, TypeOK, InitInv, WaitError, Return
<1>. QED  BY <1>1, <1>2, PcOnlyInv DEF WaitError, ProcInv, TypeOK

\* sys_sleep()'s test of killed preserves the invariant.
LEMMA SleepCheckInv ==
  ASSUME NEW p \in Slot, ProcInv, SleepCheck(p)
  PROVE  ProcInv'
<1>1. pc' \in [Slot -> Pcs]
  BY DEF ProcInv, TypeOK, SleepCheck, SleepLoop, Pcs
<1>2. /\ \A f \in Slot : /\ pc'[f] = "fork" <=> pc[f] = "fork"
                         /\ pc'[f] = "forked" <=> pc[f] = "forked"
      /\ pc'[initproc] # "exit"
  BY SlotFacts DEF ProcInv, TypeOK, InitInv, SleepCheck, SleepLoop
<1>. QED  BY <1>1, <1>2, PcOnlyInv DEF SleepCheck, SleepLoop, ProcInv, TypeOK

\* Entering a system call preserves the invariant.
LEMMA EnterSyscallInv ==
  ASSUME NEW p \in Slot, ProcInv, EnterSyscall(p)
  PROVE  ProcInv'
<1>1. pc' \in [Slot -> Pcs]
  BY DEF ProcInv, TypeOK, EnterSyscall, Pcs
<1>2. /\ \A f \in Slot : /\ pc'[f] = "fork" <=> pc[f] = "fork"
                         /\ pc'[f] = "forked" <=> pc[f] = "forked"
      /\ pc'[initproc] # "exit"
  BY SlotFacts DEF ProcInv, TypeOK, InitInv, EnterSyscall
<1>. QED  BY <1>1, <1>2, PcOnlyInv DEF EnterSyscall, ProcInv, TypeOK

\* A system call that leaves the table alone preserves the invariant.
LEMMA OtherSyscallInv ==
  ASSUME NEW p \in Slot, ProcInv, OtherSyscall(p)
  PROVE  ProcInv'
<1>1. pc' \in [Slot -> Pcs]
  BY DEF ProcInv, TypeOK, OtherSyscall, Return, Pcs
<1>2. /\ \A f \in Slot : /\ pc'[f] = "fork" <=> pc[f] = "fork"
                         /\ pc'[f] = "forked" <=> pc[f] = "forked"
      /\ pc'[initproc] # "exit"
  BY SlotFacts DEF ProcInv, TypeOK, InitInv, OtherSyscall, Return
<1>. QED  BY <1>1, <1>2, PcOnlyInv DEF OtherSyscall, ProcInv, TypeOK

\* The first part of exit(), its panic for init included, preserves the invariant.
LEMMA ExitStartInv ==
  ASSUME NEW p \in Slot, ProcInv, ExitStart(p)
  PROVE  ProcInv'
<1>1. pc' \in [Slot -> Pcs] /\ panicked' \in {0, 1}
  BY DEF ProcInv, TypeOK, ExitStart, Pcs
<1>2. /\ \A f \in Slot : /\ pc'[f] = "fork" <=> pc[f] = "fork"
                         /\ pc'[f] = "forked" <=> pc[f] = "forked"
      /\ pc'[initproc] # "exit"
  BY SlotFacts DEF ProcInv, TypeOK, InitInv, ExitStart
<1>. QED  BY <1>1, <1>2, PcOnlyInv DEF ExitStart

\* Inside fork() the child's slot is an EMBRYO of its own, whose parent is set
\* once the copying is done.
LEMMA ForkFacts ==
  ASSUME ProcInv, NEW p \in Slot, pc[p] \in {"fork", "forked"}
  PROVE  /\ np[p] \in Slot /\ state[np[p]] = "EMBRYO"
         /\ np[p] # p /\ np[p] # initproc
         /\ parent[np[p]] = IF pc[p] = "forked" THEN p ELSE None
         /\ np[np[p]] = None
         /\ \A f \in Slot : np[f] = np[p] => f = p
<1>1. np[p] # None /\ np[p] \in Slot
  BY DEF ProcInv, TypeOK, ForkInv
<1>2. /\ state[p] \in {"RUNNABLE", "RUNNING"}
      /\ state[np[p]] = "EMBRYO"
      /\ parent[np[p]] = IF pc[p] = "forked" THEN p ELSE None
  BY <1>1 DEF ProcInv, ForkInv
<1>3. np[p] # p /\ np[p] # initproc
  BY <1>2 DEF ProcInv, InitInv, Live
<1>4. np[np[p]] = None
  BY <1>1, <1>2 DEF ProcInv, ForkInv
<1>5. \A f \in Slot : np[f] = np[p] => f = p
  BY <1>1 DEF ProcInv, ForkInv, EmbryoOwned
<1>. QED  BY <1>1, <1>2, <1>3, <1>4, <1>5

\* A fork() that runs out of memory gives the slot back: the invariant holds.
LEMMA ForkNoMemoryInv ==
  ASSUME NEW p \in Slot, ProcInv, ForkNoMemory(p)
  PROVE  ProcInv'
<1>1. /\ np[p] \in Slot /\ state[np[p]] = "EMBRYO" /\ np[p] # p /\ np[p] # initproc
      /\ parent[np[p]] = IF pc[p] = "forked" THEN p ELSE None
      /\ np[np[p]] = None
      /\ \A f \in Slot : np[f] = np[p] => f = p
  BY ForkFacts DEF ForkNoMemory
<1>2. /\ pc[p] = "fork" /\ state[p] = "RUNNING"
      /\ state' = [state EXCEPT ![np[p]] = "UNUSED"]
      /\ np' = [np EXCEPT ![p] = None]
      /\ pc' = [pc EXCEPT ![p] = IF p = initproc THEN "failed" ELSE "user"]
      /\ UNCHANGED <<pid, parent, killed, chan, uid, cpu, scan, current_proc, nextpid, panicked>>
  BY DEF ForkNoMemory, ForkReturnsError, Running
<1>. USE SlotFacts
<1>3. TypeOK'
  BY <1>1, <1>2 DEF ProcInv, TypeOK, States, Pcs
<1>4. OneProcessor'
  BY <1>1, <1>2 DEF ProcInv, TypeOK, OneProcessor
<1>5. PidInv'
  BY <1>1, <1>2 DEF ProcInv, TypeOK, PidInv, UniquePid
<1>6. ForkInv'
  <2>1. ASSUME NEW q \in Slot, state'[q] = "EMBRYO"
        PROVE  \E f \in Live' : np'[f] = q
    <3>1. state[q] = "EMBRYO" /\ (state'[np[p]] # "EMBRYO" => q # np[p])
      BY <1>1, <1>2, <2>1 DEF ProcInv, TypeOK
    <3>2. PICK f \in Live : np[f] = q
      BY <3>1 DEF ProcInv, ForkInv, EmbryoOwned
    <3>3. f \in Live' /\ np'[f] = q
      BY <1>1, <1>2, <3>1, <3>2 DEF ProcInv, TypeOK, Live
    <3>. QED  BY <3>3
  <2>2. ASSUME NEW f \in Slot, NEW g \in Slot, np'[f] = np'[g], np'[f] # None
        PROVE  f = g
    <3>1. np[f] = np[g] /\ np[f] # None
      BY <1>1, <1>2, <2>2 DEF ProcInv, TypeOK
    <3>. QED  BY <3>1 DEF ProcInv, ForkInv, EmbryoOwned
  <2>3. ASSUME NEW f \in Slot, np'[f] # None
        PROVE  /\ state'[f] \in {"RUNNABLE", "RUNNING"}
               /\ state'[np'[f]] = "EMBRYO"
               /\ parent'[np'[f]] = IF pc'[f] = "forked" THEN f ELSE None
    <3>1. np[f] # None /\ np'[f] = np[f] /\ np[f] \in Slot
      BY <1>1, <1>2, <2>3 DEF ProcInv, TypeOK
    <3>2. /\ state[f] \in {"RUNNABLE", "RUNNING"}
          /\ state[np[f]] = "EMBRYO"
          /\ parent[np[f]] = IF pc[f] = "forked" THEN f ELSE None
      BY <3>1 DEF ProcInv, ForkInv
    <3>. QED  BY <1>1, <1>2, <2>3, <3>1, <3>2 DEF ProcInv, TypeOK
  <2>4. ASSUME NEW f \in Slot
        PROVE  np'[f] # None <=> pc'[f] \in {"fork", "forked"}
    BY <1>1, <1>2 DEF ProcInv, TypeOK, ForkInv
  <2>. QED  BY <2>1, <2>2, <2>3, <2>4 DEF ForkInv, EmbryoOwned
<1>7. InitInv'
  BY <1>1, <1>2 DEF ProcInv, TypeOK, InitInv, Live
<1>8. ParentAlive'
  BY <1>1, <1>2 DEF ProcInv, TypeOK, ParentAlive, Live, InitInv
<1>9. NoMissedExit'
  BY <1>1, <1>2 DEF ProcInv, TypeOK, NoMissedExit, Children
<1>. QED  BY <1>3, <1>4, <1>5, <1>6, <1>7, <1>8, <1>9 DEF ProcInv

\* Setting the child's parent preserves the invariant.
LEMMA ForkCopyInv ==
  ASSUME NEW p \in Slot, ProcInv, ForkCopy(p)
  PROVE  ProcInv'
<1>1. /\ np[p] \in Slot /\ state[np[p]] = "EMBRYO" /\ np[p] # p /\ np[p] # initproc
      /\ parent[np[p]] = IF pc[p] = "forked" THEN p ELSE None
      /\ np[np[p]] = None
      /\ \A f \in Slot : np[f] = np[p] => f = p
  BY ForkFacts DEF ForkCopy
<1>2. /\ pc[p] = "fork" /\ state[p] = "RUNNING"
      /\ parent' = [parent EXCEPT ![np[p]] = p]
      /\ pc' = [pc EXCEPT ![p] = "forked"]
      /\ UNCHANGED <<state, pid, killed, chan, uid, np, cpu, scan, current_proc, nextpid, panicked>>
  BY DEF ForkCopy, Running
<1>. USE SlotFacts
<1>3. TypeOK'
  BY <1>1, <1>2 DEF ProcInv, TypeOK, States, Pcs
<1>4. OneProcessor'
  BY <1>1, <1>2 DEF ProcInv, TypeOK, OneProcessor
<1>5. PidInv'
  BY <1>1, <1>2 DEF ProcInv, TypeOK, PidInv, UniquePid
<1>6. ForkInv'
  <2>1. ASSUME NEW q \in Slot, state'[q] = "EMBRYO"
        PROVE  \E f \in Live' : np'[f] = q
    <3>1. state[q] = "EMBRYO" /\ (state'[np[p]] # "EMBRYO" => q # np[p])
      BY <1>1, <1>2, <2>1 DEF ProcInv, TypeOK
    <3>2. PICK f \in Live : np[f] = q
      BY <3>1 DEF ProcInv, ForkInv, EmbryoOwned
    <3>3. f \in Live' /\ np'[f] = q
      BY <1>1, <1>2, <3>1, <3>2 DEF ProcInv, TypeOK, Live
    <3>. QED  BY <3>3
  <2>2. ASSUME NEW f \in Slot, NEW g \in Slot, np'[f] = np'[g], np'[f] # None
        PROVE  f = g
    <3>1. np[f] = np[g] /\ np[f] # None
      BY <1>1, <1>2, <2>2 DEF ProcInv, TypeOK
    <3>. QED  BY <3>1 DEF ProcInv, ForkInv, EmbryoOwned
  <2>3. ASSUME NEW f \in Slot, np'[f] # None
        PROVE  /\ state'[f] \in {"RUNNABLE", "RUNNING"}
               /\ state'[np'[f]] = "EMBRYO"
               /\ parent'[np'[f]] = IF pc'[f] = "forked" THEN f ELSE None
    <3>1. np[f] # None /\ np'[f] = np[f] /\ np[f] \in Slot
      BY <1>1, <1>2, <2>3 DEF ProcInv, TypeOK
    <3>2. /\ state[f] \in {"RUNNABLE", "RUNNING"}
          /\ state[np[f]] = "EMBRYO"
          /\ parent[np[f]] = IF pc[f] = "forked" THEN f ELSE None
      BY <3>1 DEF ProcInv, ForkInv
    <3>. QED  BY <1>1, <1>2, <2>3, <3>1, <3>2 DEF ProcInv, TypeOK
  <2>4. ASSUME NEW f \in Slot
        PROVE  np'[f] # None <=> pc'[f] \in {"fork", "forked"}
    BY <1>1, <1>2 DEF ProcInv, TypeOK, ForkInv
  <2>. QED  BY <2>1, <2>2, <2>3, <2>4 DEF ForkInv, EmbryoOwned
<1>7. InitInv'
  BY <1>1, <1>2 DEF ProcInv, TypeOK, InitInv, Live
<1>8. ParentAlive'
  BY <1>1, <1>2 DEF ProcInv, TypeOK, ParentAlive, Live, InitInv
<1>9. NoMissedExit'
  BY <1>1, <1>2 DEF ProcInv, TypeOK, NoMissedExit, Children
<1>. QED  BY <1>3, <1>4, <1>5, <1>6, <1>7, <1>8, <1>9 DEF ProcInv

\* Making the child RUNNABLE preserves the invariant.
LEMMA ForkDoneInv ==
  ASSUME NEW p \in Slot, ProcInv, ForkDone(p)
  PROVE  ProcInv'
<1>1. /\ np[p] \in Slot /\ state[np[p]] = "EMBRYO" /\ np[p] # p /\ np[p] # initproc
      /\ parent[np[p]] = IF pc[p] = "forked" THEN p ELSE None
      /\ np[np[p]] = None
      /\ \A f \in Slot : np[f] = np[p] => f = p
  BY ForkFacts DEF ForkDone
<1>2. /\ pc[p] = "forked" /\ state[p] = "RUNNING"
      /\ state' = [state EXCEPT ![np[p]] = "RUNNABLE"]
      /\ pc' = [pc EXCEPT ![np[p]] = "user", ![p] = "user"]
      /\ np' = [np EXCEPT ![p] = None]
      /\ UNCHANGED <<pid, parent, killed, chan, uid, cpu, scan, current_proc, nextpid, panicked>>
  BY DEF ForkDone, Running
<1>. USE SlotFacts
<1>3. TypeOK'
  BY <1>1, <1>2 DEF ProcInv, TypeOK, States, Pcs
<1>4. OneProcessor'
  BY <1>1, <1>2 DEF ProcInv, TypeOK, OneProcessor
<1>5. PidInv'
  BY <1>1, <1>2 DEF ProcInv, TypeOK, PidInv, UniquePid
<1>6. ForkInv'
  <2>1. ASSUME NEW q \in Slot, state'[q] = "EMBRYO"
        PROVE  \E f \in Live' : np'[f] = q
    <3>1. state[q] = "EMBRYO" /\ (state'[np[p]] # "EMBRYO" => q # np[p])
      BY <1>1, <1>2, <2>1 DEF ProcInv, TypeOK
    <3>2. PICK f \in Live : np[f] = q
      BY <3>1 DEF ProcInv, ForkInv, EmbryoOwned
    <3>3. f \in Live' /\ np'[f] = q
      BY <1>1, <1>2, <3>1, <3>2 DEF ProcInv, TypeOK, Live
    <3>. QED  BY <3>3
  <2>2. ASSUME NEW f \in Slot, NEW g \in Slot, np'[f] = np'[g], np'[f] # None
        PROVE  f = g
    <3>1. np[f] = np[g] /\ np[f] # None
      BY <1>1, <1>2, <2>2 DEF ProcInv, TypeOK
    <3>. QED  BY <3>1 DEF ProcInv, ForkInv, EmbryoOwned
  <2>3. ASSUME NEW f \in Slot, np'[f] # None
        PROVE  /\ state'[f] \in {"RUNNABLE", "RUNNING"}
               /\ state'[np'[f]] = "EMBRYO"
               /\ parent'[np'[f]] = IF pc'[f] = "forked" THEN f ELSE None
    <3>1. np[f] # None /\ np'[f] = np[f] /\ np[f] \in Slot
      BY <1>1, <1>2, <2>3 DEF ProcInv, TypeOK
    <3>2. /\ state[f] \in {"RUNNABLE", "RUNNING"}
          /\ state[np[f]] = "EMBRYO"
          /\ parent[np[f]] = IF pc[f] = "forked" THEN f ELSE None
      BY <3>1 DEF ProcInv, ForkInv
    <3>. QED  BY <1>1, <1>2, <2>3, <3>1, <3>2 DEF ProcInv, TypeOK
  <2>4. ASSUME NEW f \in Slot
        PROVE  np'[f] # None <=> pc'[f] \in {"fork", "forked"}
    BY <1>1, <1>2 DEF ProcInv, TypeOK, ForkInv
  <2>. QED  BY <2>1, <2>2, <2>3, <2>4 DEF ForkInv, EmbryoOwned
<1>7. InitInv'
  BY <1>1, <1>2 DEF ProcInv, TypeOK, InitInv, Live
<1>8. ParentAlive'
  BY <1>1, <1>2 DEF ProcInv, TypeOK, ParentAlive, Live, InitInv
<1>9. NoMissedExit'
  BY <1>1, <1>2 DEF ProcInv, TypeOK, NoMissedExit, Children
<1>. QED  BY <1>3, <1>4, <1>5, <1>6, <1>7, <1>8, <1>9 DEF ProcInv

\* What a step of the scheduler, of sleep() and of wakeup() may do to the table:
\* live slots stay live, the others keep their state.
KeepsLives ==
  \A q \in Slot : state'[q] = state[q] \/ (q \in Live /\ q \in Live')

\* Such a step keeps what the invariant says about fork(), init and parents, if
\* it puts nobody to sleep inside fork().
LEMMA KeepsLivesInv ==
  ASSUME ProcInv, KeepsLives, state' \in [Slot -> States],
         UNCHANGED <<pid, parent, np, nextpid>>,
         \A f \in Slot : pc'[f] = pc[f] \/ (np[f] = None /\ pc'[f] \notin {"fork", "forked", "exit"}),
         \A f \in Slot : np[f] # None => state'[f] \in {"RUNNABLE", "RUNNING"}
  PROVE  PidInv' /\ ForkInv' /\ InitInv' /\ ParentAlive'
<1>. USE SlotFacts
<1>1. Live' = Live
  BY Zenon DEF KeepsLives, Live
<1>2. \A q \in Slot : \A st \in {"UNUSED", "EMBRYO", "ZOMBIE"} : state'[q] = st <=> state[q] = st
  BY DEF KeepsLives, Live
<1>3. PidInv'
  BY <1>2 DEF ProcInv, PidInv, UniquePid
<1>4. ForkInv'
  <2>1. EmbryoOwned'
    BY <1>1, <1>2 DEF ProcInv, ForkInv, EmbryoOwned
  <2>2. ASSUME NEW f \in Slot, np[f] # None
        PROVE  /\ state'[np[f]] = "EMBRYO"
               /\ parent[np[f]] = IF pc'[f] = "forked" THEN f ELSE None
    <3>1. np[f] \in Slot /\ pc'[f] = pc[f]
      BY <2>2 DEF ProcInv, TypeOK
    <3>2. state[np[f]] = "EMBRYO" /\ parent[np[f]] = IF pc[f] = "forked" THEN f ELSE None
      BY <2>2 DEF ProcInv, ForkInv
    <3>. QED  BY Zenon, <1>2, <3>1, <3>2
  <2>3. ASSUME NEW f \in Slot
        PROVE  np[f] # None <=> pc'[f] \in {"fork", "forked"}
    BY DEF ProcInv, ForkInv
  <2>. QED  BY <2>1, <2>2, <2>3 DEF ForkInv
<1>5. InitInv'
  BY <1>1 DEF ProcInv, InitInv
<1>6. ParentAlive'
  <2>1. \A q \in Slot : state'[q] \in {"SLEEPING", "RUNNABLE", "RUNNING", "ZOMBIE"}
                       => state[q] \in {"SLEEPING", "RUNNABLE", "RUNNING", "ZOMBIE"}
    BY DEF KeepsLives, Live
  <2>. QED  BY <1>1, <1>2, <2>1 DEF ProcInv, ParentAlive
<1>. QED  BY <1>3, <1>4, <1>5, <1>6

\* The sleep of wait() preserves the invariant: it has a child and none is a zombie.
LEMMA WaitSleepInv ==
  ASSUME NEW p \in Slot, ProcInv, WaitSleep(p)
  PROVE  ProcInv'
<1>1. state[p] = "RUNNING" /\ cpu' = [c \in CPU |-> IF cpu[c] = p THEN None ELSE cpu[c]]
  BY DEF WaitSleep, Running, LeaveCpu
<1>2. /\ pc[p] \in {"syscall", "wait"} /\ killed[p] = 0
      /\ Children(p) # {}
      /\ \A q \in Children(p) : state[q] # "ZOMBIE"
      /\ state' = [state EXCEPT ![p] = "SLEEPING"]
      /\ chan' = [chan EXCEPT ![p] = p]
      /\ pc' = [pc EXCEPT ![p] = "wait"]
      /\ UNCHANGED <<pid, parent, killed, uid, np, scan, current_proc, nextpid, panicked>>
  BY DEF WaitSleep
<1>. USE SlotFacts
<1>3. TypeOK'
  BY <1>1, <1>2 DEF ProcInv, TypeOK, States, Pcs
<1>4. OneProcessor'
  BY <1>1, <1>2 DEF ProcInv, TypeOK, OneProcessor
<1>5. PidInv' /\ ForkInv' /\ InitInv' /\ ParentAlive'
  <2>1. KeepsLives
    BY <1>1, <1>2 DEF ProcInv, TypeOK, KeepsLives, Live
  <2>2. \A f \in Slot : pc'[f] = pc[f] \/ (np[f] = None /\ pc'[f] \notin {"fork", "forked", "exit"})
    BY <1>1, <1>2 DEF ProcInv, TypeOK, ForkInv
  <2>3. \A f \in Slot : np[f] # None => state'[f] \in {"RUNNABLE", "RUNNING"}
    BY <1>1, <1>2 DEF ProcInv, TypeOK, ForkInv
  <2>. QED  BY <1>2, <1>3, <2>1, <2>2, <2>3, KeepsLivesInv DEF TypeOK
<1>6. NoMissedExit'
  BY <1>1, <1>2 DEF ProcInv, TypeOK, NoMissedExit, Children
<1>. QED  BY <1>3, <1>4, <1>5, <1>6 DEF ProcInv

\* The sleep of sys_sleep() preserves the invariant.
LEMMA SleepTicksInv ==
  ASSUME NEW p \in Slot, ProcInv, SleepTicks(p)
  PROVE  ProcInv'
<1>1. state[p] = "RUNNING" /\ cpu' = [c \in CPU |-> IF cpu[c] = p THEN None ELSE cpu[c]]
  BY DEF SleepTicks, Running, LeaveCpu
<1>2. /\ pc[p] = "sleepy"
      /\ state' = [state EXCEPT ![p] = "SLEEPING"]
      /\ chan' = [chan EXCEPT ![p] = Ticks]
      /\ pc' = [pc EXCEPT ![p] = "dozing"]
      /\ UNCHANGED <<pid, parent, killed, uid, np, scan, current_proc, nextpid, panicked>>
  BY DEF SleepTicks
<1>. USE SlotFacts
<1>3. TypeOK'
  BY <1>1, <1>2 DEF ProcInv, TypeOK, States, Pcs
<1>4. OneProcessor'
  BY <1>1, <1>2 DEF ProcInv, TypeOK, OneProcessor
<1>5. PidInv' /\ ForkInv' /\ InitInv' /\ ParentAlive'
  <2>1. KeepsLives
    BY <1>1, <1>2 DEF ProcInv, TypeOK, KeepsLives, Live
  <2>2. \A f \in Slot : pc'[f] = pc[f] \/ (np[f] = None /\ pc'[f] \notin {"fork", "forked", "exit"})
    BY <1>1, <1>2 DEF ProcInv, TypeOK, ForkInv
  <2>3. \A f \in Slot : np[f] # None => state'[f] \in {"RUNNABLE", "RUNNING"}
    BY <1>1, <1>2 DEF ProcInv, TypeOK, ForkInv
  <2>. QED  BY <1>2, <1>3, <2>1, <2>2, <2>3, KeepsLivesInv DEF TypeOK
<1>6. NoMissedExit'
  BY <1>1, <1>2 DEF ProcInv, TypeOK, NoMissedExit, Children
<1>. QED  BY <1>3, <1>4, <1>5, <1>6 DEF ProcInv

\* yield() preserves the invariant.
LEMMA YieldInv ==
  ASSUME NEW p \in Slot, ProcInv, Yield(p)
  PROVE  ProcInv'
<1>1. state[p] = "RUNNING" /\ cpu' = [c \in CPU |-> IF cpu[c] = p THEN None ELSE cpu[c]]
  BY DEF Yield, Running, LeaveCpu
<1>2. /\ state' = [state EXCEPT ![p] = "RUNNABLE"]
      /\ UNCHANGED <<pid, parent, killed, chan, uid, pc, np, scan, current_proc, nextpid, panicked>>
  BY DEF Yield
<1>. USE SlotFacts
<1>3. TypeOK'
  BY <1>1, <1>2 DEF ProcInv, TypeOK, States, Pcs
<1>4. OneProcessor'
  BY <1>1, <1>2 DEF ProcInv, TypeOK, OneProcessor
<1>5. PidInv' /\ ForkInv' /\ InitInv' /\ ParentAlive'
  <2>1. KeepsLives
    BY <1>1, <1>2 DEF ProcInv, TypeOK, KeepsLives, Live
  <2>2. \A f \in Slot : pc'[f] = pc[f] \/ (np[f] = None /\ pc'[f] \notin {"fork", "forked", "exit"})
    BY <1>1, <1>2 DEF ProcInv, TypeOK, ForkInv
  <2>3. \A f \in Slot : np[f] # None => state'[f] \in {"RUNNABLE", "RUNNING"}
    BY <1>1, <1>2 DEF ProcInv, TypeOK, ForkInv
  <2>. QED  BY <1>2, <1>3, <2>1, <2>2, <2>3, KeepsLivesInv DEF TypeOK
<1>6. NoMissedExit'
  BY <1>1, <1>2 DEF ProcInv, TypeOK, NoMissedExit, Children
<1>. QED  BY <1>3, <1>4, <1>5, <1>6 DEF ProcInv

\* The clock's wakeup(&ticks) preserves the invariant.
LEMMA TickInv == ProcInv /\ Tick => ProcInv'
<1> SUFFICES ASSUME ProcInv, Tick PROVE ProcInv'
  OBVIOUS
<1>1. \A q \in Slot : state'[q] = IF state[q] = "SLEEPING" /\ chan[q] = Ticks
                                THEN "RUNNABLE" ELSE state[q]
  BY DEF Tick, Woken
<1>2. /\ state' \in [Slot -> States]
      /\ UNCHANGED <<pid, parent, killed, chan, uid, pc, np, cpu, scan, current_proc, nextpid, panicked>>
  BY DEF Tick, Woken, ProcInv, TypeOK, States
<1>. USE SlotFacts
<1>3. TypeOK'
  BY <1>1, <1>2 DEF ProcInv, TypeOK, States, Pcs
<1>4. OneProcessor'
  BY <1>1, <1>2 DEF ProcInv, TypeOK, OneProcessor
<1>5. PidInv' /\ ForkInv' /\ InitInv' /\ ParentAlive'
  <2>1. KeepsLives
    BY <1>1, <1>2 DEF ProcInv, TypeOK, KeepsLives, Live
  <2>2. \A f \in Slot : pc'[f] = pc[f] \/ (np[f] = None /\ pc'[f] \notin {"fork", "forked", "exit"})
    BY <1>1, <1>2 DEF ProcInv, TypeOK, ForkInv
  <2>3. \A f \in Slot : np[f] # None => state'[f] \in {"RUNNABLE", "RUNNING"}
    BY <1>1, <1>2 DEF ProcInv, TypeOK, ForkInv
  <2>. QED  BY <1>2, <1>3, <2>1, <2>2, <2>3, KeepsLivesInv DEF TypeOK
<1>6. NoMissedExit'
  BY <1>1, <1>2 DEF ProcInv, TypeOK, NoMissedExit, Children
<1>. QED  BY <1>3, <1>4, <1>5, <1>6 DEF ProcInv

\* The body of kill() preserves the invariant: whom it marks does not stay asleep.
LEMMA KillPidInv ==
  ASSUME ProcInv, NEW k, KillPid(k), pc' \in [Slot -> Pcs],
         \A f \in Slot : pc'[f] = pc[f] \/ (pc[f] = "syscall" /\ pc'[f] = "user")
  PROVE  ProcInv'
<1> DEFINE found == {q \in Slot : pid[q] = k}
           t == Least(found)
<1>1. t \in Slot
  <2>1. t \in found
    BY LeastIn DEF KillPid, Roused
  <2>. QED  BY <2>1
<1>2. /\ killed' = [killed EXCEPT ![t] = 1]
      /\ state' = [state EXCEPT ![t] = IF @ = "SLEEPING" THEN "RUNNABLE" ELSE @]
      /\ UNCHANGED <<pid, parent, chan, uid, np, cpu, scan, current_proc, nextpid, panicked>>
  BY DEF KillPid, Roused
<1>. HIDE DEF t
<1>. USE SlotFacts
<1>3. TypeOK'
  BY <1>1, <1>2 DEF ProcInv, TypeOK, States, Pcs
<1>4. OneProcessor'
  BY <1>1, <1>2 DEF ProcInv, TypeOK, OneProcessor
<1>5. PidInv' /\ ForkInv' /\ InitInv' /\ ParentAlive'
  <2>1. KeepsLives
    BY <1>1, <1>2 DEF ProcInv, TypeOK, KeepsLives, Live
  <2>2. \A f \in Slot : pc'[f] = pc[f] \/ (np[f] = None /\ pc'[f] \notin {"fork", "forked", "exit"})
    BY <1>1, <1>2 DEF ProcInv, TypeOK, ForkInv
  <2>3. \A f \in Slot : np[f] # None => state'[f] \in {"RUNNABLE", "RUNNING"}
    BY <1>1, <1>2 DEF ProcInv, TypeOK, ForkInv
  <2>. QED  BY <1>2, <1>3, <2>1, <2>2, <2>3, KeepsLivesInv DEF TypeOK
<1>6. NoMissedExit'
  BY <1>1, <1>2 DEF ProcInv, TypeOK, NoMissedExit, Children
<1>. QED  BY <1>3, <1>4, <1>5, <1>6 DEF ProcInv

\* sys_kill() preserves the invariant.
LEMMA KillInv ==
  ASSUME NEW p \in Slot, ProcInv, NEW k, Kill(p, k)
  PROVE  ProcInv'
BY KillPidInv DEF Kill, Return, ProcInv, TypeOK, Pcs

\* killcur() preserves the invariant.
LEMMA KillCurInv == ProcInv /\ KillCur => ProcInv'
BY KillPidInv DEF KillCur, ProcInv, TypeOK

\* A fault in user mode preserves the invariant.
LEMMA UserFaultInv ==
  ASSUME NEW p \in Slot, ProcInv, UserFault(p)
  PROVE  ProcInv'
<1>1. state[p] = "RUNNING"
  BY DEF UserFault, Running
<1>2. /\ killed' = [killed EXCEPT ![p] = 1]
      /\ UNCHANGED <<state, pid, parent, chan, uid, pc, np, cpu, scan, current_proc, nextpid, panicked>>
  BY DEF UserFault
<1>. USE SlotFacts
<1>3. TypeOK'
  BY <1>1, <1>2 DEF ProcInv, TypeOK, States, Pcs
<1>4. OneProcessor'
  BY <1>1, <1>2 DEF ProcInv, TypeOK, OneProcessor
<1>5. PidInv' /\ ForkInv' /\ InitInv' /\ ParentAlive'
  <2>1. KeepsLives
    BY <1>1, <1>2 DEF ProcInv, TypeOK, KeepsLives, Live
  <2>2. \A f \in Slot : pc'[f] = pc[f] \/ (np[f] = None /\ pc'[f] \notin {"fork", "forked", "exit"})
    BY <1>1, <1>2 DEF ProcInv, TypeOK, ForkInv
  <2>3. \A f \in Slot : np[f] # None => state'[f] \in {"RUNNABLE", "RUNNING"}
    BY <1>1, <1>2 DEF ProcInv, TypeOK, ForkInv
  <2>. QED  BY <1>2, <1>3, <2>1, <2>2, <2>3, KeepsLivesInv DEF TypeOK
<1>6. NoMissedExit'
  BY <1>1, <1>2 DEF ProcInv, TypeOK, NoMissedExit, Children
<1>. QED  BY <1>3, <1>4, <1>5, <1>6 DEF ProcInv

\* sys_setuid() preserves the invariant.
LEMMA SetUidInv ==
  ASSUME NEW p \in Slot, ProcInv, NEW u \in Uid, SetUid(p, u)
  PROVE  ProcInv'
<1>1. state[p] = "RUNNING" /\ pc[p] = "syscall"
  BY DEF SetUid, Running
<1>2. /\ uid' = [uid EXCEPT ![p] = u]
      /\ pc' = [pc EXCEPT ![p] = "user"]
      /\ UNCHANGED <<state, pid, parent, killed, chan, np, cpu, scan, current_proc, nextpid, panicked>>
  BY DEF SetUid, Return
<1>. USE SlotFacts
<1>3. TypeOK'
  BY <1>1, <1>2 DEF ProcInv, TypeOK, States, Pcs
<1>4. OneProcessor'
  BY <1>1, <1>2 DEF ProcInv, TypeOK, OneProcessor
<1>5. PidInv' /\ ForkInv' /\ InitInv' /\ ParentAlive'
  <2>1. KeepsLives
    BY <1>1, <1>2 DEF ProcInv, TypeOK, KeepsLives, Live
  <2>2. \A f \in Slot : pc'[f] = pc[f] \/ (np[f] = None /\ pc'[f] \notin {"fork", "forked", "exit"})
    BY <1>1, <1>2 DEF ProcInv, TypeOK, ForkInv
  <2>3. \A f \in Slot : np[f] # None => state'[f] \in {"RUNNABLE", "RUNNING"}
    BY <1>1, <1>2 DEF ProcInv, TypeOK, ForkInv
  <2>. QED  BY <1>2, <1>3, <2>1, <2>2, <2>3, KeepsLivesInv DEF TypeOK
<1>6. NoMissedExit'
  BY <1>1, <1>2 DEF ProcInv, TypeOK, NoMissedExit, Children
<1>. QED  BY <1>3, <1>4, <1>5, <1>6 DEF ProcInv

\* The rest of the invariant does not depend on scan, current_proc or panicked.
LEMMA SameTable ==
  ASSUME ProcInv, TypeOK', UNCHANGED <<state, pid, parent, killed, chan, pc, np, cpu, nextpid>>
  PROVE  ProcInv'
<1>1. OneProcessor'
  BY DEF ProcInv, OneProcessor
<1>2. PidInv'
  BY DEF ProcInv, PidInv, UniquePid
<1>3. Live' = Live
  BY DEF Live
<1>4. ForkInv'
  <2>1. EmbryoOwned
    BY DEF ProcInv, ForkInv
  <2>2. EmbryoOwned'
    BY <1>3, <2>1 DEF EmbryoOwned
  <2>. QED  BY <2>2 DEF ProcInv, ForkInv
<1>5. InitInv' /\ ParentAlive'
  BY <1>3 DEF ProcInv, InitInv, ParentAlive
<1>6. NoMissedExit'
  BY DEF ProcInv, NoMissedExit, Children
<1>. QED  BY <1>1, <1>2, <1>4, <1>5, <1>6 DEF ProcInv

\* scheduler() preserves the invariant, whether it finds a process or not.
LEMMA SchedulerInv ==
  ASSUME NEW c \in CPU, ProcInv, Scheduler(c)
  PROVE  ProcInv'
<1> DEFINE p == Least(Ready(c))
<1>a. CASE Ready(c) = {}
  <2>1. scan' \in [CPU -> Nat]
    BY <1>a DEF Scheduler, ProcInv, TypeOK
  <2>2. UNCHANGED <<state, pid, parent, killed, chan, uid, pc, np, cpu, current_proc, nextpid, panicked>>
    BY <1>a DEF Scheduler
  <2>3. TypeOK'
    BY <2>1, <2>2 DEF ProcInv, TypeOK
  <2>. QED  BY <2>2, <2>3, SameTable
<1>b. CASE Ready(c) # {}
  <2>1. p \in Slot /\ state[p] = "RUNNABLE" /\ cpu[c] = None
    <3>1. p \in Ready(c)
      BY <1>b, LeastIn DEF Ready
    <3>. QED  BY <3>1 DEF Scheduler, Ready
  <2>2. /\ cpu' = [cpu EXCEPT ![c] = p]
        /\ state' = [state EXCEPT ![p] = "RUNNING"]
        /\ chan' = [chan EXCEPT ![p] = None]
        /\ current_proc' = p
        /\ scan' = [scan EXCEPT ![c] = p + 1]
        /\ UNCHANGED <<pid, parent, killed, uid, pc, np, nextpid, panicked>>
    BY <1>b DEF Scheduler
  <2>. HIDE DEF p
  <2>. USE SlotFacts
  <2>3. TypeOK'
    BY <2>1, <2>2 DEF ProcInv, TypeOK, States
  <2>4. OneProcessor'
    BY <2>1, <2>2 DEF ProcInv, TypeOK, OneProcessor
  <2>5. PidInv' /\ ForkInv' /\ InitInv' /\ ParentAlive'
    <3>1. KeepsLives
      BY <2>1, <2>2 DEF ProcInv, TypeOK, KeepsLives, Live
    <3>2. \A f \in Slot : np[f] # None => state'[f] \in {"RUNNABLE", "RUNNING"}
      BY <2>1, <2>2 DEF ProcInv, TypeOK, ForkInv
    <3>. QED  BY <2>2, <2>3, <3>1, <3>2, KeepsLivesInv DEF TypeOK
  <2>6. NoMissedExit'
    BY <2>1, <2>2 DEF ProcInv, TypeOK, NoMissedExit, Children
  <2>. QED  BY <2>3, <2>4, <2>5, <2>6 DEF ProcInv
<1>. QED  BY <1>a, <1>b

\* A wait() that reaps a zombie preserves the invariant.
LEMMA WaitReapInv ==
  ASSUME NEW p \in Slot, ProcInv, WaitReap(p)
  PROVE  ProcInv'
<1> DEFINE zombies == Zombies(p)
           q == Least(zombies)
<1>1. /\ q \in Slot /\ state[q] = "ZOMBIE" /\ parent[q] = p
      /\ q # p /\ q # initproc /\ np[q] = None
  <2>1. q \in zombies
    BY LeastIn DEF WaitReap, Zombies, Children
  <2>2. q \in Slot /\ state[q] = "ZOMBIE" /\ parent[q] = p
    BY <2>1 DEF Zombies, Children
  <2>. QED  BY Zenon, <2>2, SlotFacts DEF ProcInv, TypeOK, InitInv, ForkInv, WaitReap, Running, Live
<1>2. /\ state[p] = "RUNNING" /\ pc[p] \in {"syscall", "wait"}
      /\ state' = [state EXCEPT ![q] = "UNUSED"]
      /\ pid' = [pid EXCEPT ![q] = 0]
      /\ parent' = [parent EXCEPT ![q] = None]
      /\ killed' = [killed EXCEPT ![q] = 0]
      /\ pc' = [pc EXCEPT ![p] = "user"]
      /\ UNCHANGED <<chan, uid, np, cpu, scan, current_proc, nextpid, panicked>>
  BY DEF WaitReap, Running, Return
<1>. HIDE DEF q
<1>. USE SlotFacts
<1>3. TypeOK'
  BY <1>1, <1>2 DEF ProcInv, TypeOK, States, Pcs
<1>4. OneProcessor'
  BY <1>1, <1>2 DEF ProcInv, TypeOK, OneProcessor
<1>5. PidInv'
  BY <1>1, <1>2 DEF ProcInv, TypeOK, PidInv, UniquePid
<1>6. ForkInv'
  <2>1. Live' = Live
    BY <1>1, <1>2 DEF ProcInv, TypeOK, Live
  <2>2. EmbryoOwned'
    <3>1. \A r \in Slot : state'[r] = "EMBRYO" => state[r] = "EMBRYO"
      BY <1>2 DEF ProcInv, TypeOK
    <3>2. EmbryoOwned /\ np' = np
      BY <1>2 DEF ProcInv, ForkInv
    <3>. QED  BY <2>1, <3>1, <3>2 DEF EmbryoOwned
  <2>3. ASSUME NEW f \in Slot, np[f] # None
        PROVE  /\ state'[f] \in {"RUNNABLE", "RUNNING"}
               /\ state'[np[f]] = "EMBRYO"
               /\ parent'[np[f]] = IF pc'[f] = "forked" THEN f ELSE None
    <3>1. np[f] \in Slot /\ np[f] # q /\ f # q /\ f # p
      BY <1>1, <1>2, <2>3, SMTT(30) DEF ProcInv, TypeOK, ForkInv
    <3>2. /\ state[f] \in {"RUNNABLE", "RUNNING"} /\ state[np[f]] = "EMBRYO"
          /\ parent[np[f]] = IF pc[f] = "forked" THEN f ELSE None
      BY <2>3 DEF ProcInv, ForkInv
    <3>3. /\ state'[f] = state[f] /\ state'[np[f]] = state[np[f]]
          /\ parent'[np[f]] = parent[np[f]] /\ pc'[f] = pc[f]
      BY <1>1, <1>2, <3>1 DEF ProcInv, TypeOK
    <3>. QED  BY <3>2, <3>3
  <2>4. ASSUME NEW f \in Slot
        PROVE  np[f] # None <=> pc'[f] \in {"fork", "forked"}
    <3>1. np[f] # None <=> pc[f] \in {"fork", "forked"}
      BY DEF ProcInv, ForkInv
    <3>2. pc'[f] = IF f = p THEN "user" ELSE pc[f]
      BY <1>2 DEF ProcInv, TypeOK
    <3>3. pc[p] \notin {"fork", "forked"}
      BY <1>2
    <3>. QED  BY <3>1, <3>2, <3>3
  <2>. QED  BY <1>2, <2>2, <2>3, <2>4 DEF ForkInv
<1>7. InitInv'
  BY <1>1, <1>2 DEF ProcInv, TypeOK, InitInv, Live
<1>8. ParentAlive'
  BY <1>1, <1>2 DEF ProcInv, TypeOK, ParentAlive, Live
<1>9. NoMissedExit'
  \* A sleeper other than p keeps its children.
  BY <1>1, <1>2, SMTT(30) DEF ProcInv, TypeOK, NoMissedExit, Children
<1>. QED  BY <1>3, <1>4, <1>5, <1>6, <1>7, <1>8, <1>9 DEF ProcInv

\* The whole of exit() under ptable.lock, seen from each slot: the process becomes
\* a zombie, its parent is awake afterwards, and so is init if it inherits a
\* zombie.
LEMMA ExitInv ==
  ASSUME NEW p \in Slot, ProcInv, Exit(p)
  PROVE  ProcInv'
<1> DEFINE woken == Woken(state, parent[p])
           zombies == Zombies(p)
           rewoken == IF zombies # {} THEN Woken(woken, initproc) ELSE woken
<1>1. /\ state[p] = "RUNNING" /\ pc[p] = "exit" /\ p # initproc /\ np[p] = None
      /\ parent[p] # p /\ parent[p] \in Slot
  <2>1. state[p] = "RUNNING" /\ pc[p] = "exit"
    BY DEF Exit, Running
  <2>2. p # initproc /\ np[p] = None
    BY <2>1 DEF ProcInv, InitInv, ForkInv
  <2>3. parent[p] # p /\ parent[p] # None
    BY <2>1, <2>2 DEF ProcInv, ParentAlive
  <2>4. parent[p] \in Slot
    BY <2>3 DEF ProcInv, TypeOK
  <2>. QED  BY <2>1, <2>2, <2>3, <2>4
<1>2. /\ state' = [rewoken EXCEPT ![p] = "ZOMBIE"]
      /\ parent' = [q \in Slot |-> IF parent[q] = p THEN initproc ELSE parent[q]]
      /\ cpu' = [c \in CPU |-> IF cpu[c] = p THEN None ELSE cpu[c]]
      /\ UNCHANGED <<pid, killed, chan, uid, pc, np, scan, current_proc, nextpid, panicked>>
  BY DEF Exit, LeaveCpu, Adopted
<1>3. \A q \in Slot \ {p} :
        \/ state'[q] = state[q]
        \/ state[q] = "SLEEPING" /\ state'[q] = "RUNNABLE"
  BY <1>2 DEF Woken
<1>4. /\ state'[p] = "ZOMBIE"
      /\ \A q \in Slot : q = parent[p] => state'[q] # "SLEEPING" \/ chan[q] # q
      /\ \A q \in Slot : q = initproc /\ state'[q] = "SLEEPING" /\ chan[q] = q
            => \A z \in Slot : parent[z] = p => state[z] # "ZOMBIE"
  BY <1>1, <1>2, SlotFacts DEF Woken, Zombies, Children, ProcInv, TypeOK
<1>5. state' \in [Slot -> States]
  BY <1>2 DEF Woken, ProcInv, TypeOK, States
<1>6. /\ parent' = [q \in Slot |-> IF parent[q] = p THEN initproc ELSE parent[q]]
      /\ cpu' = [c \in CPU |-> IF cpu[c] = p THEN None ELSE cpu[c]]
      /\ UNCHANGED <<pid, killed, chan, uid, pc, np, scan, current_proc, nextpid, panicked>>
  BY <1>2
<1>. HIDE DEF rewoken
<1>. USE SlotFacts
<1>7. TypeOK'
  BY <1>1, <1>5, <1>6 DEF ProcInv, TypeOK
<1>8. OneProcessor'
  BY <1>1, <1>3, <1>4, <1>6, SMTT(30) DEF ProcInv, TypeOK, OneProcessor
<1>9. PidInv'
  <2>1. \A q \in Slot : state'[q] # "UNUSED" => state[q] # "UNUSED"
    BY <1>1, <1>3, <1>4
  <2>2. pid' = pid /\ nextpid' = nextpid
    BY <1>6
  <2>. QED  BY <2>1, <2>2 DEF ProcInv, PidInv, UniquePid
<1>10. ForkInv'
  <2>1. Live' = Live \ {p}
    BY Zenon, <1>1, <1>3, <1>4 DEF ProcInv, TypeOK, Live
  <2>2. EmbryoOwned'
    <3>1. \A r \in Slot : state'[r] = "EMBRYO" => state[r] = "EMBRYO"
      BY <1>3, <1>4
    <3>2. EmbryoOwned /\ np' = np
      BY <1>6 DEF ProcInv, ForkInv
    <3>3. \A r \in Slot : np[p] # r
      BY <1>1
    <3>. QED  BY <2>1, <3>1, <3>2, <3>3 DEF EmbryoOwned
  <2>3. ASSUME NEW f \in Slot, np[f] # None
        PROVE  /\ state'[f] \in {"RUNNABLE", "RUNNING"}
               /\ state'[np[f]] = "EMBRYO"
               /\ parent'[np[f]] = IF pc'[f] = "forked" THEN f ELSE None
    <3>1. np[f] \in Slot /\ np[f] # p /\ f # p
      BY <1>1, <2>3 DEF ProcInv, TypeOK, ForkInv
    <3>2. /\ state[f] \in {"RUNNABLE", "RUNNING"} /\ state[np[f]] = "EMBRYO"
          /\ parent[np[f]] = IF pc[f] = "forked" THEN f ELSE None
      BY <2>3 DEF ProcInv, ForkInv
    <3>. QED  BY Zenon, <1>3, <1>6, <3>1, <3>2
  <2>4. ASSUME NEW f \in Slot
        PROVE  np[f] # None <=> pc[f] \in {"fork", "forked"}
    BY DEF ProcInv, ForkInv
  <2>. QED  BY <1>6, <2>2, <2>3, <2>4 DEF ForkInv
<1>11. InitInv'
  BY <1>1, <1>3, <1>6 DEF ProcInv, TypeOK, InitInv, Live
<1>12. ParentAlive'
  <2>1. \A q \in Slot : q # p => (q \in Live' <=> q \in Live)
    BY <1>3 DEF Live
  <2>2. initproc \in Live'
    BY <1>1, <2>1 DEF ProcInv, InitInv
  <2> SUFFICES ASSUME NEW q \in Slot \ {initproc}
               PROVE  /\ parent'[q] # None => parent'[q] \in Live'
                      /\ state'[q] \in {"SLEEPING", "RUNNABLE", "RUNNING", "ZOMBIE"} => parent'[q] # None
                      /\ state'[q] = "UNUSED" => parent'[q] = None
                      /\ parent'[q] # q
    BY DEF ParentAlive
  <2>3. /\ parent[q] # None => parent[q] \in Live
        /\ state[q] \in {"SLEEPING", "RUNNABLE", "RUNNING", "ZOMBIE"} => parent[q] # None
        /\ state[q] = "UNUSED" => parent[q] = None
        /\ parent[q] # q
    BY DEF ProcInv, ParentAlive
  <2>4. parent[q] \in Slot \cup {None}
    BY DEF ProcInv, TypeOK
  <2>5. CASE parent[q] = p
    <3>1. parent'[q] = initproc /\ state[q] # "UNUSED"
      BY <1>1, <1>6, <2>3, <2>5
    <3>2. state'[q] # "UNUSED"
      BY <1>3, <1>4, <3>1
    <3>. QED  BY <2>2, <3>1, <3>2
  <2>6. CASE parent[q] # p
    <3>1. parent'[q] = parent[q]
      BY <1>6, <2>6
    <3>2. parent[q] # None => parent[q] \in Live'
      BY Zenon, <2>1, <2>3, <2>4, <2>6
    <3>3. CASE q = p
      BY <1>1, <1>4, <2>3, <3>1, <3>2, <3>3
    <3>4. CASE q # p
      BY <1>3, <2>3, <3>1, <3>2, <3>4
    <3>. QED  BY <3>3, <3>4
  <2>. QED  BY <2>5, <2>6
<1>13. NoMissedExit'
  <2> SUFFICES ASSUME NEW q \in Slot, state'[q] = "SLEEPING", chan[q] = q
               PROVE  /\ \E z \in Slot : parent'[z] = q
                      /\ \A z \in Slot : parent'[z] = q => state'[z] # "ZOMBIE"
                      /\ killed[q] = 0
    BY <1>6 DEF NoMissedExit, Children
  <2>1. q # p /\ q # parent[p] /\ state[q] = "SLEEPING"
    BY <1>3, <1>4
  <2>2. /\ \E z \in Slot : parent[z] = q
        /\ \A z \in Slot : parent[z] = q => state[z] # "ZOMBIE"
        /\ killed[q] = 0
    BY Zenon, <2>1 DEF ProcInv, NoMissedExit, Children
  <2>3. \E z \in Slot : parent'[z] = q
    BY <1>6, <2>1, <2>2
  <2>4. ASSUME NEW z \in Slot, parent'[z] = q
        PROVE  state'[z] # "ZOMBIE"
    <3>1. z # p
      BY <1>1, <1>6, <2>1, <2>4
    <3>2. state[z] # "ZOMBIE"
      BY <1>4, <1>6, <2>2, <2>4
    <3>. QED  BY <1>3, <3>1, <3>2
  <2>. QED  BY Zenon, <2>2, <2>3, <2>4
<1>. QED  BY <1>7, <1>8, <1>9, <1>10, <1>11, <1>12, <1>13 DEF ProcInv

\* Every step of the kernel preserves the invariant.
LEMMA NextProcInv == ProcInv /\ [Next]_vars => ProcInv'
<1> SUFFICES ASSUME ProcInv, [Next]_vars PROVE ProcInv'
  OBVIOUS
<1>1. ASSUME NEW p \in Slot, SysCall(p)
      PROVE  ProcInv'
  BY <1>1, EnterSyscallInv, OtherSyscallInv, UserFaultInv, AllocProcInv, ForkNoSlotInv,
     ForkNoMemoryInv, ForkCopyInv, ForkDoneInv, ExitStartInv, ExitInv, WaitReapInv,
     WaitErrorInv, WaitSleepInv, SleepCheckInv, SleepTicksInv, KillInv, SetUidInv
     DEF SysCall
<1>2. CASE UNCHANGED vars
  <2>1. UNCHANGED <<state, pid, parent, killed, chan, uid, pc, np, cpu, scan, current_proc, nextpid, panicked>>
    BY <1>2 DEF vars, table
  <2>2. TypeOK'
    BY <2>1 DEF ProcInv, TypeOK
  <2>. QED  BY <2>1, <2>2, SameTable
<1>. QED  BY <1>1, <1>2, YieldInv, SchedulerInv, TickInv, KillCurInv DEF Next

\* Along every behaviour of proc.c the process table is consistent.
THEOREM ProcInvariant == Spec => []ProcInv
BY InitProcInv, NextProcInv, PTL DEF Spec

\* scheduler(), sched(): no process is on two processors.
THEOREM ProcOneProcessor == Spec => []OneProcessor
<1>1. ProcInv => OneProcessor
  BY DEF ProcInv
<1>. QED  BY <1>1, ProcInvariant, PTL

\* exit(): every process has a live parent that can reap it.
THEOREM ProcParentAlive == Spec => []ParentAlive
<1>1. ProcInv => ParentAlive
  BY DEF ProcInv
<1>. QED  BY <1>1, ProcInvariant, PTL

\* allocproc(): pids of slots in use are unique.
THEOREM ProcUniquePid == Spec => []UniquePid
<1>1. ProcInv => UniquePid
  BY DEF ProcInv, PidInv
<1>. QED  BY <1>1, ProcInvariant, PTL

\* exit(), wait(), kill(): nobody sleeps in wait() with something to do.
THEOREM ProcNoMissedExit == Spec => []NoMissedExit
<1>1. ProcInv => NoMissedExit
  BY DEF ProcInv
<1>. QED  BY <1>1, ProcInvariant, PTL

\* What ZombieReapedByParent says of one step.
ZombieStep ==
  \A q \in Slot : state[q] = "ZOMBIE" /\ state'[q] # "ZOMBIE" =>
      /\ state'[q] = "UNUSED"
      /\ state[parent[q]] = "RUNNING" /\ pc[parent[q]] \in {"syscall", "wait"}

\* A step of a system call that changes the state of a zombie is the wait() of its
\* parent.
LEMMA SysCallZombieStep ==
  ASSUME NEW p \in Slot, ProcInv, SysCall(p)
  PROVE  ZombieStep
<1>. USE SlotFacts
<1>1. CASE state' = state
  BY <1>1 DEF ZombieStep
<1>2. CASE AllocProc(p)
  <2> DEFINE n == Least(Free)
  <2>1. n \in Free /\ state' = [state EXCEPT ![n] = "EMBRYO"]
    BY <1>2, LeastIn DEF AllocProc, Free
  <2>. HIDE DEF n
  <2>. QED  BY <2>1 DEF ZombieStep, ProcInv, TypeOK, Free
<1>3. CASE ForkNoMemory(p) \/ ForkDone(p)
  <2>1. np[p] \in Slot /\ state[np[p]] = "EMBRYO"
    BY <1>3, ForkFacts DEF ForkNoMemory, ForkDone
  <2>. QED  BY <1>3, <2>1 DEF ZombieStep, ForkNoMemory, ForkDone, ProcInv, TypeOK
<1>4. CASE Exit(p)
  <2>1. \A q \in Slot \ {p} : state[q] = "ZOMBIE" => state'[q] = "ZOMBIE"
    BY <1>4 DEF Exit, Woken
  <2>2. state[p] = "RUNNING"
    BY <1>4 DEF Exit, Running
  <2>. QED  BY <2>1, <2>2 DEF ZombieStep
<1>5. CASE WaitReap(p)
  <2> DEFINE zombies == Zombies(p)
             z == Least(zombies)
  <2>1. z \in zombies
    BY <1>5, LeastIn DEF WaitReap, Zombies, Children
  <2>2. z \in Slot /\ parent[z] = p
    BY <2>1 DEF Zombies, Children
  <2>3. /\ state' = [state EXCEPT ![z] = "UNUSED"]
        /\ state[p] = "RUNNING" /\ pc[p] \in {"syscall", "wait"}
    BY <1>5 DEF WaitReap, Running
  <2>. HIDE DEF z
  <2>. QED  BY <2>2, <2>3 DEF ZombieStep, ProcInv, TypeOK
<1>6. CASE WaitSleep(p) \/ SleepTicks(p)
  BY <1>6 DEF ZombieStep, WaitSleep, SleepTicks, Running, ProcInv, TypeOK
<1>7. ASSUME NEW k, Kill(p, k)
      PROVE  ZombieStep
  BY <1>7 DEF ZombieStep, Kill, KillPid, Roused, ProcInv, TypeOK
<1>. QED
  BY <1>1, <1>2, <1>3, <1>4, <1>5, <1>6, <1>7
     DEF SysCall, EnterSyscall, OtherSyscall, UserFault, ForkNoSlot, ForkCopy, ExitStart,
         WaitError, SleepCheck, SetUid, table

\* exit(), wait(): a zombie leaves the table only through a wait() of its parent.
THEOREM ProcZombieReapedByParent == Spec => ZombieReapedByParent
<1>1. ProcInv /\ [Next]_vars => [ZombieStep]_vars
  <2> SUFFICES ASSUME ProcInv, Next PROVE ZombieStep
    OBVIOUS
  <2>1. ASSUME NEW c \in CPU, Scheduler(c)
        PROVE  ZombieStep
    <3> DEFINE p == Least(Ready(c))
    <3>1. CASE Ready(c) = {}
      BY <2>1, <3>1 DEF Scheduler, ZombieStep
    <3>2. CASE Ready(c) # {}
      <4>1. p \in Ready(c) /\ state' = [state EXCEPT ![p] = "RUNNING"]
        BY <2>1, <3>2, LeastIn DEF Scheduler, Ready
      <4>. HIDE DEF p
      <4>. QED  BY <4>1 DEF ZombieStep, ProcInv, TypeOK, Ready
    <3>. QED  BY <3>1, <3>2
  <2>2. ASSUME NEW p \in Slot, Yield(p)
        PROVE  ZombieStep
    BY <2>2 DEF ZombieStep, Yield, Running, ProcInv, TypeOK
  <2>3. CASE Tick
    BY <2>3 DEF ZombieStep, Tick, Woken
  <2>4. CASE KillCur
    BY <2>4 DEF ZombieStep, KillCur, KillPid, Roused, ProcInv, TypeOK
  <2>. QED  BY <2>1, <2>2, <2>3, <2>4, SysCallZombieStep DEF Next
<1>. QED  BY <1>1, ProcInvariant, PTL DEF Spec, ZombieReapedByParent, ZombieStep
===============================================================================
