---------------------------- MODULE SpinlockProofs ----------------------------
(***************************************************************************)
(* Proofs about kernel/spinlock.c for any number of processors and locks.  *)
(***************************************************************************)
EXTENDS Spinlock, FiniteSetTheorems, TLAPS

\* pushcli(), popcli() count locks: adding or removing a lock changes the number of
\* locks held by one, and there are none exactly when the number is zero.
LEMMA HeldCount ==
    ASSUME NEW S \in SUBSET Lock
    PROVE  /\ Cardinality(S) \in Nat
           /\ Cardinality(S) = 0 <=> S = {}
           /\ \A l \in Lock : l \notin S => Cardinality(S \cup {l}) = Cardinality(S) + 1
           /\ \A l \in Lock : l \in S => Cardinality(S \ {l}) = Cardinality(S) - 1
<1>1. IsFiniteSet(Lock)
  BY FS_Interval, SpinAssumption DEF Lock
<1>2. IsFiniteSet(S)
  BY <1>1, FS_Subset
<1>3. Cardinality(S) \in Nat
  BY <1>2, FS_CardinalityType
<1>4. Cardinality(S) = 0 <=> S = {}
  BY <1>2, FS_EmptySet
<1>5. \A l \in Lock : l \notin S => Cardinality(S \cup {l}) = Cardinality(S) + 1
  BY <1>2, FS_AddElement
<1>6. \A l \in Lock : l \in S => Cardinality(S \ {l}) = Cardinality(S) - 1
  BY <1>2, FS_RemoveElement
<1> QED BY <1>3, <1>4, <1>5, <1>6

\* initlock(), NoLock: the null pointer is no lock.
LEMMA NoLockIsNone == NoLock \notin Lock
BY DEF NoLock, Lock

\* trap(): what is saved tells whether a handler runs.
LEMMA SavedIs ==
    ASSUME FlagInv, NEW c \in CPU
    PROVE  /\ ~InHandler(c) => saved[c] = Nothing
           /\ InHandler(c) => saved[c] = [pc |-> "idle", lk |-> NoLock, held |-> {}]
<1>1. saved[c] \in {Nothing, [pc |-> "idle", lk |-> NoLock, held |-> {}]}
  BY DEF FlagInv
<1>2. Nothing.pc = "none"
  BY DEF Nothing
<1> QED BY <1>1, <1>2 DEF InHandler

\* trap(): a step that leaves saved, and all of a processor but locked, cpu and lk,
\* alone keeps its flags in order.
LEMMA FlagsKept ==
    ASSUME SpinInv, NEW c \in CPU,
           UNCHANGED <<IF_, ncli, intena, saved>>, IF_[c] = 0,
           \A d \in CPU \ {c} : pc'[d] = pc[d] /\ held'[d] = held[d]
    PROVE  FlagInv'
<1>1. \A d \in CPU : InHandler(d)' <=> InHandler(d)
  BY DEF InHandler
<1> QED BY <1>1 DEF SpinInv, FlagInv, Nothing

\* initlock(): every lock is free and every processor outside.
LEMMA SpinInit == Init => SpinInv
<1> SUFFICES ASSUME Init PROVE SpinInv
  OBVIOUS
<1>1. TypeOK /\ NoPanic
  BY DEF Init, TypeOK, NoPanic, Pcs, Nothing
<1>2. LkInv
  BY NoLockIsNone DEF Init, LkInv
<1>3. OwnInv
  BY SpinAssumption DEF Init, OwnInv, Owns
<1>4. CountInv
  BY HeldCount DEF Init, CountInv
<1>5. FlagInv
  BY DEF Init, FlagInv, InHandler, Nothing
<1> QED BY <1>1, <1>2, <1>3, <1>4, <1>5 DEF SpinInv

\* pushcli() and the test of acquire(): the lock is not one of ours, so the
\* panic is not taken.
LEMMA AcquireInv ==
    ASSUME SpinInv, NEW c \in CPU, NEW l \in Lock, Acquire(c, l)
    PROVE  SpinInv'
<1>1. l \notin held[c]
  BY DEF Acquire, SpinInv, TypeOK, Lock
<1>2. ~holding(c, l)
  BY <1>1 DEF holding, SpinInv, OwnInv
<1>3. /\ pc[c] = "idle"
      /\ pc' = [pc EXCEPT ![c] = "spin"]
      /\ lk' = [lk EXCEPT ![c] = l]
      /\ IF_' = [IF_ EXCEPT ![c] = 0]
      /\ ncli' = [ncli EXCEPT ![c] = @ + 1]
      /\ intena' = [intena EXCEPT ![c] = IF ncli[c] = 0 THEN IF_[c] ELSE @]
      /\ UNCHANGED <<locked, cpu, held, saved>>
  BY <1>2 DEF Acquire, Pushcli
<1>4. TypeOK' /\ NoPanic'
  BY <1>3 DEF SpinInv, TypeOK, Pcs, NoPanic
<1>5. LkInv'
  BY <1>1, <1>3, NoLockIsNone DEF SpinInv, TypeOK, LkInv
<1>6. OwnInv'
  <2>1. \A d \in CPU : \A m \in Lock : Owns(d, m)' => Owns(d, m)
    BY <1>3 DEF SpinInv, TypeOK, Owns
  <2> QED BY <1>3, <2>1 DEF SpinInv, OwnInv
<1>7. CountInv'
  <2>1. Cardinality(held[c]) \in Nat
    BY HeldCount DEF SpinInv, TypeOK
  <2> QED BY <1>3, <2>1 DEF SpinInv, TypeOK, CountInv
<1>8. FlagInv'
  <2>1. \A d \in CPU : InHandler(d)' <=> InHandler(d)
    BY <1>3 DEF InHandler
  <2>2. InHandler(c) => IF_[c] = 0
    BY DEF SpinInv, TypeOK, FlagInv
  <2>3. ncli[c] \in Nat
    BY DEF SpinInv, TypeOK
  <2> QED BY <1>3, <2>1, <2>2, <2>3 DEF SpinInv, TypeOK, FlagInv, Nothing
<1> QED BY <1>4, <1>5, <1>6, <1>7, <1>8 DEF SpinInv

\* The exchange of acquire(): it wins only a lock nobody owns.
LEMMA XchgInv ==
    ASSUME SpinInv, NEW c \in CPU, Xchg(c)
    PROVE  SpinInv'
<1> DEFINE l == lk[c]
<1>1. /\ pc[c] = "spin" /\ l \in Lock /\ locked[l] = 0 /\ IF_[c] = 0
      /\ locked' = [locked EXCEPT ![l] = 1]
      /\ pc' = [pc EXCEPT ![c] = "record"]
      /\ UNCHANGED <<cpu, IF_, ncli, intena, lk, held, saved>>
  BY DEF Xchg, Free, SpinInv, TypeOK, LkInv, FlagInv
<1>2. TypeOK' /\ NoPanic'
  BY <1>1 DEF SpinInv, TypeOK, Pcs, NoPanic
<1>3. LkInv'
  BY <1>1 DEF SpinInv, TypeOK, LkInv
<1>4. OwnInv'
  <2>1. \A d \in CPU : ~Owns(d, l)
    BY <1>1 DEF SpinInv, OwnInv
  <2>2. \A d \in CPU : \A m \in Lock : Owns(d, m)' <=> Owns(d, m) \/ (d = c /\ m = l)
    BY <1>1 DEF Owns, SpinInv, TypeOK
  <2> QED BY <1>1, <2>1, <2>2 DEF SpinInv, TypeOK, OwnInv
<1>5. CountInv'
  BY <1>1 DEF SpinInv, TypeOK, CountInv
<1>6. FlagInv'
  BY <1>1, FlagsKept DEF SpinInv, TypeOK
<1> QED BY <1>2, <1>3, <1>4, <1>5, <1>6 DEF SpinInv

\* lk->cpu = cpu: the owner now holds the lock, and holding() says so.
LEMMA RecordInv ==
    ASSUME SpinInv, NEW c \in CPU, Record(c)
    PROVE  SpinInv'
<1> DEFINE l == lk[c]
<1>1. /\ pc[c] = "record" /\ l \in Lock /\ l \notin held[c] /\ IF_[c] = 0
      /\ cpu' = [cpu EXCEPT ![l] = c]
      /\ held' = [held EXCEPT ![c] = @ \cup {l}]
      /\ pc' = [pc EXCEPT ![c] = "idle"]
      /\ lk' = [lk EXCEPT ![c] = NoLock]
      /\ UNCHANGED <<locked, IF_, ncli, intena, saved>>
  BY DEF Record, SpinInv, TypeOK, LkInv, FlagInv
<1>2. TypeOK' /\ NoPanic'
  BY <1>1 DEF SpinInv, TypeOK, Pcs, NoPanic
<1>3. LkInv'
  BY <1>1, <1>2, NoLockIsNone DEF SpinInv, TypeOK, LkInv
<1>4. OwnInv'
  <2>1. \A d \in CPU : l \notin held[d]
    BY <1>1 DEF SpinInv, OwnInv, Owns
  <2>2. \A d \in CPU : \A m \in Lock : Owns(d, m)' => Owns(d, m)
    BY <1>1, NoLockIsNone DEF Owns, SpinInv, TypeOK
  <2>3. \A d \in CPU : \A m \in Lock : m \in held'[d] <=> cpu'[m] = d
    BY <1>1, <2>1 DEF SpinInv, TypeOK, OwnInv
  <2> QED BY <1>1, <2>2, <2>3 DEF SpinInv, OwnInv
<1>5. CountInv'
  <2>1. Cardinality(held[c] \cup {l}) = Cardinality(held[c]) + 1 /\ Cardinality(held[c]) \in Nat
    BY <1>1, HeldCount DEF SpinInv, TypeOK
  <2> QED BY <1>1, <2>1 DEF SpinInv, TypeOK, CountInv
<1>6. FlagInv'
  BY <1>1, FlagsKept DEF SpinInv, TypeOK
<1> QED BY <1>2, <1>3, <1>4, <1>5, <1>6 DEF SpinInv

\* release() up to its exchange: the caller holds the lock, so the panic is not
\* taken, and it still owns the lock.
LEMMA ReleaseInv ==
    ASSUME SpinInv, NEW c \in CPU, NEW l \in Lock, Release(c, l)
    PROVE  SpinInv'
<1>0. holding(c, l)
  BY DEF Release, holding, SpinInv, OwnInv, Owns
<1>1. /\ pc[c] = "idle" /\ l \in held[c] /\ IF_[c] = 0
      /\ cpu' = [cpu EXCEPT ![l] = NoCpu]
      /\ held' = [held EXCEPT ![c] = @ \ {l}]
      /\ pc' = [pc EXCEPT ![c] = "clear"]
      /\ lk' = [lk EXCEPT ![c] = l]
      /\ UNCHANGED <<locked, IF_, ncli, intena, saved>>
  BY <1>0 DEF Release, SpinInv, TypeOK, FlagInv
<1>2. TypeOK' /\ NoPanic'
  BY <1>1 DEF SpinInv, TypeOK, Pcs, NoPanic
<1>3. LkInv'
  BY <1>1, NoLockIsNone DEF SpinInv, TypeOK, LkInv
<1>4. OwnInv'
  <2>1. \A d \in CPU : l \in held[d] => d = c
    BY <1>1 DEF SpinInv, OwnInv, Owns
  <2>2. \A d \in CPU : \A m \in Lock : Owns(d, m)' => Owns(d, m)
    BY <1>1 DEF Owns, SpinInv, TypeOK
  <2>3. \A d \in CPU : \A m \in Lock : m \in held'[d] <=> cpu'[m] = d
    BY <1>1, <2>1, SpinAssumption DEF SpinInv, TypeOK, OwnInv
  <2> QED BY <1>1, <2>2, <2>3 DEF SpinInv, OwnInv
<1>5. CountInv'
  <2>1. Cardinality(held[c] \ {l}) = Cardinality(held[c]) - 1 /\ Cardinality(held[c]) \in Nat
    BY <1>1, HeldCount DEF SpinInv, TypeOK
  <2>2. ncli[c] = Cardinality(held[c]) + 0
    BY <1>1 DEF SpinInv, CountInv
  <2>3. ncli'[c] = Cardinality(held'[c]) + 1 /\ pc'[c] # "idle"
    BY <1>1, <2>1, <2>2 DEF SpinInv, TypeOK
  <2>4. \A d \in CPU \ {c} : ncli'[d] = ncli[d] /\ held'[d] = held[d] /\ pc'[d] = pc[d]
    BY <1>1 DEF SpinInv, TypeOK
  <2> QED BY <2>3, <2>4 DEF SpinInv, CountInv
<1>6. FlagInv'
  BY <1>1, FlagsKept DEF SpinInv, TypeOK
<1> QED BY <1>2, <1>3, <1>4, <1>5, <1>6 DEF SpinInv

\* The exchange of release(): nobody else owned the lock.
LEMMA ClearInv ==
    ASSUME SpinInv, NEW c \in CPU, Clear(c)
    PROVE  SpinInv'
<1> DEFINE l == lk[c]
<1>1. /\ pc[c] = "clear" /\ l \in Lock /\ IF_[c] = 0
      /\ locked' = [locked EXCEPT ![l] = 0]
      /\ pc' = [pc EXCEPT ![c] = "popcli"]
      /\ lk' = [lk EXCEPT ![c] = NoLock]
      /\ UNCHANGED <<cpu, IF_, ncli, intena, held, saved>>
  BY DEF Clear, Cleared, SpinInv, TypeOK, LkInv, FlagInv
<1>2. TypeOK' /\ NoPanic'
  BY <1>1 DEF SpinInv, TypeOK, Pcs, NoPanic
<1>3. LkInv'
  BY <1>1, NoLockIsNone DEF SpinInv, TypeOK, LkInv
<1>4. OwnInv'
  <2>1. Owns(c, l) /\ l \notin held[c]
    BY <1>1 DEF Owns, SpinInv, LkInv
  <2>2. \A d \in CPU : \A m \in Lock : Owns(d, m)' => Owns(d, m) /\ m # l
    BY <1>1, <2>1, NoLockIsNone DEF Owns, SpinInv, TypeOK, OwnInv
  <2> QED BY <1>1, <2>2 DEF SpinInv, TypeOK, OwnInv
<1>5. CountInv'
  BY <1>1 DEF SpinInv, TypeOK, CountInv
<1>6. FlagInv'
  BY <1>1, FlagsKept DEF SpinInv, TypeOK
<1> QED BY <1>2, <1>3, <1>4, <1>5, <1>6 DEF SpinInv

\* popcli(): ncli is positive and interrupts are off, so the panics are not
\* taken; interrupts come back only with the last lock, and not in a handler.
LEMMA PopcliInv ==
    ASSUME SpinInv, NEW c \in CPU, Popcli(c)
    PROVE  SpinInv'
<1>1. /\ pc[c] = "popcli" /\ IF_[c] = 0 /\ lk[c] = NoLock
      /\ Cardinality(held[c]) \in Nat
      /\ Cardinality(held[c]) = 0 <=> held[c] = {}
      /\ ncli[c] = Cardinality(held[c]) + 1
  BY HeldCount DEF Popcli, SpinInv, TypeOK, LkInv, CountInv, FlagInv
<1>2. /\ pc' = [pc EXCEPT ![c] = "idle"]
      /\ ncli' = [ncli EXCEPT ![c] = @ - 1]
      /\ IF_' = [IF_ EXCEPT ![c] = IF ncli[c] = 1 /\ intena[c] = 1 THEN 1 ELSE @]
      /\ UNCHANGED <<locked, cpu, intena, lk, held, saved>>
  BY <1>1 DEF Popcli, MayEnable
<1>3. TypeOK' /\ NoPanic'
  BY <1>1, <1>2 DEF SpinInv, TypeOK, Pcs, NoPanic
<1>4. LkInv'
  BY <1>1, <1>2 DEF SpinInv, TypeOK, LkInv
<1>5. OwnInv'
  <2>1. \A d \in CPU : \A m \in Lock : Owns(d, m)' <=> Owns(d, m)
    BY <1>1, <1>2 DEF Owns, SpinInv, TypeOK
  <2> QED BY <1>2, <2>1 DEF SpinInv, OwnInv
<1>6. /\ ncli'[c] = Cardinality(held[c]) /\ pc'[c] = "idle"
      /\ \A d \in CPU \ {c} : ncli'[d] = ncli[d] /\ pc'[d] = pc[d] /\ IF_'[d] = IF_[d]
  BY <1>1, <1>2 DEF SpinInv, TypeOK
<1>7. CountInv'
  <2>1. ncli'[c] = Cardinality(held'[c]) + 0
    BY <1>1, <1>2, <1>6
  <2> QED BY <1>2, <1>6, <2>1 DEF SpinInv, CountInv
<1>8. FlagInv'
  <2>1. \A d \in CPU : InHandler(d)' <=> InHandler(d)
    BY <1>2 DEF InHandler
  <2>2. InHandler(c) => intena[c] = 0
    BY <1>1 DEF SpinInv, FlagInv
  <2>3. IF_'[c] = 1 <=> held[c] = {} /\ intena[c] = 1
    BY <1>1, <1>2 DEF SpinInv, TypeOK
  <2>4. intena[c] \in {0, 1}
    BY DEF SpinInv, TypeOK
  <2> QED BY <1>1, <1>2, <1>6, <2>1, <2>2, <2>3, <2>4 DEF SpinInv, FlagInv, Nothing
<1> QED BY <1>3, <1>4, <1>5, <1>7, <1>8 DEF SpinInv

\* scheduler(), trap(): a step that changes the interrupt flag and what is saved
\* only, of a processor outside all locks, keeps the rest of the invariant.
LEMMA OutsideKept ==
    ASSUME SpinInv, TypeOK', UNCHANGED <<locked, cpu, ncli, intena, pc, lk, held>>
    PROVE  NoPanic' /\ LkInv' /\ OwnInv' /\ CountInv'
<1>1. NoPanic' /\ LkInv'
  BY DEF SpinInv, NoPanic, LkInv
<1>2. OwnInv'
  <2>1. \A d \in CPU : \A m \in Lock : Owns(d, m)' <=> Owns(d, m)
    BY DEF Owns
  <2> QED BY <2>1 DEF SpinInv, OwnInv
<1>3. CountInv'
  BY DEF SpinInv, CountInv
<1> QED BY <1>1, <1>2, <1>3

\* popcli(): outside all locks ncli is zero.
LEMMA OutsideCount ==
    ASSUME SpinInv, NEW c \in CPU, pc[c] = "idle", held[c] = {}
    PROVE  ncli[c] = 0
<1>1. Cardinality(held[c]) = 0
  BY HeldCount
<1>2. ncli[c] = Cardinality(held[c]) + 0
  BY DEF SpinInv, CountInv
<1> QED BY <1>1, <1>2

\* sti() of the scheduler, outside all locks and handlers.
LEMMA StiInv ==
    ASSUME SpinInv, NEW c \in CPU, Sti(c)
    PROVE  SpinInv'
<1>1. /\ pc[c] = "idle" /\ held[c] = {} /\ ncli[c] = 0 /\ ~InHandler(c)
      /\ IF_' = [IF_ EXCEPT ![c] = 1]
      /\ UNCHANGED <<locked, cpu, ncli, intena, pc, lk, held, saved>>
  BY DEF Sti
<1>2. TypeOK'
  BY <1>1 DEF SpinInv, TypeOK
<1>3. FlagInv'
  <2>1. \A d \in CPU : InHandler(d)' <=> InHandler(d)
    BY <1>1 DEF InHandler
  <2>2. IF_'[c] = 1 /\ \A d \in CPU \ {c} : IF_'[d] = IF_[d]
    BY <1>1 DEF SpinInv, TypeOK
  <2> QED BY <1>1, <2>1, <2>2 DEF SpinInv, FlagInv, Nothing
<1> QED BY <1>1, <1>2, <1>3, OutsideKept DEF SpinInv

\* An interrupt stops code that holds no lock and is not taking one.
LEMMA InterruptInv ==
    ASSUME SpinInv, NEW c \in CPU, Interrupt(c)
    PROVE  SpinInv'
<1>1. pc[c] = "idle" /\ held[c] = {} /\ lk[c] = NoLock
  BY DEF Interrupt, SpinInv, FlagInv, LkInv
<1>2. ncli[c] = 0
  BY <1>1, OutsideCount
<1>3. /\ saved' = [saved EXCEPT ![c] = [pc |-> "idle", lk |-> NoLock, held |-> {}]]
      /\ IF_' = [IF_ EXCEPT ![c] = 0]
      /\ UNCHANGED <<locked, cpu, ncli, intena>>
  BY <1>1 DEF Interrupt
<1>4. UNCHANGED <<pc, lk, held>>
  BY <1>1 DEF Interrupt, SpinInv, TypeOK
<1>5. TypeOK'
  BY <1>3, <1>4 DEF SpinInv, TypeOK, Pcs
<1>6. FlagInv'
  <2>1. /\ saved'[c] = [pc |-> "idle", lk |-> NoLock, held |-> {}]
        /\ IF_'[c] = 0
        /\ \A d \in CPU \ {c} : saved'[d] = saved[d] /\ IF_'[d] = IF_[d]
    BY <1>3 DEF SpinInv, TypeOK
  <2>2. InHandler(c)' /\ \A d \in CPU \ {c} : InHandler(d)' <=> InHandler(d)
    BY <2>1 DEF InHandler
  <2>3. Nothing' = Nothing
    BY DEF Nothing
  <2> QED BY <1>2, <1>3, <1>4, <2>1, <2>2, <2>3 DEF SpinInv, FlagInv
<1> QED BY <1>3, <1>4, <1>5, <1>6, OutsideKept DEF SpinInv

\* iret resumes the code the handler interrupted, outside all locks.
LEMMA IretInv ==
    ASSUME SpinInv, NEW c \in CPU, Iret(c)
    PROVE  SpinInv'
<1>1. pc[c] = "idle" /\ held[c] = {} /\ lk[c] = NoLock
  BY DEF Iret, SpinInv, LkInv
<1>2. ncli[c] = 0
  BY <1>1, OutsideCount
<1>3. saved[c] = [pc |-> "idle", lk |-> NoLock, held |-> {}]
  BY Zenon, SavedIs DEF Iret, SpinInv
<1>4. /\ saved' = [saved EXCEPT ![c] = Nothing]
      /\ IF_' = [IF_ EXCEPT ![c] = 1]
      /\ UNCHANGED <<locked, cpu, ncli, intena>>
  BY DEF Iret
<1>5. UNCHANGED <<pc, lk, held>>
  BY <1>1, <1>3 DEF Iret, SpinInv, TypeOK
<1>6. TypeOK'
  BY <1>4, <1>5 DEF SpinInv, TypeOK, Pcs, Nothing
<1>7. FlagInv'
  <2>1. /\ saved'[c] = Nothing
        /\ IF_'[c] = 1
        /\ \A d \in CPU \ {c} : saved'[d] = saved[d] /\ IF_'[d] = IF_[d]
    BY <1>4 DEF SpinInv, TypeOK
  <2>2. ~InHandler(c)' /\ \A d \in CPU \ {c} : InHandler(d)' <=> InHandler(d)
    BY <2>1 DEF InHandler, Nothing
  <2>3. Nothing' = Nothing
    BY DEF Nothing
  <2> QED BY <1>1, <1>2, <1>4, <1>5, <2>1, <2>2, <2>3 DEF SpinInv, FlagInv
<1> QED BY <1>4, <1>5, <1>6, <1>7, OutsideKept DEF SpinInv

-------------------------------------------------------------------------------

\* spinlock.c keeps SpinInv: ownership agrees with locked and lk->cpu, ncli counts
\* the locks held, and interrupts are taken only outside all locks.
THEOREM SpinInvariant == Spec => []SpinInv
<1>1. SpinInv /\ [Next]_vars => SpinInv'
  <2> SUFFICES ASSUME SpinInv, [Next]_vars PROVE SpinInv'
    OBVIOUS
  <2>1. CASE UNCHANGED vars
    <3>1. UNCHANGED <<locked, cpu, IF_, ncli, intena, pc, lk, held, saved>>
      BY <2>1 DEF vars
    <3>2. TypeOK'
      BY <3>1 DEF SpinInv, TypeOK
    <3>3. FlagInv'
      BY <3>1 DEF SpinInv, FlagInv, InHandler, Nothing
    <3> QED BY <3>1, <3>2, <3>3, OutsideKept DEF SpinInv
  <2>2. CASE Next
    <3>1. ASSUME NEW c \in CPU, NEW l \in Lock, Acquire(c, l) \/ Release(c, l)
          PROVE  SpinInv'
      BY <3>1, AcquireInv, ReleaseInv
    <3>2. ASSUME NEW c \in CPU, Xchg(c) \/ Record(c) \/ Clear(c) \/ Popcli(c)
          PROVE  SpinInv'
      BY <3>2, XchgInv, RecordInv, ClearInv, PopcliInv
    <3>3. ASSUME NEW c \in CPU, Sti(c) \/ Interrupt(c) \/ Iret(c)
          PROVE  SpinInv'
      BY <3>3, StiInv, InterruptInv, IretInv
    <3> QED BY <2>2, <3>1, <3>2, <3>3 DEF Next
  <2> QED BY <2>1, <2>2
<1> QED BY SpinInit, <1>1, PTL DEF Spec

\* acquire() and release() exclude each other's callers, processors and handlers
\* alike, for any number of processors and locks.
THEOREM SpinMutualExclusion == Spec => []MutualExclusion
<1>1. SpinInv => MutualExclusion
  <2> SUFFICES ASSUME SpinInv PROVE MutualExclusion
    OBVIOUS
  <2>1. \A c \in CPU : saved[c].held = {}
    BY DEF SpinInv, FlagInv, Nothing
  <2> QED BY <2>1 DEF SpinInv, OwnInv, Owns, MutualExclusion
<1> QED BY <1>1, SpinInvariant, PTL

\* The panics of acquire(), release() and popcli() are unreachable when the locks
\* are taken in ascending order.
THEOREM SpinNoPanic == Spec => []NoPanic
<1>1. SpinInv => NoPanic
  BY DEF SpinInv
<1> QED BY <1>1, SpinInvariant, PTL

\* pushcli() and popcli() keep interrupts off while a lock is held, and bring them
\* back as they were.
THEOREM SpinInterruptsOff == Spec => []InterruptsOff
<1>1. SpinInv => InterruptsOff
  <2> SUFFICES ASSUME SpinInv, NEW c \in CPU
               PROVE  /\ IF_[c] = 1 => held[c] = {} /\ ncli[c] = 0
                      /\ saved[c].held = {}
                      /\ pc[c] = "idle" => ncli[c] = Cardinality(held[c])
                      /\ pc[c] = "idle" /\ ncli[c] = 0 /\ intena[c] = 1 /\ ~InHandler(c) => IF_[c] = 1
    BY DEF InterruptsOff
  <2>1. Cardinality(held[c]) \in Nat
    BY HeldCount DEF SpinInv, TypeOK
  <2>2. pc[c] = "idle" => ncli[c] = Cardinality(held[c])
    BY <2>1 DEF SpinInv, CountInv
  <2>3. IF_[c] = 1 => held[c] = {} /\ ncli[c] = 0
    BY OutsideCount DEF SpinInv, FlagInv
  <2>4. saved[c].held = {}
    BY DEF SpinInv, FlagInv, Nothing
  <2> QED BY <2>2, <2>3, <2>4 DEF SpinInv, FlagInv
<1> QED BY <1>1, SpinInvariant, PTL
===============================================================================
