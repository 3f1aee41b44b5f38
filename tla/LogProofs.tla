------------------------------ MODULE LogProofs ------------------------------
(***************************************************************************)
(* Proofs about Log.tla for every set of processes, blocks and contents    *)
(* and every size of the log: LogInv is inductive, the home blocks follow  *)
(* the write-ahead rule, and log.c implements AtomicDisk.                  *)
(***************************************************************************)
EXTENDS Log, TLAPS

\* SlotOf(), the absorption loop of log_write(), returns the slot that holds
\* the block if there is one, and otherwise the first free slot.
LEMMA SlotOfIs ==
  ASSUME lh \in Seq(Block), NEW b \in Block
  PROVE  /\ SlotOf(b) \in 1 .. Len(lh) + 1
         /\ SlotOf(b) <= Len(lh) => lh[SlotOf(b)] = b
         /\ SlotOf(b) = Len(lh) + 1 => \A i \in 1 .. Len(lh) : lh[i] # b
<1>1. Len(lh) \in Nat
  OBVIOUS
<1>2. CASE \E i \in 1 .. Len(lh) : lh[i] = b
  <2>1. SlotOf(b) \in 1 .. Len(lh) /\ lh[SlotOf(b)] = b
    BY <1>2 DEF SlotOf
  <2>. QED  BY <1>1, <2>1
<1>3. CASE ~ \E i \in 1 .. Len(lh) : lh[i] = b
  BY <1>1, <1>3 DEF SlotOf
<1>. QED  BY <1>2, <1>3

\* Redo(d, g, h) takes the block of slot i for the i-th sector of a header without
\* repetitions, and the disk's block for a sector the header does not name.
LEMMA RedoIs ==
  ASSUME NEW d, NEW g, NEW h \in Seq(Block), Distinct(h)
  PROVE  /\ Redo(d, g, h) = [b \in Block |-> Redo(d, g, h)[b]]
         /\ \A i \in 1 .. Len(h) : Redo(d, g, h)[h[i]] = g[i]
         /\ \A b \in Block :
               (\A i \in 1 .. Len(h) : h[i] # b) => Redo(d, g, h)[b] = d[b]
<1>1. Redo(d, g, h) = [b \in Block |-> Redo(d, g, h)[b]]
  BY DEF Redo
<1>2. ASSUME NEW i \in 1 .. Len(h)
      PROVE  Redo(d, g, h)[h[i]] = g[i]
  <2>1. h[i] \in Block
    OBVIOUS
  <2> DEFINE j == CHOOSE k \in 1 .. Len(h) : h[k] = h[i]
  <2>2. j \in 1 .. Len(h) /\ h[j] = h[i]
    OBVIOUS
  <2>3. j = i
    BY <2>2 DEF Distinct
  <2>4. Redo(d, g, h)[h[i]] = g[j]
    BY Zenon, <2>1 DEF Redo
  <2>. QED  BY Zenon, <2>3, <2>4
<1>3. ASSUME NEW b \in Block, \A i \in 1 .. Len(h) : h[i] # b
      PROVE  Redo(d, g, h)[b] = d[b]
  BY <1>3 DEF Redo
<1>. QED  BY <1>1, <1>2, <1>3

\* An empty header changes nothing.
LEMMA RedoEmpty ==
  ASSUME NEW d \in [Block -> Data], NEW g
  PROVE  Redo(d, g, <<>>) = d
<1>1. \A b \in Block : Redo(d, g, <<>>)[b] = d[b]
  BY DEF Redo
<1>2. Redo(d, g, <<>>) = [b \in Block |-> Redo(d, g, <<>>)[b]]
  BY DEF Redo
<1>. QED  BY <1>1, <1>2

\* The largest number of blocks of a transaction is a natural number.
LEMMA CapacityType == Capacity \in Nat
BY LogAssumption DEF Capacity

\* Init: a fresh disk, an empty log, the boot processor in recovery.
LEMMA InitInv == Init => LogInv
<1> SUFFICES ASSUME Init PROVE LogInv
  OBVIOUS
<1>1. TypeOK
  BY LogAssumption DEF Init, TypeOK
<1>2. OneTransaction
  BY DEF Init, OneTransaction
<1>3. Distinct(lh) /\ Distinct(head)
  BY CapacityType DEF Init, Distinct
<1>4. PhaseInv /\ InstallInv
  BY DEF Init, PhaseInv, InstallInv, Booting
<1>5. Booting /\ cache = disk
  BY DEF Init, Booting
<1>6. NoLostWakeup
  BY DEF Init, NoLostWakeup
<1>. QED  BY <1>1, <1>2, <1>3, <1>4, <1>5, <1>6 DEF LogInv

\* recover_from_log()'s read_head() preserves the invariant.
LEMMA ReadHeadInv == LogInv /\ ReadHead => LogInv'
<1> SUFFICES ASSUME LogInv, ReadHead PROVE LogInv'
  OBVIOUS
<1>1. TypeOK'
  BY DEF LogInv, TypeOK, ReadHead, stable
<1>9. NoLostWakeup'
  BY DEF LogInv, NoLostWakeup, ReadHead, stable
<1>2. OneTransaction'
  BY DEF LogInv, OneTransaction, ReadHead
<1>3. Distinct(lh)' /\ Distinct(head)'
  BY DEF LogInv, Distinct, ReadHead, stable
<1>4. PhaseInv' /\ InstallInv'
  BY DEF LogInv, TypeOK, PhaseInv, InstallInv, ReadHead, stable, Booting
<1>5. Booting' /\ cache' = disk'
  BY DEF LogInv, ReadHead, stable, Booting
<1>. QED  BY <1>9, <1>1, <1>2, <1>3, <1>4, <1>5 DEF LogInv

\* One turn of install_trans() preserves the invariant: one more block is home.
LEMMA InstallTransInv == LogInv /\ InstallTrans => LogInv'
<1> SUFFICES ASSUME LogInv, InstallTrans PROVE LogInv'
  OBVIOUS
<1>0. /\ tail + 1 \in 1 .. Len(lh)
      /\ lh[tail + 1] \in Block
      /\ tail + 1 \in Slot
      /\ logged[tail + 1] \in Data
  BY CapacityType DEF LogInv, TypeOK, InstallTrans, Distinct, Slot
<1>1. TypeOK'
  BY <1>0 DEF LogInv, TypeOK, InstallTrans
<1>9. NoLostWakeup'
  BY DEF LogInv, NoLostWakeup, InstallTrans
<1>2. OneTransaction'
  BY DEF LogInv, OneTransaction, InstallTrans
<1>3. Distinct(lh)' /\ Distinct(head)'
  BY DEF LogInv, Distinct, InstallTrans
<1>4. PhaseInv'
  BY DEF LogInv, PhaseInv, InstallTrans, Booting
<1>5. ASSUME NEW i \in 1 .. tail + 1
      PROVE  disk'[lh[i]] = logged[i]
  <2>1. i \in 1 .. Len(lh) /\ lh[i] \in Block
    BY <1>0 DEF LogInv, TypeOK
  <2>2. CASE i = tail + 1
    BY <1>0, <2>2 DEF LogInv, TypeOK, InstallTrans
  <2>3. CASE i # tail + 1
    <3>1. i \in 1 .. tail /\ lh[i] # lh[tail + 1]
      BY <1>0, <2>1, <2>3 DEF LogInv, TypeOK, Distinct
    <3>2. disk[lh[i]] = logged[i]
      BY <3>1 DEF LogInv, InstallInv, InstallTrans
    <3>. QED  BY <2>1, <3>1, <3>2 DEF LogInv, TypeOK, InstallTrans
  <2>. QED  BY <2>2, <2>3
<1>6. InstallInv'
  BY <1>0, <1>5 DEF LogInv, InstallInv, TypeOK, InstallTrans
<1>7. CASE Booting
  BY <1>9, <1>1, <1>2, <1>3, <1>4, <1>6, <1>7 DEF LogInv, InstallTrans, Booting
<1>8. CASE ~Booting
  <2>1. Redone(cache, disk, logged, lh)
    BY <1>8 DEF LogInv
  <2>2. ASSUME NEW i \in 1 .. Len(lh)
        PROVE  cache'[lh[i]] = logged[i]
    BY <1>0, <2>1 DEF Redone, LogInv, TypeOK, InstallTrans, Distinct
  <2>3. ASSUME NEW b \in Block, \A i \in 1 .. Len(lh) : lh[i] # b
        PROVE  cache'[b] = disk'[b]
    <3>1. b # lh[tail + 1]
      BY <1>0, <2>3
    <3>2. cache[b] = disk[b]
      BY <2>1, <2>3 DEF Redone
    <3>. QED  BY <3>1, <3>2 DEF LogInv, TypeOK, InstallTrans
  <2>4. Redone(cache', disk', logged', lh')
    BY <2>2, <2>3 DEF Redone, InstallTrans
  <2>5. ~Booting'
    BY <1>8 DEF Booting, InstallTrans
  <2>. QED  BY <1>9, <1>1, <1>2, <1>3, <1>4, <1>6, <2>4, <2>5 DEF LogInv
<1>. QED  BY <1>7, <1>8

\* Erasing the header preserves the invariant, since every block is home.
LEMMA EraseLogInv == LogInv /\ EraseLog => LogInv'
<1> SUFFICES ASSUME LogInv, EraseLog PROVE LogInv'
  OBVIOUS
<1>1. TypeOK'
  BY DEF LogInv, TypeOK, EraseLog, AllHome, WriteHead
<1>9. NoLostWakeup'
  BY DEF LogInv, NoLostWakeup, EraseLog, AllHome, WriteHead
<1>2. OneTransaction'
  BY DEF LogInv, OneTransaction, EraseLog, AllHome, WriteHead
<1>3. Distinct(lh)' /\ Distinct(head)'
  BY CapacityType DEF Distinct, EraseLog, AllHome, WriteHead
<1>4. PhaseInv'
  BY DEF LogInv, TypeOK, OneTransaction, PhaseInv, EraseLog, AllHome, WriteHead, Booting
<1>5. InstallInv' /\ ~Booting'
  BY DEF InstallInv, EraseLog, AllHome, WriteHead, Booting
<1>6. cache = disk
  <2>1. CASE Booting
    BY <2>1 DEF LogInv
  <2>2. CASE ~Booting
    <3>1. Redone(cache, disk, logged, lh)
      BY <2>2 DEF LogInv
    <3>2. \A i \in 1 .. Len(lh) : disk[lh[i]] = logged[i]
      BY DEF LogInv, InstallInv, EraseLog, AllHome, WriteHead
    <3>3. \A b \in Block : cache[b] = disk[b]
      BY <3>1, <3>2 DEF Redone
    <3>. QED  BY <3>3 DEF LogInv, TypeOK
  <2>. QED  BY <2>1, <2>2
<1>7. Redone(cache', disk', logged', lh')
  BY <1>6 DEF Redone, EraseLog, AllHome, WriteHead
<1>. QED  BY <1>9, <1>1, <1>2, <1>3, <1>4, <1>5, <1>7 DEF LogInv

\* begin_trans() preserves the invariant, whether it waits or not.
LEMMA BeginTransInv ==
  ASSUME NEW p \in Proc, LogInv, BeginTrans(p)
  PROVE  LogInv'
<1>1. TypeOK'
  BY DEF LogInv, TypeOK, BeginTrans, stable
<1>9. NoLostWakeup'
  BY DEF LogInv, TypeOK, NoLostWakeup, BeginTrans
<1>2. OneTransaction'
  BY DEF LogInv, TypeOK, OneTransaction, BeginTrans
<1>3. Distinct(lh)' /\ Distinct(head)'
  BY DEF LogInv, Distinct, BeginTrans, stable
<1>4. PhaseInv'
  BY DEF LogInv, TypeOK, PhaseInv, BeginTrans, stable, Booting
<1>5. InstallInv'
  BY DEF LogInv, InstallInv, BeginTrans, stable
<1>6. ~Booting' /\ Redone(cache', disk', logged', lh')
  BY DEF LogInv, BeginTrans, stable, Booting
<1>. QED  BY <1>9, <1>1, <1>2, <1>3, <1>4, <1>5, <1>6 DEF LogInv

\* log_write() preserves the invariant, for a new block and an absorbed one.
LEMMA LogWriteInv ==
  ASSUME NEW p \in Proc, NEW b \in Block, NEW d \in Data, LogInv, LogWrite(p, b, d)
  PROVE  LogInv'
<1>0. lh \in Seq(Block) /\ Len(lh) \in Nat
  BY DEF LogInv, TypeOK
<1> DEFINE s == SlotOf(b)
<1>1. /\ s \in 1 .. Len(lh) + 1
      /\ s <= Len(lh) => lh[s] = b
      /\ s = Len(lh) + 1 => \A i \in 1 .. Len(lh) : lh[i] # b
  BY <1>0, SlotOfIs
<1>9. NoLostWakeup'
  BY DEF LogInv, NoLostWakeup, LogWrite
<1>2. s \in Slot
  BY <1>0, <1>1, CapacityType DEF LogWrite, Slot
<1>3. /\ cache' = [cache EXCEPT ![b] = d]
      /\ logged' = [logged EXCEPT ![s] = d]
      /\ lh' = IF s > Len(lh) THEN Append(lh, b) ELSE lh
      /\ Len(lh) < Capacity
      /\ ~Booting /\ ~Booting'
      /\ UNCHANGED <<disk, head, busy, pc, phase, tail>>
  BY DEF LogWrite, Booting
<1>. HIDE DEF s
<1>4. CASE s = Len(lh) + 1
  <2>1. lh' = Append(lh, b)
    BY <1>0, <1>3, <1>4
  <2>2. /\ lh' \in Seq(Block)
        /\ Len(lh') = Len(lh) + 1
        /\ \A i \in 1 .. Len(lh) : lh'[i] = lh[i]
        /\ lh'[Len(lh) + 1] = b
    BY <1>0, <2>1
  <2>3. TypeOK'
    BY <1>2, <1>3, <2>2 DEF LogInv, TypeOK
  <2>4. Distinct(lh')
    BY <1>0, <1>1, <1>3, <1>4, <2>2, CapacityType DEF LogInv, Distinct
  <2>5. ASSUME NEW i \in 1 .. Len(lh')
        PROVE  cache'[lh'[i]] = logged'[i]
    <3>1. CASE i = s
      BY <1>2, <1>3, <1>4, <2>2, <3>1 DEF LogInv, TypeOK
    <3>2. CASE i # s
      <4>1. i \in 1 .. Len(lh) /\ lh[i] # b /\ lh[i] \in Block
        BY <1>0, <1>1, <1>4, <2>2, <3>2
      <4>2. i \in Slot
        BY <1>0, <1>3, <4>1, CapacityType DEF Slot
      <4>3. cache[lh[i]] = logged[i]
        BY <1>3, <4>1 DEF LogInv, Redone
      <4>. QED  BY <1>3, <2>2, <3>2, <4>1, <4>2, <4>3 DEF LogInv, TypeOK
    <3>. QED  BY <3>1, <3>2
  <2>6. ASSUME NEW c \in Block, \A i \in 1 .. Len(lh') : lh'[i] # c
        PROVE  cache'[c] = disk'[c]
    <3>1. c # b /\ \A i \in 1 .. Len(lh) : lh[i] # c
      BY <1>0, <2>2, <2>6
    <3>2. cache[c] = disk[c]
      BY <1>3, <3>1 DEF LogInv, Redone
    <3>. QED  BY <1>3, <3>1, <3>2 DEF LogInv, TypeOK
  <2>7. Redone(cache', disk', logged', lh')
    BY <2>5, <2>6 DEF Redone
  <2>. QED
    <3>1. OneTransaction' /\ Distinct(head')
      BY <1>3 DEF LogInv, OneTransaction, Distinct
    <3>2. PhaseInv' /\ InstallInv'
      BY <1>3 DEF LogInv, PhaseInv, OneTransaction, InstallInv, LogWrite, Booting
    <3>. QED  BY <1>9, <1>3, <2>3, <2>4, <2>7, <3>1, <3>2 DEF LogInv
<1>5. CASE s # Len(lh) + 1
  <2>1. s \in 1 .. Len(lh) /\ lh[s] = b /\ lh' = lh
    BY <1>0, <1>1, <1>3, <1>5
  <2>3. TypeOK'
    BY <1>2, <1>3, <2>1 DEF LogInv, TypeOK
  <2>5. ASSUME NEW i \in 1 .. Len(lh)
        PROVE  cache'[lh[i]] = logged'[i]
    <3>1. CASE i = s
      BY <1>2, <1>3, <2>1, <3>1 DEF LogInv, TypeOK
    <3>2. CASE i # s
      <4>1. lh[i] # b /\ lh[i] \in Block
        BY <1>0, <2>1, <3>2 DEF LogInv, Distinct
      <4>2. i \in Slot
        BY <1>0, <1>3, CapacityType DEF Slot
      <4>3. cache[lh[i]] = logged[i]
        BY <1>3 DEF LogInv, Redone
      <4>. QED  BY <1>3, <3>2, <4>1, <4>2, <4>3 DEF LogInv, TypeOK
    <3>. QED  BY <3>1, <3>2
  <2>6. ASSUME NEW c \in Block, \A i \in 1 .. Len(lh) : lh[i] # c
        PROVE  cache'[c] = disk'[c]
    BY <1>3, <2>1, <2>6 DEF LogInv, TypeOK, Redone
  <2>7. Redone(cache', disk', logged', lh')
    BY <2>1, <2>5, <2>6 DEF Redone
  <2>. QED
    <3>1. OneTransaction' /\ Distinct(head') /\ Distinct(lh')
      BY <1>3, <2>1 DEF LogInv, OneTransaction, Distinct
    <3>2. PhaseInv' /\ InstallInv'
      BY <1>3, <2>1 DEF LogInv, PhaseInv, InstallInv, LogWrite, Booting
    <3>. QED  BY <1>9, <1>3, <2>3, <2>7, <3>1, <3>2 DEF LogInv
<1>. QED  BY <1>4, <1>5

\* panic("too big a transaction") preserves the invariant.
LEMMA LogPanicInv ==
  ASSUME NEW p \in Proc, LogInv, LogPanic(p)
  PROVE  LogInv'
<1>1. TypeOK' /\ OneTransaction'
  BY DEF LogInv, TypeOK, OneTransaction, LogPanic, stable
<1>9. NoLostWakeup'
  BY DEF LogInv, NoLostWakeup, LogPanic, stable
<1>2. Distinct(lh)' /\ Distinct(head)'
  BY DEF LogInv, Distinct, LogPanic, stable
<1>3. PhaseInv' /\ InstallInv'
  BY DEF LogInv, OneTransaction, PhaseInv, InstallInv, LogPanic, stable, Booting
<1>4. ~Booting' /\ Redone(cache', disk', logged', lh')
  BY DEF LogInv, LogPanic, stable, Booting
<1>. QED  BY <1>9, <1>1, <1>2, <1>3, <1>4 DEF LogInv

\* commit_trans()'s header write preserves the invariant.
LEMMA CommitTransInv ==
  ASSUME NEW p \in Proc, LogInv, CommitTrans(p)
  PROVE  LogInv'
<1>1. TypeOK'
  BY DEF LogInv, TypeOK, CommitTrans, WriteHead
<1>9. NoLostWakeup'
  BY DEF LogInv, TypeOK, NoLostWakeup, CommitTrans, WriteHead
<1>2. OneTransaction'
  BY DEF LogInv, TypeOK, OneTransaction, CommitTrans, WriteHead
<1>3. Distinct(lh)' /\ Distinct(head)'
  BY DEF LogInv, Distinct, CommitTrans, WriteHead
<1>4. PhaseInv'
  BY DEF LogInv, TypeOK, OneTransaction, PhaseInv, CommitTrans, WriteHead, Booting
<1>5. InstallInv'
  BY DEF LogInv, TypeOK, InstallInv, CommitTrans, WriteHead
<1>6. ~Booting' /\ Redone(cache', disk', logged', lh')
  BY DEF LogInv, CommitTrans, WriteHead, Booting
<1>. QED  BY <1>9, <1>1, <1>2, <1>3, <1>4, <1>5, <1>6 DEF LogInv

\* The end of commit_trans() preserves the invariant and wakes every sleeper.
LEMMA EndTransInv ==
  ASSUME NEW p \in Proc, LogInv, EndTrans(p)
  PROVE  LogInv'
<1>0. /\ pc'[p] = "out"
      /\ \A q \in Proc \ {p} : pc'[q] \in {"out", "asleep", "woken"}
      /\ pc' \in [Proc -> {"out", "asleep", "woken", "in", "committing"}]
  BY DEF LogInv, TypeOK, OneTransaction, EndTrans, Wakeup
<1>01. busy' = 0
  BY DEF EndTrans
<1>1. TypeOK'
  BY <1>0 DEF LogInv, TypeOK, EndTrans, Wakeup, stable
<1>9. NoLostWakeup'
  BY DEF LogInv, TypeOK, NoLostWakeup, EndTrans, Wakeup
<1>2. OneTransaction'
  BY <1>0, <1>01 DEF OneTransaction
<1>3. Distinct(lh)' /\ Distinct(head)'
  BY DEF LogInv, Distinct, EndTrans, Wakeup, stable
<1>4. PhaseInv'
  BY <1>0 DEF LogInv, PhaseInv, EndTrans, Wakeup, stable, Booting
<1>5. InstallInv'
  BY DEF InstallInv, EndTrans, Wakeup
<1>6. ~Booting' /\ Redone(cache', disk', logged', lh')
  BY DEF LogInv, EndTrans, Wakeup, stable, Booting
<1>. QED  BY <1>9, <1>1, <1>2, <1>3, <1>4, <1>5, <1>6 DEF LogInv

\* A crash at any step preserves the invariant: it speaks of the disk alone then.
LEMMA CrashInv == LogInv /\ Crash => LogInv'
<1> SUFFICES ASSUME LogInv, Crash PROVE LogInv'
  OBVIOUS
<1>1. TypeOK' /\ OneTransaction'
  BY DEF LogInv, TypeOK, OneTransaction, Crash, stable
<1>9. NoLostWakeup'
  BY DEF LogInv, NoLostWakeup, Crash
<1>2. Distinct(lh)' /\ Distinct(head)'
  BY CapacityType DEF LogInv, Distinct, Crash, stable
<1>3. PhaseInv' /\ InstallInv'
  BY DEF PhaseInv, InstallInv, Crash, Booting
<1>4. Booting' /\ cache' = disk'
  BY DEF Crash, stable, Booting
<1>. QED  BY <1>9, <1>1, <1>2, <1>3, <1>4 DEF LogInv

\* A step that changes nothing preserves the invariant.
LEMMA StutterInv == LogInv /\ UNCHANGED vars => LogInv'
BY DEF LogInv, TypeOK, OneTransaction, NoLostWakeup, Distinct, PhaseInv, InstallInv, Booting,
       Redone, vars

\* Every step of log.c preserves the invariant.
LEMMA NextInv == LogInv /\ [Next]_vars => LogInv'
<1> SUFFICES ASSUME LogInv, [Next]_vars PROVE LogInv'
  OBVIOUS
<1>1. CASE \E p \in Proc : Trans(p)
  <2>1. PICK p \in Proc : Trans(p)
    BY <1>1
  <2>2. CASE \E b \in Block, d \in Data : LogWrite(p, b, d)
    BY <2>2, LogWriteInv
  <2>. QED
    BY <2>1, <2>2, BeginTransInv, LogPanicInv, CommitTransInv, EndTransInv DEF Trans
<1>2. CASE ~ \E p \in Proc : Trans(p)
  BY <1>2, ReadHeadInv, InstallTransInv, EraseLogInv, CrashInv, StutterInv DEF Next
<1>. QED  BY <1>1, <1>2

\* log.c keeps its types, its headers, its phases and its buffers in step, for
\* every number of processes and blocks and every size of the log.
THEOREM LogInvariant == Spec => []LogInv
BY InitInv, NextInv, PTL DEF Spec

\* begin_trans() admits one transaction at a time.
THEOREM LogMutualExclusion == Spec => []OneTransaction
<1>1. LogInv => OneTransaction
  BY DEF LogInv
<1>. QED  BY <1>1, LogInvariant, PTL

\* Between two transactions nothing of a transaction is left in the log.
THEOREM LogQuiescent == Spec => []Quiescent
<1>1. LogInv => Quiescent
  <2> SUFFICES ASSUME LogInv, phase = "up", busy = 0
               PROVE  head = <<>> /\ lh = <<>> /\ cache = disk
    BY DEF Quiescent
  <2>1. head = <<>> /\ lh = <<>> /\ ~Booting
    BY DEF LogInv, PhaseInv, Booting
  <2>2. \A b \in Block : cache[b] = disk[b]
    BY <2>1 DEF LogInv, Redone
  <2>. QED  BY <2>1, <2>2 DEF LogInv, TypeOK
<1>. QED  BY <1>1, LogInvariant, PTL

\* Nobody sleeps in begin_trans() on a log that is free.
THEOREM LogNoLostWakeup == Spec => []NoLostWakeup
<1>1. LogInv => NoLostWakeup
  BY DEF LogInv
<1>. QED  BY <1>1, LogInvariant, PTL

\* A home block changes on disk only under a committed header that names it,
\* and takes the contents of its log block: install_trans() is the only writer.
THEOREM LogWriteAhead == Spec => WriteAhead
<1> DEFINE Rule == \A b \in Block : disk'[b] # disk[b] =>
                     \E i \in 1 .. Len(head) : head[i] = b /\ logged[i] = disk'[b]
<1>1. LogInv /\ [Next]_vars => [Rule]_vars
  <2> SUFFICES ASSUME LogInv, Next, NEW b \in Block, disk'[b] # disk[b]
               PROVE  \E i \in 1 .. Len(head) : head[i] = b /\ logged[i] = disk'[b]
    BY Zenon
  <2>1. InstallTrans
    BY DEF Next, Trans, ReadHead, EraseLog, AllHome, WriteHead, BeginTrans, LogWrite, LogPanic,
           CommitTrans, EndTrans, Crash, stable
  <2>2. tail + 1 \in 1 .. Len(lh) /\ lh[tail + 1] \in Block /\ head = lh
    BY <2>1 DEF LogInv, TypeOK, InstallInv, InstallTrans
  <2>3. b = lh[tail + 1] /\ disk'[b] = logged[tail + 1]
    BY <2>1, <2>2 DEF LogInv, TypeOK, InstallTrans
  <2>. QED  BY <2>2, <2>3
<1>. QED  BY <1>1, LogInvariant, PTL DEF Spec, WriteAhead

-------------------------------------------------------------------------------
(* The refinement of AtomicDisk *)

\* A state that Redone() describes is the one Redo() computes.
LEMMA RedoUnique ==
  ASSUME NEW c \in [Block -> Data], NEW d \in [Block -> Data], NEW g,
         NEW h \in Seq(Block), Distinct(h), Redone(c, d, g, h)
  PROVE  c = Redo(d, g, h)
<1>1. ASSUME NEW b \in Block PROVE c[b] = Redo(d, g, h)[b]
  <2>1. CASE \E i \in 1 .. Len(h) : h[i] = b
    BY <2>1, RedoIs DEF Redone
  <2>2. CASE ~ \E i \in 1 .. Len(h) : h[i] = b
    BY <2>2, RedoIs DEF Redone
  <2>. QED  BY <2>1, <2>2
<1>2. Redo(d, g, h) = [b \in Block |-> Redo(d, g, h)[b]]
  BY RedoIs
<1>. QED  BY <1>1, <1>2

\* Owner is the process inside the transaction, if there is one.
LEMMA OwnerIs ==
  ASSUME LogInv
  PROVE  /\ busy = 0 => Owner = NoProc
         /\ busy = 1 => Owner \in Proc /\ Owner # NoProc
         /\ \A p \in Proc : pc[p] \in {"in", "committing"} => Owner = p
<1>1. busy = 0 => Owner = NoProc
  BY DEF Owner
<1>2. ASSUME NEW p \in Proc, pc[p] \in {"in", "committing"} PROVE Owner = p
  <2>1. busy = 1
    BY <1>2 DEF LogInv, OneTransaction
  <2>2. Owner \in Proc /\ pc[Owner] \in {"in", "committing"}
    BY <1>2, <2>1 DEF Owner
  <2>. QED  BY <1>2, <2>2 DEF LogInv, OneTransaction
<1>3. ASSUME busy = 1 PROVE Owner \in Proc /\ Owner # NoProc
  <2>1. PICK p \in Proc : pc[p] \in {"in", "committing"}
    BY <1>3 DEF LogInv, OneTransaction
  <2>. QED  BY <1>2, <2>1, LogAssumption
<1>. QED  BY <1>1, <1>2, <1>3

\* OwnerIs in the next state, and what leaves Owner as it is.
LEMMA OwnerNext ==
  ASSUME LogInv'
  PROVE  /\ busy' = 0 => Owner' = NoProc
         /\ \A p \in Proc : pc'[p] \in {"in", "committing"} => Owner' = p
<1>1. busy' = 0 => Owner' = NoProc
  BY DEF Owner
<1>2. ASSUME NEW p \in Proc, pc'[p] \in {"in", "committing"} PROVE Owner' = p
  <2>1. busy' = 1
    BY <1>2 DEF LogInv, OneTransaction
  <2>2. Owner' \in Proc /\ pc'[Owner'] \in {"in", "committing"}
    BY <1>2, <2>1 DEF Owner
  <2>. QED  BY <1>2, <2>2 DEF LogInv, OneTransaction
<1>. QED  BY <1>1, <1>2

\* The next boot finds what the buffers hold, once the header is empty.
LEMMA DurableIs ==
  ASSUME LogInv
  PROVE  /\ head = <<>> => Durable = disk
         /\ ~Booting => cache = Redo(disk, logged, lh)
<1>1. head = <<>> => Durable = disk
  BY RedoEmpty DEF Durable, LogInv, TypeOK
<1>2. ~Booting => cache = Redo(disk, logged, lh)
  BY RedoUnique DEF LogInv, TypeOK
<1>. QED  BY <1>1, <1>2

\* While a log is being installed, the next boot finds the same blocks: the
\* blocks not yet home are taken from the log.
LEMMA InstallKeepsDurable ==
  ASSUME LogInv, InstallTrans
  PROVE  Durable' = Durable /\ (~Booting => cache' = cache)
<1>0. /\ head = lh /\ head' = head /\ lh' = lh /\ logged' = logged
      /\ lh \in Seq(Block) /\ Distinct(lh)
      /\ tail + 1 \in 1 .. Len(lh)
      /\ lh[tail + 1] \in Block
  BY DEF LogInv, TypeOK, InstallInv, InstallTrans
<1>1. ASSUME NEW b \in Block
      PROVE  Redo(disk', logged, lh)[b] = Redo(disk, logged, lh)[b]
  <2>1. CASE \E i \in 1 .. Len(lh) : lh[i] = b
    BY <1>0, <2>1, RedoIs
  <2>2. CASE ~ \E i \in 1 .. Len(lh) : lh[i] = b
    <3>1. disk'[b] = disk[b]
      BY <1>0, <2>2 DEF LogInv, TypeOK, InstallTrans
    <3>2. Redo(disk', logged, lh)[b] = disk'[b]
      BY <1>0, <2>2 DEF Redo
    <3>3. Redo(disk, logged, lh)[b] = disk[b]
      BY <1>0, <2>2 DEF Redo
    <3>. QED  BY <3>1, <3>2, <3>3
  <2>. QED  BY <2>1, <2>2
<1>2. Redo(disk', logged, lh) = Redo(disk, logged, lh)
  BY <1>1 DEF Redo
<1>3. ASSUME ~Booting PROVE cache' = cache
  <2>1. cache[lh[tail + 1]] = logged[tail + 1]
    BY <1>0, <1>3 DEF LogInv, Redone
  <2>. QED  BY <1>0, <2>1 DEF LogInv, TypeOK, InstallTrans
<1>. QED  BY <1>0, <1>2, <1>3 DEF Durable

\* Erasing the header leaves what the next boot finds, since every block is home.
LEMMA EraseKeepsDurable ==
  ASSUME LogInv, EraseLog
  PROVE  Durable = disk /\ cache = disk
<1>1. /\ head = lh /\ lh \in Seq(Block) /\ Distinct(lh)
      /\ \A i \in 1 .. Len(lh) : disk[lh[i]] = logged[i]
  BY DEF LogInv, TypeOK, InstallInv, EraseLog, AllHome, WriteHead
<1>2. Redone(disk, disk, logged, lh)
  BY <1>1 DEF Redone
<1>3. disk = Redo(disk, logged, lh)
  BY <1>1, <1>2, RedoUnique DEF LogInv, TypeOK
<1>4. cache = disk
  BY <1>3, DurableIs DEF LogInv
<1>. QED  BY <1>1, <1>3, <1>4 DEF Durable

\* Every step of log.c is a step of AtomicDisk or leaves its state alone.
LEMMA StepRefines ==
  ASSUME LogInv, LogInv', Next
  PROVE  Atomic!Next \/ UNCHANGED <<Owner, Durable, Current>>
<1>1. CASE ReadHead
  BY <1>1 DEF ReadHead, stable, Owner, Durable, Current, Booting
<1>2. CASE InstallTrans
  <2>1. UNCHANGED <<Owner, phase>>
    BY <1>2 DEF InstallTrans, Owner
  <2>. QED  BY <1>2, <2>1, InstallKeepsDurable DEF Current, Booting
<1>3. CASE EraseLog
  <2>1. Durable = disk /\ cache = disk
    BY <1>3, EraseKeepsDurable
  <2>2. disk' = disk /\ cache' = cache /\ Owner' = Owner /\ head' = <<>> /\ ~Booting'
    BY <1>3 DEF EraseLog, AllHome, WriteHead, Owner, Booting
  <2>3. Durable' = disk
    BY <2>2, RedoEmpty DEF Durable, LogInv, TypeOK
  <2>. QED  BY <2>1, <2>2, <2>3 DEF Current
<1>4. ASSUME NEW p \in Proc, BeginTrans(p)
      PROVE  Atomic!Begin(p) \/ UNCHANGED <<Owner, Durable, Current>>
  <2>1. UNCHANGED <<Durable, Current>>
    BY <1>4 DEF BeginTrans, stable, Durable, Current, Booting
  <2>2. CASE busy # 0
    <3>1. PICK q \in Proc : pc[q] \in {"in", "committing"}
      BY <2>2 DEF LogInv, TypeOK, OneTransaction
    <3>2. Owner = q
      BY <3>1, OwnerIs
    <3>3. pc'[q] = pc[q]
      BY <1>4, <2>2, <3>1 DEF BeginTrans, LogInv, TypeOK
    <3>4. Owner' = q
      BY <3>1, <3>3, OwnerNext
    <3>. QED  BY <2>1, <3>2, <3>4
  <2>3. CASE busy = 0
    <3>1. Owner = NoProc
      BY <2>3, OwnerIs
    <3>2. pc'[p] = "in"
      BY <1>4, <2>3 DEF BeginTrans, LogInv, TypeOK
    <3>3. Owner' = p
      BY <3>2, OwnerNext
    <3>. QED  BY <2>1, <3>1, <3>3 DEF Atomic!Begin
  <2>. QED  BY <2>2, <2>3
<1>5. ASSUME NEW p \in Proc, NEW b \in Block, NEW d \in Data, LogWrite(p, b, d)
      PROVE  Atomic!Write(b, d)
  <2>1. Owner = p /\ Owner # NoProc /\ UNCHANGED <<Owner, disk, head>>
    BY <1>5, OwnerIs, LogAssumption DEF LogWrite, Owner
  <2>2. Durable = disk /\ Durable' = disk
    <3>1. head = <<>>
      BY <1>5 DEF LogWrite, LogInv, PhaseInv
    <3>. QED  BY <2>1, <3>1, RedoEmpty DEF Durable, LogInv, TypeOK
  <2>3. Current = cache /\ Current' = [cache EXCEPT ![b] = d]
    BY <1>5 DEF Current, LogWrite, Booting
  <2>. QED  BY <2>1, <2>2, <2>3 DEF Atomic!Write
<1>6. ASSUME NEW p \in Proc, LogPanic(p)
      PROVE  UNCHANGED <<Owner, Durable, Current>>
  BY <1>6 DEF LogPanic, stable, Owner, Durable, Current, Booting
<1>7. ASSUME NEW p \in Proc, CommitTrans(p)
      PROVE  Atomic!Commit \/ UNCHANGED <<Owner, Durable, Current>>
  <2>1. pc[p] = "in" /\ pc'[p] = "committing"
    BY <1>7 DEF CommitTrans, WriteHead, LogInv, TypeOK
  <2>2. Owner = p /\ Owner' = p /\ Owner # NoProc
    BY <2>1, OwnerIs, OwnerNext, LogAssumption
  <2>3. Current = cache /\ Current' = cache
    BY <1>7 DEF Current, CommitTrans, WriteHead, Booting
  <2>4. CASE lh = <<>>
    BY <1>7, <2>2, <2>3, <2>4 DEF CommitTrans, WriteHead, Durable
  <2>5. CASE lh # <<>>
    <3>1. Durable' = Redo(disk, logged, lh)
      BY <1>7, <2>5 DEF CommitTrans, WriteHead, Durable
    <3>2. cache = Redo(disk, logged, lh)
      BY <1>7, DurableIs DEF CommitTrans, WriteHead, Booting
    <3>. QED  BY <2>2, <2>3, <3>1, <3>2 DEF Atomic!Commit
  <2>. QED  BY <2>4, <2>5
<1>8. ASSUME NEW p \in Proc, EndTrans(p)
      PROVE  Atomic!End
  <2>1. Owner # NoProc /\ Owner' = NoProc
    BY <1>8, OwnerIs, OwnerNext, LogAssumption DEF EndTrans, Wakeup
  <2>2. head = <<>> /\ lh = <<>> /\ ~Booting /\ ~Booting'
    BY <1>8 DEF EndTrans, Wakeup, LogInv, PhaseInv, Booting
  <2>3. Durable = disk /\ cache = disk
    BY Zenon, <2>2, DurableIs, RedoEmpty DEF LogInv, TypeOK
  <2>4. UNCHANGED <<disk, logged, head, cache>>
    BY <1>8 DEF EndTrans, Wakeup, stable
  <2>. QED  BY <2>1, <2>2, <2>3, <2>4 DEF Atomic!End, Durable, Current
<1>10. CASE Crash
  <2>1. Owner' = NoProc /\ Booting'
    BY <1>10, OwnerNext DEF Crash, Booting
  <2>2. Durable' = Durable
    BY <1>10 DEF Crash, stable, Durable
  <2>. QED  BY <2>1, <2>2 DEF Atomic!Next, Atomic!Crash, Current
<1>. QED
  BY <1>1, <1>2, <1>3, <1>4, <1>5, <1>6, <1>7, <1>8, <1>10
  DEF Next, Trans, Atomic!Next

\* Crash atomicity: for every number of processes and blocks, every size of the
\* log and every sequence of crashes, log.c behaves as a disk that changes by
\* whole transactions.
THEOREM LogRefinesAtomicDisk == Spec => Refinement
<1>1. Init => Atomic!Init
  <2> SUFFICES ASSUME Init PROVE Atomic!Init
    OBVIOUS
  <2>1. Owner = NoProc /\ Booting
    BY DEF Init, Owner, Booting
  <2>2. Durable = disk
    BY RedoEmpty, LogAssumption DEF Init, Durable
  <2>. QED  BY <2>1, <2>2 DEF Init, Atomic!Init, Current
<1>2. LogInv /\ LogInv' /\ [Next]_vars => [Atomic!Next]_<<Owner, Durable, Current>>
  <2>1. ASSUME UNCHANGED vars PROVE UNCHANGED <<Owner, Durable, Current>>
    BY <2>1 DEF vars, Owner, Durable, Current, Booting
  <2>. QED  BY <2>1, StepRefines
<1>. QED
  BY <1>1, <1>2, LogInvariant, PTL DEF Spec, Refinement, Atomic!Spec, Atomic!vars
===============================================================================
