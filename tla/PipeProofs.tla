------------------------------ MODULE PipeProofs ------------------------------
(***************************************************************************)
(* pipe.c for every size of the pipe, every width of its counters and any  *)
(* number of readers and writers, whoever of them is killed: it is not     *)
(* freed in use, and nobody sleeps on a pipe that has something for them,  *)
(* but for readers that a killed writer did not wake.                      *)
(***************************************************************************)
EXTENDS Pipe, SequenceTheorems, TLAPS

PipeType ==
    /\ nread \in 0 .. Modulus - 1
    /\ nwrite \in 0 .. Modulus - 1
    /\ readopen \in {0, 1}
    /\ writeopen \in {0, 1}
    /\ open \subseteq Proc
    /\ pc \in [Proc -> Pcs]
    /\ left \in [Writer -> Seq(Byte)]
    /\ killed \in [Proc -> {0, 1}]

\* Whoever sleeps, or is about to with p->lock held, has something to wait for.
Waiting ==
    /\ \A p \in Writer : pc[p] \in {"sleepy", "asleep"} => Count = PIPESIZE /\ readopen = 1
    /\ \A p \in Reader : pc[p] \in {"sleepy", "asleep"} => writeopen = 1 /\ (Empty \/ Abandoned)

\* SleepersWait is not inductive: it says nothing of who is about to sleep, and
\* it needs the counters to be at most PIPESIZE apart.
PipeInv ==
    /\ PipeType
    /\ Count <= PIPESIZE
    /\ NotFreedInUse
    /\ Waiting

-------------------------------------------------------------------------------
(* Counters that wrap around *)

\* The pipe's constants.
LEMMA Sizes ==
  /\ PIPESIZE \in Nat \ {0} /\ Modulus \in Nat \ {0} /\ PIPESIZE < Modulus
  /\ Reader # {} /\ Writer # {} /\ Reader \cap Writer = {} /\ Passed \in 0 .. Modulus - 1
BY PipeAssumption

\* A number below the modulus is its own remainder.
LEMMA ModBelow ==
  ASSUME NEW M \in Nat \ {0}, NEW x \in Int, 0 <= x, x < M
  PROVE  x % M = x
OBVIOUS

\* The remainder of a negative difference of two counters.
LEMMA ModNegative ==
  ASSUME NEW M \in Nat \ {0}, NEW x \in Int, 0 - M <= x, x < 0
  PROVE  x % M = x + M
OBVIOUS

\* The remainder of a counter that has just passed the modulus.
LEMMA ModAbove ==
  ASSUME NEW M \in Nat \ {0}, NEW x \in Int, M <= x, x < M + M
  PROVE  x % M = x - M
OBVIOUS

Diff(w, r) == (w - r) % Modulus

\* nwrite - nread as unsigned integers.
LEMMA DiffIs ==
  ASSUME NEW w \in 0 .. Modulus - 1, NEW r \in 0 .. Modulus - 1
  PROVE  /\ Diff(w, r) = IF w >= r THEN w - r ELSE w - r + Modulus
         /\ Diff(w, r) \in 0 .. Modulus - 1
<1>. USE Sizes DEF Diff
<1>1. CASE w >= r
  BY <1>1, ModBelow
<1>2. CASE w < r
  <2>1. /\ Modulus \in Nat \ {0} /\ w - r \in Int
        /\ 0 - Modulus <= w - r /\ w - r < 0
    BY <1>2
  <2>2. (w - r) % Modulus = (w - r) + Modulus
    BY <2>1, ModNegative
  <2>. QED  BY <1>2, <2>2
<1>. QED  BY <1>1, <1>2

\* n += k as unsigned integers.
LEMMA AdvanceIs ==
  ASSUME NEW n \in 0 .. Modulus - 1, NEW k \in 0 .. Modulus - 1
  PROVE  /\ Advance(n, k) = IF n + k < Modulus THEN n + k ELSE n + k - Modulus
         /\ Advance(n, k) \in 0 .. Modulus - 1
<1>. USE Sizes DEF Advance
<1>1. CASE n + k < Modulus
  BY <1>1, ModBelow
<1>2. CASE n + k >= Modulus
  <2>1. /\ Modulus \in Nat \ {0} /\ n + k \in Int
        /\ Modulus <= n + k /\ n + k < Modulus + Modulus
    BY <1>2
  <2>2. (n + k) % Modulus = (n + k) - Modulus
    BY Zenon, <2>1, ModAbove
  <2>. QED  BY <1>2, <2>2
<1>. QED  BY <1>1, <1>2

\* pipewrite() of k bytes, where they fit, makes the difference k larger, and
\* piperead() of k bytes, where there are so many, makes it k smaller.
LEMMA CountMoves ==
  ASSUME NEW w \in 0 .. Modulus - 1, NEW r \in 0 .. Modulus - 1, NEW k \in 0 .. Modulus - 1
  PROVE  /\ Diff(w, r) + k < Modulus => Diff(Advance(w, k), r) = Diff(w, r) + k
         /\ k <= Diff(w, r) => Diff(w, Advance(r, k)) = Diff(w, r) - k
<1>1. /\ Advance(w, k) \in 0 .. Modulus - 1 /\ Advance(r, k) \in 0 .. Modulus - 1
      /\ Advance(w, k) = IF w + k < Modulus THEN w + k ELSE w + k - Modulus
      /\ Advance(r, k) = IF r + k < Modulus THEN r + k ELSE r + k - Modulus
  BY AdvanceIs
<1>2. Diff(w, r) = IF w >= r THEN w - r ELSE w - r + Modulus
  BY DiffIs
<1>3. Diff(Advance(w, k), r) = IF Advance(w, k) >= r THEN Advance(w, k) - r ELSE Advance(w, k) - r + Modulus
  BY Zenon, <1>1, DiffIs
<1>4. Diff(w, Advance(r, k)) = IF w >= Advance(r, k) THEN w - Advance(r, k) ELSE w - Advance(r, k) + Modulus
  BY Zenon, <1>1, DiffIs
<1>. QED  BY <1>1, <1>2, <1>3, <1>4, Sizes

-------------------------------------------------------------------------------
(* The invariant *)

\* A writer that gave up stays outside pipewrite(): whatever the others do, and kill(),
\* it remains the reason why a reader may sleep on a pipe that is not empty.
LEMMA StaysAbandoned ==
  ASSUME Abandoned, \A p \in Writer : GaveUp(p) => pc'[p] = "out" /\ left'[p] = left[p] /\ killed'[p] = killed[p]
  PROVE  Abandoned'
BY DEF Abandoned, GaveUp

\* pipealloc(): both ends are open and the pipe is empty.
LEMMA InitPipeInv ==
  ASSUME Init
  PROVE  PipeInv
<1>. USE Sizes DEF Init
<1>1. PipeType
  BY DEF PipeType, Proc, Pcs
<1>2. Count = 0
  BY ModBelow DEF Count
<1>3. NotFreedInUse
  BY DEF NotFreedInUse, Proc
<1>. QED  BY <1>1, <1>2, <1>3 DEF PipeInv, Waiting, Proc

\* Entering pipewrite() or piperead(), and sleep(), leave the pipe alone.
LEMMA EnterOrSleepInv ==
  ASSUME PipeInv, NEW p \in Proc,
         UNCHANGED <<pipe, open, killed>>, left' \in [Writer -> Seq(Byte)],
         \A q \in Writer \ {p} : left'[q] = left[q],
         \/ p \in open /\ killed[p] = 0 /\ pc[p] = "out" /\ pc' = [pc EXCEPT ![p] = "ready"]
         \/ pc[p] = "sleepy" /\ pc' = [pc EXCEPT ![p] = "asleep"]
  PROVE  PipeInv'
<1>. USE DEF PipeInv
<1>1. UNCHANGED <<nread, nwrite, readopen, writeopen, open, killed>>
  BY DEF pipe
<1>2. Count' = Count /\ Empty' = Empty
  BY <1>1 DEF Count, Empty
<1>3. PipeType'
  BY Zenon, <1>1 DEF PipeType, Pcs
<1>4. NotFreedInUse'
  BY <1>1 DEF NotFreedInUse, PipeType
<1>5. Abandoned => Abandoned'
  <2>1. ASSUME NEW q \in Writer, GaveUp(q) PROVE q # p /\ q \in Proc
    BY <2>1 DEF GaveUp, Proc
  <2>2. ASSUME NEW q \in Writer, GaveUp(q)
        PROVE  pc'[q] = "out" /\ left'[q] = left[q] /\ killed'[q] = killed[q]
    BY <1>1, <2>1, <2>2 DEF GaveUp, PipeType
  <2>. QED  BY <2>2, StaysAbandoned
<1>6. Waiting'
  BY <1>1, <1>2, <1>5 DEF Waiting, PipeType, Proc
<1>. QED  BY <1>1, <1>2, <1>3, <1>4, <1>6

\* pipewrite(): who stores a byte wakes the readers, and who sleeps has filled
\* the pipe.
LEMMA PipeWriteInv ==
  ASSUME PipeInv, NEW p \in Writer, PipeWrite(p)
  PROVE  PipeInv'
<1>. USE Sizes DEF PipeInv
<1> DEFINE k == Min(Len(left[p]), Room)
<1>1. p \in Proc /\ left[p] \in Seq(Byte) /\ Len(left[p]) \in Nat
  BY DEF PipeType, Proc
<1>2. Count \in 0 .. PIPESIZE /\ Count = Diff(nwrite, nread)
  BY DiffIs DEF PipeType, Count, Diff
<1>3. k \in 0 .. PIPESIZE - Count /\ k \in 0 .. Modulus - 1
  BY <1>1, <1>2 DEF Min, Room
<1>4. nwrite' = Advance(nwrite, k) /\ nwrite' \in 0 .. Modulus - 1
  BY <1>3, AdvanceIs DEF PipeWrite, PipeType
<1>5. Count' = Count + k
  <2>1. Count' = Diff(nwrite', nread)
    BY DEF PipeWrite, Count, Diff
  <2>2. nwrite \in 0 .. Modulus - 1 /\ nread \in 0 .. Modulus - 1 /\ Diff(nwrite, nread) + k < Modulus
    BY <1>2, <1>3 DEF PipeType
  <2>. HIDE DEF k
  <2>3. Diff(Advance(nwrite, k), nread) = Diff(nwrite, nread) + k
    BY <1>3, <2>2, CountMoves
  <2>. QED  BY <1>2, <1>4, <2>1, <2>3
<1>6. left' \in [Writer -> Seq(Byte)]
  <2>1. SubSeq(left[p], k + 1, Len(left[p])) \in Seq(Byte)
    <3>1. k <= Len(left[p])
      BY <1>1, <1>2 DEF Min, Room
    <3>. QED  BY <1>1, <1>3, <3>1, SubSeqProperties
  <2>. QED  BY Zenon, <2>1 DEF PipeWrite, PipeType
<1>7. /\ UNCHANGED <<nread, readopen, writeopen, open, killed>>
      /\ pc[p] = "ready" /\ LockFree /\ p \in open
      /\ left' = [left EXCEPT ![p] = SubSeq(@, k + 1, Len(@))]
  BY <1>1 DEF PipeWrite, NotFreedInUse
<1>8. \/ /\ k = Len(left[p]) /\ pc' = [Wakeup(Reader) EXCEPT ![p] = "out"]
      \/ /\ k # Len(left[p]) /\ (readopen = 0 \/ killed[p] = 1)
         /\ pc' = [pc EXCEPT ![p] = "out"]
      \/ /\ k # Len(left[p]) /\ readopen = 1 /\ pc' = [Wakeup(Reader) EXCEPT ![p] = "sleepy"]
  BY <1>7 DEF PipeWrite, PipeType
<1>9. pc' \in [Proc -> Pcs]
  BY Zenon, <1>8 DEF Wakeup, PipeType, Pcs
<1>10. PipeType'
  BY <1>4, <1>6, <1>7, <1>9 DEF PipeType
<1>11. NotFreedInUse'
  BY Zenon, <1>7, <1>8 DEF NotFreedInUse, Wakeup, PipeType
<1>12. Abandoned => Abandoned'
  <2>1. ASSUME NEW q \in Writer, GaveUp(q) PROVE q # p /\ q \in Proc /\ pc[q] = "out"
    BY <1>7, <2>1 DEF GaveUp, Proc
  <2>2. ASSUME NEW q \in Writer, GaveUp(q) PROVE pc'[q] = "out"
    BY Zenon, <1>8, <2>1, <2>2 DEF PipeType, Wakeup
  <2>3. ASSUME NEW q \in Writer, GaveUp(q) PROVE left'[q] = left[q] /\ killed'[q] = killed[q]
    BY Zenon, <1>7, <2>1, <2>3 DEF PipeType
  <2>. QED  BY <2>2, <2>3, StaysAbandoned
<1>13. ASSUME NEW q \in Reader, pc'[q] \in {"sleepy", "asleep"}
       PROVE  writeopen' = 1 /\ (Empty' \/ Abandoned')
  <2>1. q # p /\ q \in Proc /\ pc[q] # "sleepy"
    BY <1>7 DEF Proc, LockFree
  <2>2. k # Len(left[p]) /\ (readopen = 0 \/ killed[p] = 1) /\ pc' = [pc EXCEPT ![p] = "out"] /\ pc[q] = "asleep"
    BY Zenon, <1>8, <1>13, <2>1 DEF Wakeup, PipeType
  <2>3. readopen = 1 /\ killed[p] = 1
    BY <2>1, <2>2 DEF NotFreedInUse, PipeType
  <2>4. left'[p] # <<>>
    <3>1. k < Len(left[p])
      BY <1>1, <1>2, <2>2 DEF Min, Room
    <3>2. left'[p] = SubSeq(left[p], k + 1, Len(left[p]))
      BY Zenon, <1>7 DEF PipeType
    <3>3. Len(left'[p]) = Len(left[p]) - k
      BY <1>1, <1>3, <3>1, <3>2, SubSeqProperties
    <3>. HIDE DEF k
    <3>. QED  BY <1>1, <1>3, <3>1, <3>3, EmptySeq
  <2>5. GaveUp(p)'
    BY <1>1, <1>7, <2>2, <2>3, <2>4 DEF GaveUp, PipeType
  <2>6. writeopen' = 1
    BY <1>7, <2>2 DEF Waiting
  <2>. QED  BY <2>5, <2>6 DEF Abandoned
<1>14. ASSUME NEW q \in Writer, pc'[q] \in {"sleepy", "asleep"}
       PROVE  Count' = PIPESIZE /\ readopen' = 1
  <2>1. CASE q = p
    <3>1. k # Len(left[p]) /\ readopen = 1
      BY <1>8, <1>14, <2>1 DEF Wakeup, PipeType, Proc
    <3>2. k = Room
      BY <3>1 DEF Min
    <3>. QED  BY <1>2, <1>5, <1>7, <3>1, <3>2 DEF Room
  <2>2. CASE q # p
    <3>1. pc[q] = "asleep"
      BY Zenon, <1>7, <1>8, <1>14, <2>2 DEF Wakeup, PipeType, Proc, LockFree
    <3>2. Count = PIPESIZE /\ readopen = 1
      BY <3>1 DEF Waiting
    <3>. QED  BY <1>3, <1>5, <1>7, <3>2
  <2>. QED  BY <2>1, <2>2
<1>15. Count' <= PIPESIZE
  BY <1>2, <1>3, <1>5
<1>. QED  BY <1>7, <1>10, <1>11, <1>13, <1>14, <1>15 DEF Waiting

\* piperead() of an empty pipe that has a writer: the reader waits for it.
LEMMA PipeReadWaitInv ==
  ASSUME PipeInv, NEW p \in Reader, PipeReadWait(p)
  PROVE  PipeInv'
<1>. USE DEF PipeInv
<1>1. /\ UNCHANGED <<nread, nwrite, readopen, writeopen, open, killed, left>>
      /\ pc[p] = "ready" /\ Empty /\ writeopen = 1
      /\ pc' = [pc EXCEPT ![p] = IF killed[p] = 1 THEN "out" ELSE "sleepy"]
  BY DEF PipeReadWait, pipe
<1>2. Count' = Count /\ Empty' = Empty
  BY <1>1 DEF Count, Empty
<1>3. PipeType'
  BY Zenon, <1>1 DEF PipeType, Pcs
<1>4. NotFreedInUse'
  BY <1>1 DEF NotFreedInUse, PipeType, Proc
<1>5. p \notin Writer
  BY Sizes
<1>6. Abandoned => Abandoned'
  BY <1>1, <1>5, StaysAbandoned DEF GaveUp, PipeType, Proc
<1>7. Waiting'
  BY <1>1, <1>2, <1>5, <1>6 DEF Waiting, PipeType, Proc
<1>. QED  BY <1>1, <1>2, <1>3, <1>4, <1>7

\* piperead() wakes every writer; a reader that sleeps on a pipe with something in it
\* has been abandoned before.
LEMMA PipeReadInv ==
  ASSUME PipeInv, NEW p \in Reader, NEW n \in 1 .. MaxIO, PipeRead(p, n)
  PROVE  PipeInv'
<1>. USE Sizes DEF PipeInv
<1> DEFINE k == Min(n, Count)
<1>1. /\ UNCHANGED <<nwrite, readopen, writeopen, open, killed, left>>
      /\ pc[p] = "ready" /\ LockFree /\ (~Empty \/ writeopen = 0)
      /\ nread' = Advance(nread, k)
      /\ pc' = [Wakeup(Writer) EXCEPT ![p] = "out"]
  BY DEF PipeRead
<1>2. Count \in 0 .. PIPESIZE /\ Count = Diff(nwrite, nread)
  BY DiffIs DEF PipeType, Count, Diff
<1>3. k \in 0 .. Count /\ k \in 0 .. Modulus - 1
  BY <1>2 DEF Min
<1>4. nread' \in 0 .. Modulus - 1
  BY <1>1, <1>3, AdvanceIs DEF PipeType
<1>5. Count' = Count - k
  <2>1. Count' = Diff(nwrite, nread')
    BY <1>1 DEF Count, Diff
  <2>2. nwrite \in 0 .. Modulus - 1 /\ nread \in 0 .. Modulus - 1 /\ k <= Diff(nwrite, nread)
    BY <1>2, <1>3 DEF PipeType
  <2>. HIDE DEF k
  <2>3. Diff(nwrite, Advance(nread, k)) = Diff(nwrite, nread) - k
    BY <1>3, <2>2, CountMoves
  <2>. QED  BY <1>1, <1>2, <2>1, <2>3
<1>6. PipeType'
  BY Zenon, <1>1, <1>4 DEF PipeType, Wakeup, Pcs
<1>7. NotFreedInUse'
  BY <1>1 DEF NotFreedInUse, PipeType, Wakeup, Proc
<1>8. Abandoned => Abandoned'
  <2>1. ASSUME NEW q \in Writer, GaveUp(q) PROVE pc'[q] = "out"
    BY <1>1, <2>1 DEF GaveUp, Wakeup, PipeType, Proc
  <2>. QED  BY <1>1, <2>1, StaysAbandoned
<1>9. ASSUME NEW q \in Proc, pc'[q] \in {"sleepy", "asleep"}
      PROVE  q \notin Writer /\ writeopen' = 1 /\ Abandoned'
  <2>1. q \notin Writer /\ q \in Reader /\ pc[q] = "asleep"
    BY <1>1, <1>9 DEF Wakeup, PipeType, LockFree, Proc
  <2>2. writeopen = 1 /\ (Empty \/ Abandoned)
    BY <2>1 DEF Waiting
  <2>. QED  BY <1>1, <1>8, <2>1, <2>2
<1>10. Count' <= PIPESIZE
  BY <1>2, <1>3, <1>5
<1>. QED  BY <1>1, <1>6, <1>7, <1>9, <1>10 DEF Waiting, Proc

\* kill() makes its process runnable.
LEMMA KillInv ==
  ASSUME PipeInv, NEW p \in Proc, Kill(p)
  PROVE  PipeInv'
<1>. USE DEF PipeInv
<1>1. /\ UNCHANGED <<nread, nwrite, readopen, writeopen, open, left>>
      /\ p \in open /\ killed[p] = 0
      /\ killed' = [killed EXCEPT ![p] = 1]
      /\ pc' = Wakeup({p})
  BY DEF Kill, pipe
<1>2. Count' = Count /\ Empty' = Empty
  BY <1>1 DEF Count, Empty
<1>3. PipeType'
  BY <1>1 DEF PipeType, Wakeup, Pcs
<1>4. NotFreedInUse'
  BY <1>1 DEF NotFreedInUse, PipeType, Wakeup
<1>5. Abandoned => Abandoned'
  BY <1>1, StaysAbandoned DEF GaveUp, PipeType, Proc, Wakeup
<1>6. Waiting'
  BY <1>1, <1>2, <1>5 DEF Waiting, PipeType, Proc, Wakeup
<1>. QED  BY <1>2, <1>3, <1>4, <1>6

\* pipeclose() of the last reference to an end wakes who waits for that end.
LEMMA CloseInv ==
  ASSUME PipeInv, NEW p \in Proc, Close(p)
  PROVE  PipeInv'
<1>. USE Sizes DEF PipeInv
<1>1. /\ UNCHANGED <<nread, nwrite, killed, left>>
      /\ p \in open /\ pc[p] = "out" /\ LockFree /\ open' = open \ {p}
  BY DEF Close
<1>2. Count' = Count /\ Empty' = Empty
  BY <1>1 DEF Count, Empty
<1>3. CASE p \in Writer /\ LastRef(p, Writer) /\ writeopen' = 0 /\ pc' = Wakeup(Reader) /\ UNCHANGED readopen
  <2>1. PipeType'
    BY <1>1, <1>3 DEF PipeType, Wakeup, Pcs
  <2>2. NotFreedInUse'
    BY <1>1, <1>3 DEF NotFreedInUse, PipeType, Wakeup, LastRef
  <2>3. Abandoned => Abandoned'
    BY <1>1, <1>3, StaysAbandoned DEF GaveUp, PipeType, Wakeup, Proc
  <2>4. Waiting'
    BY <1>1, <1>2, <1>3, <2>3 DEF Waiting, PipeType, Wakeup, Proc, LockFree
  <2>. QED  BY <1>1, <1>2, <2>1, <2>2, <2>4
<1>4. CASE p \in Reader /\ LastRef(p, Reader) /\ readopen' = 0 /\ pc' = Wakeup(Writer) /\ UNCHANGED writeopen
  <2>1. PipeType'
    BY <1>1, <1>4 DEF PipeType, Wakeup, Pcs
  <2>2. NotFreedInUse'
    BY <1>1, <1>4 DEF NotFreedInUse, PipeType, Wakeup, LastRef
  <2>3. Abandoned => Abandoned'
    BY <1>1, <1>4, StaysAbandoned DEF GaveUp, PipeType, Wakeup, Proc
  <2>4. Waiting'
    BY <1>1, <1>2, <1>4, <2>3 DEF Waiting, PipeType, Wakeup, Proc, LockFree
  <2>. QED  BY <1>1, <1>2, <2>1, <2>2, <2>4
<1>5. CASE ~LastRef(p, Writer) /\ ~LastRef(p, Reader) /\ UNCHANGED <<readopen, writeopen, pc>>
  <2>1. PipeType'
    BY <1>1, <1>5 DEF PipeType
  <2>2. NotFreedInUse'
    BY <1>1, <1>5 DEF NotFreedInUse, PipeType, LastRef
  <2>3. Waiting'
    BY <1>1, <1>2, <1>5 DEF Waiting, Abandoned, GaveUp
  <2>. QED  BY <1>1, <1>2, <2>1, <2>2, <2>3
<1>. QED  BY <1>3, <1>4, <1>5 DEF Close

\* Every step of pipe.c preserves the invariant.
LEMMA NextPipeInv ==
  ASSUME PipeInv, [Next]_vars
  PROVE  PipeInv'
<1>1. ASSUME NEW p \in Writer, NEW bytes \in Messages, EnterWrite(p, bytes) PROVE PipeInv'
  <2>1. bytes \in Seq(Byte)
    BY DEF Messages
  <2>2. left' \in [Writer -> Seq(Byte)] /\ \A q \in Writer \ {p} : left'[q] = left[q]
    BY <1>1, <2>1 DEF EnterWrite, PipeInv, PipeType
  <2>. QED  BY Zenon, <1>1, <2>2, EnterOrSleepInv DEF EnterWrite, Proc
<1>2. ASSUME NEW p \in Writer, PipeWrite(p) PROVE PipeInv'
  BY <1>2, PipeWriteInv
<1>3. ASSUME NEW p \in Reader, EnterRead(p) PROVE PipeInv'
  <2>1. left' \in [Writer -> Seq(Byte)] /\ left' = left
    BY <1>3 DEF EnterRead, PipeInv, PipeType
  <2>. QED  BY Zenon, <1>3, <2>1, EnterOrSleepInv DEF EnterRead, Proc
<1>4. ASSUME NEW p \in Reader, PipeReadWait(p) PROVE PipeInv'
  BY <1>4, PipeReadWaitInv
<1>5. ASSUME NEW p \in Reader, NEW n \in 1 .. MaxIO, PipeRead(p, n) PROVE PipeInv'
  BY <1>5, PipeReadInv
<1>6. ASSUME NEW p \in Proc, Sleep(p) PROVE PipeInv'
  <2>1. left' \in [Writer -> Seq(Byte)] /\ left' = left
    BY <1>6 DEF Sleep, PipeInv, PipeType
  <2>. QED  BY Zenon, <1>6, <2>1, EnterOrSleepInv DEF Sleep
<1>7. ASSUME NEW p \in Proc, Kill(p) PROVE PipeInv'
  BY <1>7, KillInv
<1>8. ASSUME NEW p \in Proc, Close(p) PROVE PipeInv'
  BY <1>8, CloseInv
<1>9. CASE UNCHANGED vars
  BY <1>9 DEF vars, pipe, PipeInv, PipeType, NotFreedInUse, Waiting, Count, Empty, Abandoned, GaveUp
<1>. QED
  BY <1>1, <1>2, <1>3, <1>4, <1>5, <1>6, <1>7, <1>8, <1>9 DEF Next, Write, Read

\* pipeclose(): whatever the order of closes, reads and writes, the pipe is freed only
\* when no process is inside or has an end open.
THEOREM PipeNotFreedInUse == Spec => []NotFreedInUse
<1>1. Init => PipeInv
  BY InitPipeInv
<1>2. PipeInv /\ [Next]_vars => PipeInv'
  BY NextPipeInv
<1>3. PipeInv => NotFreedInUse
  BY DEF PipeInv
<1>. QED  BY <1>1, <1>2, <1>3, PTL DEF Spec

\* pipewrite(), piperead(): writers sleep on a full pipe only, and readers on an empty one or
\* on one that a killed writer gave up on, for any size of the pipe, any number of processes,
\* whoever is killed, and counters that wrap around.
THEOREM PipeSleepersWait == Spec => []SleepersWait
<1>1. Init => PipeInv
  BY InitPipeInv
<1>2. PipeInv /\ [Next]_vars => PipeInv'
  BY NextPipeInv
<1>3. PipeInv => SleepersWait
  BY DEF PipeInv, Waiting, SleepersWait, WriterSleepsOnFull, ReaderSleepsOnEmpty
<1>. QED  BY <1>1, <1>2, <1>3, PTL DEF Spec
===============================================================================
