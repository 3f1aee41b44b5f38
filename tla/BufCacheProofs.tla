--------------------------- MODULE BufCacheProofs ---------------------------
(***************************************************************************)
(* Proofs about BufCache.tla for every number of buffers, sectors and      *)
(* processes: BufInv is inductive, and bio.c implements BlockStore.        *)
(***************************************************************************)
EXTENDS BufCache, TLAPS

\* binit() and the disk image satisfy the invariant.
LEMMA InitBufInv == Init => BufInv
<1> SUFFICES ASSUME Init PROVE BufInv
  OBVIOUS
<1>. USE BufAssumption
<1>1. TypeOK
  BY DEF Init, TypeOK, Buf
<1>2. UniqueSector /\ Coherent /\ HeldIsValid /\ NoLostWakeup /\ InUse
  BY DEF Init, UniqueSector, Coherent, HeldIsValid, NoLostWakeup, InUse
<1>3. ListIntact
  BY DEF Init, ListIntact, Buf
<1>. QED  BY <1>1, <1>2, <1>3 DEF BufInv

\* NoBuf is no buffer, NoProc no process and NoSector no sector.
LEMMA BufFacts == NoBuf \notin Buf /\ NoProc \notin Proc /\ NoSector \notin Sector
BY BufAssumption DEF Buf, NoBuf

\* bget() that finds the sector in an idle buffer preserves the invariant.
LEMMA BgetHitInv ==
  ASSUME NEW p \in Proc, NEW s \in Sector, BufInv, BgetHit(p, s)
  PROVE  BufInv'
<1>1. PICK c \in Buf :
        /\ sector[c] = s
        /\ holder[c] = NoProc
        /\ holder' = [holder EXCEPT ![c] = p]
        /\ b' = [b EXCEPT ![p] = c]
  BY Zenon DEF BgetHit
<1>2. /\ pc[p] \in {"run", "woken"}
      /\ pc' = [pc EXCEPT ![p] = "read"]
      /\ want' = [want EXCEPT ![p] = s]
      /\ UNCHANGED <<sector, valid, dirty, data, age, disk, panicked>>
  BY DEF BgetHit, Loops
<1>. USE BufFacts
<1>3. TypeOK'
  BY <1>1, <1>2 DEF BufInv, TypeOK
<1>4. UniqueSector'
  BY <1>1, <1>2 DEF BufInv, TypeOK, UniqueSector
<1>5. ListIntact'
  BY <1>1, <1>2 DEF BufInv, TypeOK, ListIntact
<1>6. Coherent'
  BY <1>1, <1>2 DEF BufInv, TypeOK, Coherent
<1>7. HeldIsValid'
  BY <1>1, <1>2 DEF BufInv, TypeOK, HeldIsValid
<1>8. NoLostWakeup'
  BY <1>1, <1>2 DEF BufInv, TypeOK, NoLostWakeup
<1>9. InUse'
  BY <1>1, <1>2 DEF BufInv, TypeOK, InUse
<1>. QED  BY <1>3, <1>4, <1>5, <1>6, <1>7, <1>8, <1>9 DEF BufInv

\* bget() that waits for a busy buffer preserves the invariant.
LEMMA BgetSleepInv ==
  ASSUME NEW p \in Proc, NEW s \in Sector, BufInv, BgetSleep(p, s)
  PROVE  BufInv'
<1>1. PICK c \in Buf :
        /\ sector[c] = s
        /\ holder[c] # NoProc
        /\ b' = [b EXCEPT ![p] = c]
  BY Zenon DEF BgetSleep
<1>2. /\ pc[p] \in {"run", "woken"}
      /\ pc' = [pc EXCEPT ![p] = "asleep"]
      /\ want' = [want EXCEPT ![p] = s]
      /\ UNCHANGED <<sector, holder, valid, dirty, data, age, disk, panicked>>
  BY DEF BgetSleep, Loops, buffers
<1>. USE BufFacts
<1>3. TypeOK'
  BY <1>1, <1>2 DEF BufInv, TypeOK
<1>4. UniqueSector'
  BY <1>1, <1>2 DEF BufInv, TypeOK, UniqueSector
<1>5. ListIntact'
  BY <1>1, <1>2 DEF BufInv, TypeOK, ListIntact
<1>6. Coherent'
  BY <1>1, <1>2 DEF BufInv, TypeOK, Coherent
<1>7. HeldIsValid'
  BY <1>1, <1>2 DEF BufInv, TypeOK, HeldIsValid
<1>8. NoLostWakeup'
  BY <1>1, <1>2 DEF BufInv, TypeOK, NoLostWakeup
<1>9. InUse'
  BY <1>1, <1>2 DEF BufInv, TypeOK, InUse
<1>. QED  BY <1>3, <1>4, <1>5, <1>6, <1>7, <1>8, <1>9 DEF BufInv

\* bget() that recycles an idle buffer preserves the invariant: nobody sleeps on
\* it, and no other buffer has the sector.
LEMMA BgetRecycleInv ==
  ASSUME NEW p \in Proc, NEW s \in Sector, BufInv, BgetRecycle(p, s)
  PROVE  BufInv'
<1>1. PICK c \in Idle :
        /\ sector' = [sector EXCEPT ![c] = s]
        /\ holder' = [holder EXCEPT ![c] = p]
        /\ valid' = [valid EXCEPT ![c] = 0]
        /\ dirty' = [dirty EXCEPT ![c] = 0]
        /\ b' = [b EXCEPT ![p] = c]
  BY Zenon DEF BgetRecycle
<1>2. /\ pc[p] \in {"run", "woken"}
      /\ c \in Buf /\ holder[c] = NoProc /\ dirty[c] = 0
      /\ \A d \in Buf : sector[d] # s
      /\ pc' = [pc EXCEPT ![p] = "read"]
      /\ want' = [want EXCEPT ![p] = s]
      /\ UNCHANGED <<data, age, disk, panicked>>
  BY DEF BgetRecycle, Loops, Idle, Cached
<1>. USE BufFacts
<1>3. TypeOK'
  BY <1>1, <1>2 DEF BufInv, TypeOK
<1>4. UniqueSector'
  BY <1>1, <1>2 DEF BufInv, TypeOK, UniqueSector
<1>5. ListIntact'
  BY <1>1, <1>2 DEF BufInv, TypeOK, ListIntact
<1>6. Coherent'
  BY <1>1, <1>2 DEF BufInv, TypeOK, Coherent
<1>7. HeldIsValid'
  BY <1>1, <1>2 DEF BufInv, TypeOK, HeldIsValid
<1>8. NoLostWakeup'
  BY <1>1, <1>2 DEF BufInv, TypeOK, NoLostWakeup
<1>9. InUse'
  BY <1>1, <1>2 DEF BufInv, TypeOK, InUse
<1>. QED  BY <1>3, <1>4, <1>5, <1>6, <1>7, <1>8, <1>9 DEF BufInv

\* bread()'s read of the sector preserves the invariant.
LEMMA BreadInv ==
  ASSUME NEW p \in Proc, BufInv, Bread(p)
  PROVE  BufInv'
<1>1. b[p] \in Buf /\ holder[b[p]] = p /\ pc[p] = "read" /\ sector[b[p]] \in Sector
  BY BufFacts DEF Bread, BufInv, NoLostWakeup, InUse
<1>2. /\ \/ /\ valid[b[p]] = 0
            /\ data' = [data EXCEPT ![b[p]] = disk[sector[b[p]]]]
            /\ valid' = [valid EXCEPT ![b[p]] = 1]
         \/ /\ valid[b[p]] # 0
            /\ UNCHANGED <<data, valid>>
      /\ pc' = [pc EXCEPT ![p] = "run"]
      /\ want' = [want EXCEPT ![p] = NoSector]
      /\ b' = [b EXCEPT ![p] = NoBuf]
      /\ UNCHANGED <<sector, holder, dirty, age, disk, panicked>>
  BY DEF Bread, NeedsRead
<1>. USE BufFacts
<1>3. TypeOK'
  BY <1>1, <1>2 DEF BufInv, TypeOK
<1>4. UniqueSector'
  BY <1>1, <1>2 DEF BufInv, TypeOK, UniqueSector
<1>5. ListIntact'
  BY <1>1, <1>2 DEF BufInv, TypeOK, ListIntact
<1>6. Coherent'
  BY <1>1, <1>2 DEF BufInv, TypeOK, Coherent
<1>7. HeldIsValid'
  BY <1>1, <1>2 DEF BufInv, TypeOK, HeldIsValid
<1>8. NoLostWakeup'
  BY <1>1, <1>2 DEF BufInv, TypeOK, NoLostWakeup
<1>9. InUse'
  BY <1>1, <1>2 DEF BufInv, TypeOK, InUse
<1>. QED  BY <1>3, <1>4, <1>5, <1>6, <1>7, <1>8, <1>9 DEF BufInv

\* bwrite() preserves the invariant: buffer and disk agree afterwards.
LEMMA BwriteInv ==
  ASSUME NEW p \in Proc, NEW c \in Buf, NEW d \in Data, BufInv, Bwrite(p, c, d)
  PROVE  BufInv'
<1>1. pc[p] = "run" /\ holder[c] = p /\ sector[c] \in Sector
  BY BufFacts DEF Bwrite, BufInv, InUse
<1>2. /\ data' = [data EXCEPT ![c] = d]
      /\ dirty' = [dirty EXCEPT ![c] = 0]
      /\ valid' = [valid EXCEPT ![c] = 1]
      /\ disk' = [disk EXCEPT ![sector[c]] = d]
      /\ UNCHANGED <<sector, holder, age, pc, want, b, panicked>>
  BY DEF Bwrite
<1>. USE BufFacts
<1>3. TypeOK'
  BY <1>1, <1>2 DEF BufInv, TypeOK
<1>4. UniqueSector'
  BY <1>1, <1>2 DEF BufInv, TypeOK, UniqueSector
<1>5. ListIntact'
  BY <1>1, <1>2 DEF BufInv, TypeOK, ListIntact
<1>6. Coherent'
  BY <1>1, <1>2 DEF BufInv, TypeOK, Coherent, UniqueSector, InUse
<1>7. HeldIsValid'
  BY <1>1, <1>2 DEF BufInv, TypeOK, HeldIsValid
<1>8. NoLostWakeup'
  BY <1>1, <1>2 DEF BufInv, TypeOK, NoLostWakeup
<1>9. InUse'
  BY <1>1, <1>2 DEF BufInv, TypeOK, InUse
<1>. QED  BY <1>3, <1>4, <1>5, <1>6, <1>7, <1>8, <1>9 DEF BufInv

\* log_write()'s B_DIRTY preserves the invariant.
LEMMA MarkDirtyInv ==
  ASSUME NEW p \in Proc, NEW c \in Buf, NEW d \in Data, BufInv, MarkDirty(p, c, d)
  PROVE  BufInv'
<1>1. pc[p] = "run" /\ holder[c] = p /\ valid[c] = 1
  BY DEF MarkDirty, BufInv, HeldIsValid
<1>2. /\ data' = [data EXCEPT ![c] = d]
      /\ dirty' = [dirty EXCEPT ![c] = 1]
      /\ UNCHANGED <<sector, holder, valid, age, disk, pc, want, b, panicked>>
  BY DEF MarkDirty
<1>. USE BufFacts
<1>3. TypeOK'
  BY <1>1, <1>2 DEF BufInv, TypeOK
<1>4. UniqueSector'
  BY <1>1, <1>2 DEF BufInv, TypeOK, UniqueSector
<1>5. ListIntact'
  BY <1>1, <1>2 DEF BufInv, TypeOK, ListIntact
<1>6. Coherent'
  BY <1>1, <1>2 DEF BufInv, TypeOK, Coherent
<1>7. HeldIsValid'
  BY <1>1, <1>2 DEF BufInv, TypeOK, HeldIsValid
<1>8. NoLostWakeup'
  BY <1>1, <1>2 DEF BufInv, TypeOK, NoLostWakeup
<1>9. InUse'
  BY <1>1, <1>2 DEF BufInv, TypeOK, InUse
<1>. QED  BY <1>3, <1>4, <1>5, <1>6, <1>7, <1>8, <1>9 DEF BufInv

\* brelse() preserves the invariant: it leaves nobody asleep on the buffer.
LEMMA BrelseInv ==
  ASSUME NEW p \in Proc, NEW c \in Buf, BufInv, Brelse(p, c)
  PROVE  BufInv'
<1>1. pc[p] = "run" /\ holder[c] = p /\ Buf \subseteq Nat /\ NBUF \in Nat
      /\ c \in Buf
  BY BufAssumption DEF Brelse, Buf
<1>2. /\ age' = [e \in Buf |-> IF e = c THEN 1
                              ELSE IF age[e] < age[c] THEN age[e] + 1 ELSE age[e]]
      /\ holder' = [holder EXCEPT ![c] = NoProc]
      /\ pc' = [q \in Proc |-> IF pc[q] = "asleep" /\ b[q] = c THEN "woken" ELSE pc[q]]
      /\ UNCHANGED <<sector, valid, dirty, data, disk, want, b, panicked>>
  BY DEF Brelse, Wakeup
<1>. USE BufFacts
<1>3. TypeOK'
  BY <1>1, <1>2 DEF BufInv, TypeOK
<1>4. UniqueSector'
  BY <1>1, <1>2 DEF BufInv, TypeOK, UniqueSector
<1>5. ListIntact'
  BY <1>1, <1>2 DEF BufInv, TypeOK, ListIntact
<1>6. Coherent'
  BY <1>1, <1>2 DEF BufInv, TypeOK, Coherent
<1>7. HeldIsValid'
  BY <1>1, <1>2 DEF BufInv, TypeOK, HeldIsValid
<1>8. NoLostWakeup'
  BY <1>1, <1>2 DEF BufInv, TypeOK, NoLostWakeup
<1>9. InUse'
  BY <1>1, <1>2 DEF BufInv, TypeOK, InUse
<1>. QED  BY <1>3, <1>4, <1>5, <1>6, <1>7, <1>8, <1>9 DEF BufInv

\* A step that changes no more than panicked preserves the invariant.
LEMMA SameBuffers ==
  ASSUME BufInv, UNCHANGED <<buffers, disk, pc, want, b>>, panicked' \in {0, 1}
  PROVE  BufInv'
<1>1. UNCHANGED <<sector, holder, valid, dirty, data, age>>
  BY DEF buffers
<1>2. TypeOK'
  BY <1>1 DEF BufInv, TypeOK
<1>3. UniqueSector' /\ ListIntact'
  BY <1>1 DEF BufInv, UniqueSector, ListIntact
<1>4. Coherent' /\ HeldIsValid'
  BY <1>1 DEF BufInv, Coherent, HeldIsValid
<1>5. NoLostWakeup' /\ InUse'
  BY <1>1 DEF BufInv, NoLostWakeup, InUse
<1>. QED  BY <1>2, <1>3, <1>4, <1>5 DEF BufInv

\* Every step of bio.c preserves the invariant.
LEMMA NextBufInv == BufInv /\ [Next]_vars => BufInv'
<1> SUFFICES ASSUME BufInv, [Next]_vars PROVE BufInv'
  OBVIOUS
<1>1. ASSUME NEW p \in Proc, NEW s \in Sector, BgetPanic(p, s)
      PROVE  BufInv'
  <2>1. UNCHANGED <<buffers, disk, pc, want, b>> /\ panicked' \in {0, 1}
    BY <1>1 DEF BgetPanic
  <2>. QED  BY <2>1, SameBuffers
<1>2. CASE UNCHANGED vars
  <2>1. UNCHANGED <<buffers, disk, pc, want, b>> /\ panicked' \in {0, 1}
    BY <1>2 DEF vars, BufInv, TypeOK
  <2>. QED  BY <2>1, SameBuffers
<1>. QED
  BY <1>1, <1>2, BgetHitInv, BgetSleepInv, BgetRecycleInv, BreadInv, BwriteInv,
     MarkDirtyInv, BrelseInv DEF Next, Bget

\* Along every behaviour of bio.c the cache is consistent.
THEOREM BufInvariant == Spec => []BufInv
BY InitBufInv, NextBufInv, PTL DEF Spec

\* bget(): no sector is ever in two buffers.
THEOREM BufUniqueSector == Spec => []UniqueSector
<1>1. BufInv => UniqueSector
  BY DEF BufInv
<1>. QED  BY <1>1, BufInvariant, PTL

\* bget(), brelse(): nobody sleeps on a buffer that is free or was recycled.
THEOREM BufNoLostWakeup == Spec => []NoLostWakeup
<1>1. BufInv => NoLostWakeup
  BY DEF BufInv
<1>. QED  BY <1>1, BufInvariant, PTL

\* The abstract state, buffer by buffer: the holder and the contents of a sector
\* are those of its buffer, and those of the disk if it has none.
Mapped ==
  /\ \A c \in Buf : sector[c] \in Sector =>
        /\ Lock[sector[c]] = holder[c]
        /\ Contents[sector[c]] = IF valid[c] = 1 THEN data[c] ELSE disk[sector[c]]
  /\ \A s \in Sector : (\A c \in Buf : sector[c] # s) =>
        /\ Lock[s] = NoProc
        /\ Contents[s] = disk[s]

\* Since a sector has one buffer, the mapping picks that one.
LEMMA MappedIs == BufInv => Mapped
<1> SUFFICES ASSUME BufInv PROVE Mapped
  OBVIOUS
<1>1. ASSUME NEW c \in Buf, sector[c] \in Sector
      PROVE  Cached(sector[c]) /\ BufOf(sector[c]) = c
  BY <1>1, BufFacts DEF Cached, BufOf, BufInv, UniqueSector
<1>. QED  BY <1>1 DEF Mapped, Lock, Contents, Cached

\* The same after a step.
LEMMA MappedNext == BufInv' => Mapped'
BY MappedIs, PTL

\* The abstract holder and contents are functions on the sectors.
LEMMA MappedDomain ==
  /\ Lock = [s \in Sector |-> Lock[s]]
  /\ Contents = [s \in Sector |-> Contents[s]]
  /\ Lock' = [s \in Sector |-> Lock'[s]]
  /\ Contents' = [s \in Sector |-> Contents'[s]]
BY DEF Lock, Contents

\* A step that changes neither a buffer's sector, holder and contents nor the disk
\* is no step of the abstract store.
LEMMA SameStore ==
  ASSUME UNCHANGED <<sector, holder, valid, data, disk>>
  PROVE  UNCHANGED <<Lock, Contents>>
BY DEF Lock, Contents, Cached, BufOf

\* What the abstract store holds for the sector of a buffer.
LEMMA AtBuffer ==
  ASSUME Mapped, NEW c \in Buf, NEW t \in Sector, sector[c] = t
  PROVE  /\ Lock[t] = holder[c]
         /\ valid[c] = 1 => Contents[t] = data[c]
         /\ valid[c] # 1 => Contents[t] = disk[t]
BY DEF Mapped

\* The same after a step.
LEMMA AtBufferNext ==
  ASSUME Mapped', NEW c \in Buf, NEW t \in Sector, sector'[c] = t
  PROVE  /\ Lock'[t] = holder'[c]
         /\ valid'[c] = 1 => Contents'[t] = data'[c]
         /\ valid'[c] # 1 => Contents'[t] = disk'[t]
BY DEF Mapped

\* A step that leaves the buffer of a sector and its place on the disk alone is no
\* step of the abstract store at that sector.
LEMMA OtherSector ==
  ASSUME Mapped, Mapped', NEW t \in Sector, disk'[t] = disk[t],
         \A e \in Buf : sector'[e] = t <=> sector[e] = t,
         \A e \in Buf : sector[e] = t =>
            holder'[e] = holder[e] /\ valid'[e] = valid[e] /\ data'[e] = data[e]
  PROVE  Lock'[t] = Lock[t] /\ Contents'[t] = Contents[t]
<1>1. CASE \E e \in Buf : sector[e] = t
  <2>1. PICK e \in Buf : sector[e] = t
    BY <1>1
  <2>2. /\ sector'[e] = t /\ holder'[e] = holder[e]
        /\ valid'[e] = valid[e] /\ data'[e] = data[e]
    BY <2>1
  <2>3. /\ Lock[t] = holder[e]
        /\ valid[e] = 1 => Contents[t] = data[e]
        /\ valid[e] # 1 => Contents[t] = disk[t]
    BY <2>1, AtBuffer
  <2>4. /\ Lock'[t] = holder'[e]
        /\ valid'[e] = 1 => Contents'[t] = data'[e]
        /\ valid'[e] # 1 => Contents'[t] = disk'[t]
    BY <2>2, AtBufferNext
  <2>. QED  BY <2>2, <2>3, <2>4
<1>2. CASE \A e \in Buf : sector[e] # t
  <2>1. Lock[t] = NoProc /\ Contents[t] = disk[t]
    BY <1>2 DEF Mapped
  <2>2. Lock'[t] = NoProc /\ Contents'[t] = disk'[t]
    BY <1>2 DEF Mapped
  <2>. QED  BY <2>1, <2>2
<1>. QED  BY <1>1, <1>2

\* Every step of bio.c is a step of BlockStore or leaves its state alone.
LEMMA StepRefines ==
  ASSUME BufInv, BufInv', Next
  PROVE  Store!Next \/ UNCHANGED <<Lock, Contents>>
<1>. USE BufFacts
<1>0. /\ Mapped /\ Mapped' /\ TypeOK /\ TypeOK' /\ UniqueSector /\ UniqueSector'
      /\ Coherent /\ InUse /\ InUse'
  BY MappedIs, MappedNext DEF BufInv
<1>1. ASSUME NEW p \in Proc, NEW s \in Sector, BgetHit(p, s)
      PROVE  Store!Take(p, s)
  <2>1. PICK c \in Buf : sector[c] = s /\ holder[c] = NoProc /\ holder' = [holder EXCEPT ![c] = p]
    BY Zenon, <1>1 DEF BgetHit
  <2>2. UNCHANGED <<sector, valid, data, disk>>
    BY <1>1 DEF BgetHit
  <2>3. Lock[s] = NoProc
    BY <1>0, <2>1 DEF Mapped
  <2>4. ASSUME NEW t \in Sector
        PROVE  /\ Lock'[t] = IF t = s THEN p ELSE Lock[t]
               /\ Contents'[t] = Contents[t]
    <3>1. CASE t = s
      <4>1. sector'[c] = t /\ holder'[c] = p /\ valid'[c] = valid[c] /\ data'[c] = data[c]
        BY <1>0, <2>1, <2>2, <3>1 DEF TypeOK
      <4>2. /\ valid[c] = 1 => Contents[t] = data[c]
            /\ valid[c] # 1 => Contents[t] = disk[t]
        BY <1>0, <2>1, <3>1, AtBuffer
      <4>3. /\ Lock'[t] = holder'[c]
            /\ valid'[c] = 1 => Contents'[t] = data'[c]
            /\ valid'[c] # 1 => Contents'[t] = disk'[t]
        BY <1>0, <4>1, AtBufferNext
      <4>. QED  BY <2>2, <3>1, <4>1, <4>2, <4>3
    <3>2. CASE t # s
      <4>1. ASSUME NEW e \in Buf, sector[e] = t
            PROVE  holder'[e] = holder[e]
        BY <1>0, <2>1, <3>2, <4>1 DEF TypeOK
      <4>. QED  BY <1>0, <2>2, <3>2, <4>1, OtherSector
    <3>. QED  BY <3>1, <3>2
  <2>. QED  BY <2>3, <2>4, MappedDomain DEF Store!Take
<1>2. ASSUME NEW p \in Proc, NEW s \in Sector, BgetRecycle(p, s)
      PROVE  Store!Take(p, s)
  <2>1. PICK c \in Buf :
          /\ holder[c] = NoProc /\ dirty[c] = 0
          /\ sector' = [sector EXCEPT ![c] = s]
          /\ holder' = [holder EXCEPT ![c] = p]
          /\ valid' = [valid EXCEPT ![c] = 0]
    BY Zenon, <1>2 DEF BgetRecycle, Idle
  <2>2. (\A d \in Buf : sector[d] # s) /\ UNCHANGED <<data, disk>>
    BY <1>2 DEF BgetRecycle, Cached
  <2>3. Lock[s] = NoProc
    BY <1>0, <2>2 DEF Mapped
  <2>4. ASSUME NEW t \in Sector
        PROVE  /\ Lock'[t] = IF t = s THEN p ELSE Lock[t]
               /\ Contents'[t] = Contents[t]
    <3>1. CASE t = s
      <4>1. sector'[c] = s /\ holder'[c] = p /\ valid'[c] = 0 /\ disk'[s] = disk[s]
        <5>1. sector \in [Buf -> Sector \cup {NoSector}] /\ holder \in [Buf -> Proc \cup {NoProc}]
              /\ valid \in [Buf -> {0, 1}]
          BY <1>0 DEF TypeOK
        <5>. QED  BY <2>1, <2>2, <5>1
      <4>2. Lock'[s] = p /\ Contents'[s] = disk[s]
        <5>1. Mapped'
          BY <1>0
        <5>2. c \in Buf /\ s \in Sector /\ sector'[c] = s
          BY <2>2, <4>1
        <5>3. Lock'[s] = holder'[c] /\ (valid'[c] # 1 => Contents'[s] = disk'[s])
          BY <5>1, <5>2, AtBufferNext
        <5>. QED  BY <4>1, <5>3
      <4>3. Contents[s] = disk[s]
        BY <1>0, <2>2 DEF Mapped
      <4>. QED  BY <3>1, <4>2, <4>3
    <3>2. CASE t = sector[c]
      <4>1. \A e \in Buf \ {c} : sector[e] # t
        BY <1>0, <3>2 DEF UniqueSector
      <4>2. t # s /\ \A e \in Buf : sector'[e] # t
        BY <1>0, <2>1, <2>2, <3>2, <4>1 DEF TypeOK
      <4>3. Lock'[t] = NoProc /\ Contents'[t] = disk[t]
        BY <1>0, <2>2, <4>2 DEF Mapped
      <4>4. valid[c] = 1 => data[c] = disk[t]
        BY <1>0, <2>1, <3>2 DEF Coherent
      <4>5. Lock[t] = NoProc /\ Contents[t] = disk[t]
        BY <1>0, <2>1, <3>2, <4>4, AtBuffer
      <4>. QED  BY <4>2, <4>3, <4>5
    <3>3. CASE t # s /\ t # sector[c]
      <4>1. ASSUME NEW e \in Buf
            PROVE  /\ sector'[e] = t <=> sector[e] = t
                   /\ sector[e] = t => holder'[e] = holder[e] /\ valid'[e] = valid[e]
        BY <1>0, <2>1, <3>3 DEF TypeOK
      <4>. QED  BY <1>0, <2>2, <3>3, <4>1, OtherSector
    <3>. QED  BY <3>1, <3>2, <3>3
  <2>. QED  BY <2>3, <2>4, MappedDomain DEF Store!Take
<1>3. ASSUME NEW p \in Proc, NEW s \in Sector, BgetSleep(p, s) \/ BgetPanic(p, s)
      PROVE  UNCHANGED <<Lock, Contents>>
  BY <1>3, SameStore DEF BgetSleep, BgetPanic, buffers
<1>4. ASSUME NEW p \in Proc, Bread(p)
      PROVE  UNCHANGED <<Lock, Contents>>
  <2>1. b[p] \in Buf /\ sector[b[p]] \in Sector
    <3>1. b[p] \in Buf /\ holder[b[p]] = p
      BY <1>4 DEF Bread, BufInv, NoLostWakeup
    <3>. QED  BY <1>0, <3>1 DEF InUse
  <2>2. /\ \/ /\ valid[b[p]] = 0
              /\ data' = [data EXCEPT ![b[p]] = disk[sector[b[p]]]]
              /\ valid' = [valid EXCEPT ![b[p]] = 1]
           \/ UNCHANGED <<data, valid>>
        /\ UNCHANGED <<sector, holder, disk>>
    BY <1>4 DEF Bread, NeedsRead
  <2>3. ASSUME NEW t \in Sector
        PROVE  Lock'[t] = Lock[t] /\ Contents'[t] = Contents[t]
    <3>1. CASE t = sector[b[p]]
      <4>1. /\ Lock[t] = holder[b[p]]
            /\ valid[b[p]] = 1 => Contents[t] = data[b[p]]
            /\ valid[b[p]] # 1 => Contents[t] = disk[t]
        BY <1>0, <2>1, <3>1, AtBuffer
      <4>2. /\ Lock'[t] = holder'[b[p]]
            /\ valid'[b[p]] = 1 => Contents'[t] = data'[b[p]]
            /\ valid'[b[p]] # 1 => Contents'[t] = disk'[t]
        BY <1>0, <2>1, <2>2, <3>1, AtBufferNext
      <4>3. \/ valid[b[p]] = 0 /\ valid'[b[p]] = 1 /\ data'[b[p]] = disk[t]
            \/ valid'[b[p]] = valid[b[p]] /\ data'[b[p]] = data[b[p]]
        BY <1>0, <2>1, <2>2, <3>1 DEF TypeOK
      <4>4. holder'[b[p]] = holder[b[p]] /\ disk'[t] = disk[t]
        BY <2>2
      <4>. QED  BY <4>1, <4>2, <4>3, <4>4
    <3>2. CASE t # sector[b[p]]
      <4>1. ASSUME NEW e \in Buf, sector[e] = t
            PROVE  valid'[e] = valid[e] /\ data'[e] = data[e]
        BY <1>0, <2>2, <3>2, <4>1 DEF TypeOK
      <4>. QED  BY <1>0, <2>2, <4>1, OtherSector
    <3>. QED  BY <3>1, <3>2
  <2>. QED  BY <2>3, MappedDomain
<1>5. ASSUME NEW p \in Proc, NEW c \in Buf, NEW d \in Data, Bwrite(p, c, d) \/ MarkDirty(p, c, d)
      PROVE  sector[c] \in Sector /\ Store!Put(p, sector[c], d)
  <2>1. holder[c] = p /\ sector[c] \in Sector /\ valid'[c] = 1
    <3>1. holder[c] = p /\ pc[p] = "run"
      BY <1>5 DEF Bwrite, MarkDirty
    <3>2. sector[c] \in Sector
      BY <1>0, <3>1 DEF InUse
    <3>3. valid[c] = 1
      BY <3>1 DEF BufInv, HeldIsValid
    <3>4. valid' = valid \/ valid' = [valid EXCEPT ![c] = 1]
      BY <1>5 DEF Bwrite, MarkDirty
    <3>. QED  BY <1>0, <3>1, <3>2, <3>3, <3>4 DEF TypeOK
  <2>2. /\ data' = [data EXCEPT ![c] = d]
        /\ \A e \in Buf \ {c} : valid'[e] = valid[e]
        /\ \A t \in Sector \ {sector[c]} : disk'[t] = disk[t]
        /\ UNCHANGED <<sector, holder>>
    BY <1>0, <1>5 DEF Bwrite, MarkDirty, TypeOK
  <2>3. Lock[sector[c]] = p
    BY <1>0, <2>1 DEF Mapped
  <2>4. ASSUME NEW t \in Sector
        PROVE  /\ Lock'[t] = Lock[t]
               /\ Contents'[t] = IF t = sector[c] THEN d ELSE Contents[t]
    <3>1. CASE t = sector[c]
      <4>1. sector'[c] = t /\ holder'[c] = holder[c] /\ data'[c] = d
        BY <1>0, <2>2, <3>1 DEF TypeOK
      <4>2. Lock[t] = holder[c]
        BY <1>0, <3>1, AtBuffer
      <4>3. Lock'[t] = holder'[c] /\ Contents'[t] = data'[c]
        BY <1>0, <2>1, <4>1, AtBufferNext
      <4>. QED  BY <3>1, <4>1, <4>2, <4>3
    <3>2. CASE t # sector[c]
      <4>1. ASSUME NEW e \in Buf, sector[e] = t
            PROVE  valid'[e] = valid[e] /\ data'[e] = data[e]
        BY <1>0, <2>2, <3>2, <4>1 DEF TypeOK
      <4>. QED  BY <1>0, <2>2, <3>2, <4>1, OtherSector
    <3>. QED  BY <3>1, <3>2
  <2>. QED  BY <2>1, <2>3, <2>4, MappedDomain DEF Store!Put
<1>6. ASSUME NEW p \in Proc, NEW c \in Buf, Brelse(p, c)
      PROVE  sector[c] \in Sector /\ Store!Drop(p, sector[c])
  <2>1. /\ holder[c] = p /\ sector[c] \in Sector
        /\ holder' = [holder EXCEPT ![c] = NoProc]
        /\ UNCHANGED <<sector, valid, data, disk>>
    BY <1>0, <1>6 DEF Brelse, InUse
  <2>2. Lock[sector[c]] = p
    BY <1>0, <2>1 DEF Mapped
  <2>3. ASSUME NEW t \in Sector
        PROVE  /\ Lock'[t] = IF t = sector[c] THEN NoProc ELSE Lock[t]
               /\ Contents'[t] = Contents[t]
    <3>1. CASE t = sector[c]
      <4>1. holder'[c] = NoProc
        BY <1>0, <2>1 DEF TypeOK
      <4>2. /\ valid[c] = 1 => Contents[t] = data[c]
            /\ valid[c] # 1 => Contents[t] = disk[t]
        BY <1>0, <3>1, AtBuffer
      <4>3. /\ Lock'[t] = holder'[c]
            /\ valid'[c] = 1 => Contents'[t] = data'[c]
            /\ valid'[c] # 1 => Contents'[t] = disk'[t]
        BY <1>0, <2>1, <3>1, AtBufferNext
      <4>. QED  BY <2>1, <3>1, <4>1, <4>2, <4>3
    <3>2. CASE t # sector[c]
      <4>1. ASSUME NEW e \in Buf, sector[e] = t
            PROVE  holder'[e] = holder[e]
        BY <1>0, <2>1, <3>2, <4>1 DEF TypeOK
      <4>. QED  BY <1>0, <2>1, <3>2, <4>1, OtherSector
    <3>. QED  BY <3>1, <3>2
  <2>. QED  BY <2>1, <2>2, <2>3, MappedDomain DEF Store!Drop
<1>. QED
  BY <1>1, <1>2, <1>3, <1>4, <1>5, <1>6 DEF Next, Bget, Store!Next

\* For every number of buffers, sectors and processes bio.c implements a store
\* with one holder and one contents per sector.
THEOREM BufCacheRefinesBlockStore == Spec => Refinement
<1>1. Init => Store!Init
  <2> SUFFICES ASSUME Init PROVE Store!Init
    OBVIOUS
  <2>1. \A s \in Sector : ~Cached(s)
    BY BufFacts DEF Init, Cached
  <2>. QED  BY <2>1 DEF Init, Store!Init, Lock, Contents
<1>2. BufInv /\ BufInv' /\ [Next]_vars => [Store!Next]_<<Lock, Contents>>
  <2>1. ASSUME UNCHANGED vars PROVE UNCHANGED <<Lock, Contents>>
    BY <2>1, SameStore DEF vars, buffers
  <2>. QED  BY <2>1, StepRefines
<1>. QED
  BY <1>1, <1>2, BufInvariant, PTL DEF Spec, Refinement, Store!Spec, Store!vars
===============================================================================
