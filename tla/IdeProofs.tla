------------------------------- MODULE IdeProofs -------------------------------
(***************************************************************************)
(* The queue of the IDE driver serves every buffer from the disk, for any  *)
(* number of buffers and sectors.                                          *)
(***************************************************************************)
EXTENDS Ide, SequenceTheorems, TLAPS

Content == Value \cup {0}

IdeTypeOK ==
    /\ idequeue \in Seq(Buf)
    /\ flags \in [Buf -> SUBSET {"VALID", "DIRTY"}]
    /\ sector \in [Buf -> Sector]
    /\ bdata \in [Buf -> Content]
    /\ user \in [Buf -> {"out", "call", "asleep", "woken"}]
    /\ active \in Seq([sector : Sector, cmd : {"READ", "WRITE"}, data : Content, done : {0, 1}])
    /\ media \in [Sector -> Content]
    /\ failed \subseteq Buf

Queued(b) == \E i \in 1 .. Len(idequeue) : idequeue[i] = b

\* A buffer waits at most once, until its flags say that it was served.
QueueSound ==
    /\ \A i, j \in 1 .. Len(idequeue) : idequeue[i] = idequeue[j] => i = j
    /\ \A b \in Buf :
        /\ Queued(b) => user[b] \in {"asleep", "woken"} /\ flags[b] # {"VALID"}
        /\ user[b] = "call" => flags[b] # {"VALID"}
        /\ user[b] = "asleep" => Queued(b)
        /\ user[b] = "woken" /\ ~Queued(b) => flags[b] = {"VALID"}
        /\ user[b] = "out" => "DIRTY" \notin flags[b]

\* The disk works on the first buffer, and has written it when it is done.
DiskSound ==
    /\ Len(active) = IF idequeue = <<>> THEN 0 ELSE 1
    /\ idequeue # <<>> =>
        /\ active[1].sector = sector[idequeue[1]]
        /\ active[1].data = bdata[idequeue[1]]
        /\ active[1].cmd = IF "DIRTY" \in flags[idequeue[1]] THEN "WRITE" ELSE "READ"
        /\ active[1].done = 1 /\ active[1].cmd = "WRITE" => media[active[1].sector] = active[1].data

\* Who is not in the queue and was read without an error has what the disk has.
Served_Coherent ==
    \A b \in Buf : ~Queued(b) /\ flags[b] = {"VALID"} /\ b \notin failed => bdata[b] = media[sector[b]]

IdeInv ==
    /\ IdeTypeOK
    /\ idepanic = "no"
    /\ OneBufferEach(sector)
    /\ QueueSound
    /\ DiskSound
    /\ Served_Coherent

-------------------------------------------------------------------------------
(* Sequences *)

\* What iderw() does to the queue: the new buffer is last, the others stay in place.
LEMMA AppendFacts ==
    ASSUME NEW S, NEW q \in Seq(S), NEW x \in S
    PROVE  /\ Append(q, x) \in Seq(S)
           /\ Len(Append(q, x)) = Len(q) + 1
           /\ \A i \in 1 .. Len(q) : Append(q, x)[i] = q[i]
           /\ Append(q, x)[Len(q) + 1] = x
           /\ Append(q, x) # <<>>
           /\ Head(Append(q, x)) = IF q = <<>> THEN x ELSE q[1]
  OBVIOUS

\* A sequence of one command.
LEMMA OneElement ==
    ASSUME NEW S, NEW x \in S
    PROVE  <<x>> \in Seq(S) /\ Len(<<x>>) = 1 /\ <<x>>[1] = x
  OBVIOUS

\* A sequence is empty when its length is zero.
LEMMA EmptyLen ==
    ASSUME NEW S, NEW q \in Seq(S)
    PROVE  q = <<>> <=> Len(q) = 0
  BY EmptySeq, LenProperties

\* What ideintr() does to the queue: every buffer but the first moves up by one.
LEMMA TailFacts ==
    ASSUME NEW S, NEW q \in Seq(S), q # <<>>
    PROVE  /\ Tail(q) \in Seq(S)
           /\ Len(q) \in Nat \ {0}
           /\ Len(Tail(q)) = Len(q) - 1
           /\ \A i \in 1 .. Len(q) - 1 : Tail(q)[i] = q[i + 1]
           /\ Head(q) = q[1]
           /\ q[1] \in S
           /\ Tail(q) = <<>> <=> Len(q) = 1
           /\ Tail(q) # <<>> => Head(Tail(q)) = q[2] /\ Len(q) >= 2
  <1>1. /\ Tail(q) \in Seq(S)
        /\ Len(q) \in Nat \ {0}
        /\ Len(Tail(q)) = Len(q) - 1
        /\ \A i \in 1 .. Len(q) - 1 : Tail(q)[i] = q[i + 1]
    BY HeadTailProperties, EmptySeq
  <1>2. q[1] \in S
    BY <1>1, ElementOfSeq
  <1>5. Head(q) = q[1]
    OBVIOUS
  <1>3. Tail(q) = <<>> <=> Len(q) = 1
    <2>1. Tail(q) = <<>> <=> Len(Tail(q)) = 0
      BY Zenon, <1>1, EmptyLen
    <2> QED BY <1>1, <2>1
  <1>4. ASSUME Tail(q) # <<>> PROVE Head(Tail(q)) = q[2] /\ Len(q) >= 2
    <2>1. Len(Tail(q)) \in Nat \ {0}
      BY <1>1, <1>4, EmptySeq
    <2>2. Head(Tail(q)) = Tail(q)[1]
      BY <1>1, <1>4
    <2> QED BY <1>1, <2>1, <2>2
  <1> QED BY <1>1, <1>2, <1>3, <1>4, <1>5

-------------------------------------------------------------------------------
(* The invariant *)

\* ideinit(): the invariant holds with an empty queue and an idle disk.
LEMMA IdeInitInv == IdeInit => IdeInv
  <1> SUFFICES ASSUME IdeInit PROVE IdeInv
    OBVIOUS
  <1> USE DEF IdeInit, Content
  <1>1. sector \in [Buf -> Sector] /\ OneBufferEach(sector)
    BY IdeAssumption
  <1>2. idequeue \in Seq(Buf) /\ Len(idequeue) = 0
    BY EmptySeq
  <1>3. active \in Seq([sector : Sector, cmd : {"READ", "WRITE"}, data : Content, done : {0, 1}])
           /\ Len(active) = 0
    BY EmptySeq
  <1>4. IdeTypeOK
    BY <1>1, <1>2, <1>3 DEF IdeTypeOK
  <1>5. QueueSound
    BY <1>2 DEF QueueSound, Queued
  <1>6. DiskSound
    BY <1>2, <1>3 DEF DiskSound
  <1>7. Served_Coherent
    BY DEF Served_Coherent
  <1> QED BY <1>1, <1>4, <1>5, <1>6, <1>7 DEF IdeInv

\* The two disjuncts of Prepare(), for the buffer b and for the others.
LEMMA PrepareFacts ==
    ASSUME IdeInv, NEW b \in Buf, Prepare(b)
    PROVE  /\ IdeTypeOK'
           /\ OneBufferEach(sector)'
           /\ flags'[b] # {"VALID"} /\ user'[b] = "call"
           /\ \A c \in Buf \ {b} : /\ flags'[c] = flags[c] /\ user'[c] = user[c]
                                   /\ sector'[c] = sector[c] /\ bdata'[c] = bdata[c]
  <1> USE DEF IdeInv
  <1>0. /\ user' = [user EXCEPT ![b] = "call"]
        /\ UNCHANGED <<idequeue, active, media, failed, idepanic>>
    BY DEF Prepare
  <1>1. CASE /\ \E v \in Value : bdata' = [bdata EXCEPT ![b] = v]
             /\ flags' = [flags EXCEPT ![b] = @ \cup {"DIRTY"}]
             /\ UNCHANGED sector
    <2>1. PICK v \in Value : bdata' = [bdata EXCEPT ![b] = v]
      BY Zenon, <1>1
    <2>2. flags[b] \in SUBSET {"VALID", "DIRTY"} /\ flags'[b] = flags[b] \cup {"DIRTY"}
      BY <1>1 DEF IdeTypeOK
    <2>3. flags'[b] # {"VALID"} /\ flags' \in [Buf -> SUBSET {"VALID", "DIRTY"}]
      BY Zenon, <1>1, <2>2 DEF IdeTypeOK
    <2> QED BY Zenon, <1>0, <1>1, <2>1, <2>3 DEF IdeTypeOK, Content, OneBufferEach
  <1>2. CASE /\ \E s \in Sector \ {sector[a] : a \in Buf \ {b}} : sector' = [sector EXCEPT ![b] = s]
             /\ flags' = [flags EXCEPT ![b] = {}]
             /\ UNCHANGED bdata
    <2>1. PICK s \in Sector \ {sector[a] : a \in Buf \ {b}} : sector' = [sector EXCEPT ![b] = s]
      BY Zenon, <1>2
    <2>2. OneBufferEach(sector)'
      BY <2>1 DEF OneBufferEach, IdeTypeOK
    <2> QED BY <1>0, <1>2, <2>1, <2>2 DEF IdeTypeOK
  <1> QED BY <1>1, <1>2 DEF Prepare

\* The holder of a buffer outside iderw() cannot disturb the queue or the disk.
LEMMA PrepareInv == ASSUME IdeInv, NEW b \in Buf, Prepare(b) PROVE IdeInv'
  <1> USE DEF IdeInv
  <1>0. /\ user[b] = "out"
        /\ UNCHANGED <<idequeue, active, media, failed, idepanic>>
    BY DEF Prepare
  <1>1. ~Queued(b)
    BY <1>0 DEF QueueSound
  <1>2. \A c \in Buf : Queued(c)' <=> Queued(c)
    BY <1>0 DEF Queued
  <1>3. QueueSound'
    BY <1>0, <1>1, <1>2, PrepareFacts DEF QueueSound
  <1>4. idequeue # <<>> => idequeue[1] \in Buf \ {b}
    BY <1>1, TailFacts DEF Queued, IdeTypeOK
  <1>5. DiskSound'
    BY <1>0, <1>4, PrepareFacts DEF DiskSound
  <1>6. Served_Coherent'
    BY <1>0, <1>2, PrepareFacts DEF Served_Coherent
  <1> QED BY <1>0, <1>3, <1>5, <1>6, PrepareFacts

\* iderw(): a request goes last, and to the disk only if it is also the first.
LEMMA IderwInv == ASSUME IdeInv, NEW b \in Buf, Iderw(b) PROVE IdeInv'
  <1> DEFINE q == Append(idequeue, b)
  <1> USE DEF IdeInv
  <1>1. flags[b] # {"VALID"} /\ ~Queued(b) /\ user[b] = "call"
    BY DEF Iderw, QueueSound
  <1>2. /\ idequeue' = q
        /\ active' = IF MustStart(q, b) THEN <<Command(b)>> ELSE active
        /\ user' = [user EXCEPT ![b] = "asleep"]
        /\ UNCHANGED <<idepanic, flags, sector, bdata, media, nreq, failed>>
    BY <1>1 DEF Iderw
  <1>3. /\ q \in Seq(Buf)
        /\ Len(q) = Len(idequeue) + 1
        /\ \A i \in 1 .. Len(idequeue) : q[i] = idequeue[i]
        /\ q[Len(idequeue) + 1] = b
        /\ q # <<>>
        /\ Head(q) = IF idequeue = <<>> THEN b ELSE idequeue[1]
        /\ Len(idequeue) \in Nat
    BY AppendFacts, LenProperties DEF IdeTypeOK
  <1>4. \A c \in Buf : Queued(c)' <=> Queued(c) \/ c = b
    BY <1>2, <1>3 DEF Queued
  <1>5. idequeue # <<>> => idequeue[1] \in Buf \ {b} /\ q[1] = idequeue[1]
    BY <1>1, <1>3, TailFacts DEF Queued, IdeTypeOK
  <1>6. idequeue = <<>> => q[1] = b
    BY <1>3, EmptyLen DEF IdeTypeOK
  <1>7. MustStart(q, b) <=> idequeue = <<>>
    BY <1>3, <1>5 DEF MustStart
  <1>8. Command(b) \in [sector : Sector, cmd : {"READ", "WRITE"}, data : Content, done : {0, 1}]
    BY DEF Command, IdeTypeOK
  <1>9. IdeTypeOK'
    <2>1. active' \in Seq([sector : Sector, cmd : {"READ", "WRITE"}, data : Content, done : {0, 1}])
      BY Zenon, <1>2, <1>8, OneElement DEF IdeTypeOK
    <2>2. user' \in [Buf -> {"out", "call", "asleep", "woken"}]
      BY <1>2 DEF IdeTypeOK
    <2> QED BY <1>2, <1>3, <2>1, <2>2 DEF IdeTypeOK
  <1>10. QueueSound'
    <2>1. ASSUME NEW i \in 1 .. Len(q), NEW j \in 1 .. Len(q), q[i] = q[j] PROVE i = j
      BY <1>1, <1>3, <2>1 DEF Queued, QueueSound
    <2>2. \A c \in Buf \ {b} : user'[c] = user[c]
      BY <1>2 DEF IdeTypeOK
    <2>3. user'[b] = "asleep"
      BY <1>2 DEF IdeTypeOK
    <2> QED BY <1>1, <1>2, <1>4, <2>1, <2>2, <2>3 DEF QueueSound
  <1>11. DiskSound'
    <2>1. CASE idequeue = <<>>
      <3>1. active' = <<Command(b)>> /\ idequeue'[1] = b
        BY <1>2, <1>6, <1>7, <2>1
      <3>2. /\ Len(active') = 1
            /\ active'[1].sector = sector[b] /\ active'[1].data = bdata[b] /\ active'[1].done = 0
            /\ active'[1].cmd = IF "DIRTY" \in flags[b] THEN "WRITE" ELSE "READ"
        BY <3>1 DEF Command
      <3>3. /\ idequeue' # <<>>
            /\ sector' = sector /\ bdata' = bdata /\ flags' = flags
        BY <1>2, <1>3
      <3> QED BY <3>1, <3>2, <3>3 DEF DiskSound
    <2>2. CASE idequeue # <<>>
      BY Zenon, <1>2, <1>3, <1>5, <1>7, <2>2 DEF DiskSound
    <2> QED BY <2>1, <2>2
  <1>12. Served_Coherent'
    BY <1>2, <1>4 DEF Served_Coherent
  <1> QED BY <1>2, <1>9, <1>10, <1>11, <1>12

\* The disk carries out the command of the first buffer, for its sector alone.
LEMMA DiskDoneInv == ASSUME IdeInv, DiskDone PROVE IdeInv'
  <1> USE DEF IdeInv
  <1> DEFINE Cmd == [sector : Sector, cmd : {"READ", "WRITE"}, data : Content, done : {0, 1}]
  <1>0. /\ active # <<>> /\ active[1].done = 0
        /\ active' = <<[active[1] EXCEPT !.done = 1]>>
        /\ media' = IF active[1].cmd = "WRITE" THEN [media EXCEPT ![active[1].sector] = active[1].data] ELSE media
        /\ UNCHANGED <<idequeue, flags, sector, bdata, user, nreq, failed, idepanic>>
    BY DEF DiskDone
  <1>1. active[1] \in Cmd
    BY Zenon, <1>0, TailFacts DEF IdeTypeOK
  <1>2. idequeue # <<>> /\ idequeue[1] \in Buf /\ Queued(idequeue[1])
    <2>1. Len(active) # 0
      BY <1>0, EmptyLen DEF IdeTypeOK
    <2>2. idequeue # <<>>
      BY <2>1 DEF DiskSound
    <2> QED BY <2>2, TailFacts DEF IdeTypeOK, Queued
  <1>3. /\ Len(active') = 1
        /\ active'[1] = [active[1] EXCEPT !.done = 1]
    BY <1>0
  <1>4. active'[1] \in Cmd /\ active' \in Seq(Cmd)
    BY <1>0, <1>1, <1>3
  <1>5. IdeTypeOK'
    BY <1>0, <1>1, <1>4 DEF IdeTypeOK
  <1>6. QueueSound'
    BY <1>0 DEF QueueSound, Queued
  <1>7. DiskSound'
    BY <1>0, <1>1, <1>2, <1>3 DEF DiskSound, IdeTypeOK
  <1>8. Served_Coherent'
    <2> SUFFICES ASSUME NEW b \in Buf, ~Queued(b), flags[b] = {"VALID"}, b \notin failed
                 PROVE  bdata[b] = media'[sector[b]]
      BY <1>0 DEF Served_Coherent, Queued
    <2>1. sector[b] # active[1].sector
      BY <1>2 DEF DiskSound, OneBufferEach
    <2>2. bdata[b] = media[sector[b]]
      BY DEF Served_Coherent
    <2> QED BY <1>0, <1>1, <2>1, <2>2 DEF IdeTypeOK
  <1> QED BY <1>0, <1>5, <1>6, <1>7, <1>8

\* ideintr(): the first buffer leaves the queue clean and valid, with what the disk
\* has in its sector, and the command of the next one takes its place.
LEMMA IdeintrInv == ASSUME IdeInv, NEW ok \in BOOLEAN, Ideintr(ok) PROVE IdeInv'
  <1> USE DEF IdeInv
  <1> DEFINE Cmd == [sector : Sector, cmd : {"READ", "WRITE"}, data : Content, done : {0, 1}]
             h == idequeue[1]
             n == idequeue[2]
  <1>1. /\ idequeue # <<>> /\ Len(idequeue) \in Nat \ {0} /\ h \in Buf
        /\ Head(idequeue) = h
        /\ Tail(idequeue) \in Seq(Buf)
        /\ Len(Tail(idequeue)) = Len(idequeue) - 1
        /\ \A i \in 1 .. Len(idequeue) - 1 : Tail(idequeue)[i] = idequeue[i + 1]
        /\ Tail(idequeue) = <<>> <=> Len(idequeue) = 1
        /\ Tail(idequeue) # <<>> => Head(Tail(idequeue)) = n /\ Len(idequeue) >= 2
    <2>1. idequeue \in Seq(Buf) /\ idequeue # <<>>
      BY DEF Ideintr, IdeTypeOK
    <2> HIDE DEF IdeInv
    <2> QED BY <2>1, TailFacts
  <1>2. /\ active # <<>> /\ active[1].done = 1
        /\ idequeue' = Tail(idequeue)
        /\ bdata' = IF "DIRTY" \notin flags[h] /\ ok THEN [bdata EXCEPT ![h] = media[active[1].sector]] ELSE bdata
        /\ flags' = [flags EXCEPT ![h] = Served(h)]
        /\ user' = [user EXCEPT ![h] = IF @ = "asleep" THEN "woken" ELSE @]
        /\ active' = IF Tail(idequeue) = <<>> THEN <<>> ELSE <<Command(Head(Tail(idequeue)))>>
        /\ failed' = IF "DIRTY" \notin flags[h] /\ ~ok THEN failed \cup {h} ELSE failed \ {h}
        /\ UNCHANGED <<sector, media, nreq, idepanic>>
    BY <1>1 DEF Ideintr
  <1>3. flags[h] \in SUBSET {"VALID", "DIRTY"} /\ Served(h) = {"VALID"}
    BY <1>1 DEF Served, IdeTypeOK
  <1>4. /\ flags'[h] = {"VALID"} /\ user'[h] = "woken"
        /\ \A c \in Buf \ {h} : flags'[c] = flags[c] /\ user'[c] = user[c] /\ bdata'[c] = bdata[c]
    <2>1. user[h] \in {"asleep", "woken"}
      BY <1>1 DEF QueueSound, Queued
    <2> QED BY <1>1, <1>2, <1>3, <2>1 DEF IdeTypeOK
  <1>5. active[1] \in Cmd
    BY Zenon, <1>2, TailFacts DEF IdeTypeOK
  <1>6. Tail(idequeue) # <<>> => n \in Buf /\ n # h /\ idequeue'[1] = n
    <2> SUFFICES ASSUME Tail(idequeue) # <<>> PROVE n \in Buf /\ n # h /\ idequeue'[1] = n
      OBVIOUS
    <2>1. 1 \in 1 .. Len(idequeue) /\ 2 \in 1 .. Len(idequeue) /\ 1 \in 1 .. Len(idequeue) - 1
      BY <1>1
    <2>2. n \in Buf
      BY <2>1, ElementOfSeq DEF IdeTypeOK
    <2>3. n # h
      BY <2>1 DEF QueueSound
    <2> QED BY <1>1, <1>2, <2>1, <2>2, <2>3
  <1>7. IdeTypeOK'
    <2>1. bdata' \in [Buf -> Content]
      BY <1>1, <1>2, <1>5 DEF IdeTypeOK
    <2>2. flags' \in [Buf -> SUBSET {"VALID", "DIRTY"}]
      BY <1>1, <1>2, <1>3 DEF IdeTypeOK
    <2>3. user' \in [Buf -> {"out", "call", "asleep", "woken"}]
      BY <1>1, <1>2 DEF IdeTypeOK
    <2>4. active' \in Seq(Cmd)
      <3>1. CASE Tail(idequeue) = <<>>
        BY <1>2, <3>1, EmptySeq
      <3>2. CASE Tail(idequeue) # <<>>
        <4>1. Command(n) \in Cmd
          BY <1>6, <3>2 DEF Command, IdeTypeOK
        <4> QED BY Zenon, <1>1, <1>2, <3>2, <4>1, OneElement
      <3> QED BY <3>1, <3>2
    <2>5. failed' \subseteq Buf
      BY <1>1, <1>2 DEF IdeTypeOK
    <2> QED BY Zenon, <1>1, <1>2, <2>1, <2>2, <2>3, <2>4, <2>5 DEF IdeTypeOK
  <1>8. \A c \in Buf : Queued(c)' <=> Queued(c) /\ c # h
    <2>1. ASSUME NEW c \in Buf, Queued(c)' PROVE Queued(c) /\ c # h
      <3>1. PICK i \in 1 .. Len(Tail(idequeue)) : Tail(idequeue)[i] = c
        BY <1>2, <2>1 DEF Queued
      <3>2. idequeue[i + 1] = c /\ i + 1 \in 1 .. Len(idequeue) /\ i + 1 # 1 /\ 1 \in 1 .. Len(idequeue)
        BY <1>1, <3>1
      <3> QED BY <3>2 DEF Queued, QueueSound
    <2>2. ASSUME NEW c \in Buf, Queued(c), c # h PROVE Queued(c)'
      <3>1. PICK i \in 1 .. Len(idequeue) : idequeue[i] = c
        BY <2>2 DEF Queued
      <3>2. i - 1 \in 1 .. Len(Tail(idequeue)) /\ Tail(idequeue)[i - 1] = c
        BY <1>1, <2>2, <3>1
      <3> QED BY Zenon, <1>2, <3>2 DEF Queued
    <2> QED BY <2>1, <2>2
  <1>9. QueueSound'
    <2>1. ASSUME NEW i \in 1 .. Len(idequeue'), NEW j \in 1 .. Len(idequeue'), idequeue'[i] = idequeue'[j]
          PROVE  i = j
      <3>1. i + 1 \in 1 .. Len(idequeue) /\ j + 1 \in 1 .. Len(idequeue) /\ idequeue[i + 1] = idequeue[j + 1]
        BY <1>1, <1>2, <2>1
      <3>2. i + 1 = j + 1
        BY <3>1 DEF QueueSound
      <3> QED BY <3>2
    <2> QED BY <1>4, <1>8, <2>1 DEF QueueSound
  <1>10. DiskSound'
    <2>1. CASE Tail(idequeue) = <<>>
      BY <1>2, <2>1, EmptySeq DEF DiskSound
    <2>2. CASE Tail(idequeue) # <<>>
      <3>1. active' = <<Command(n)>> /\ idequeue'[1] = n /\ idequeue' # <<>>
        BY <1>1, <1>2, <1>6, <2>2
      <3>2. /\ Len(active') = 1
            /\ active'[1].sector = sector[n] /\ active'[1].data = bdata[n] /\ active'[1].done = 0
            /\ active'[1].cmd = IF "DIRTY" \in flags[n] THEN "WRITE" ELSE "READ"
        BY <3>1 DEF Command
      <3>3. sector' = sector /\ bdata'[n] = bdata[n] /\ flags'[n] = flags[n]
        BY <1>2, <1>4, <1>6, <2>2
      <3> QED BY <3>1, <3>2, <3>3 DEF DiskSound
    <2> QED BY <2>1, <2>2
  <1>11. Served_Coherent'
    <2>1. ASSUME NEW c \in Buf \ {h}, ~Queued(c)', flags'[c] = {"VALID"}, c \notin failed'
          PROVE  bdata'[c] = media'[sector'[c]]
      <3>1. c \notin failed /\ flags[c] = {"VALID"} /\ ~Queued(c)
        BY <1>2, <1>4, <1>8, <2>1
      <3> QED BY <1>2, <1>4, <3>1 DEF Served_Coherent
    <2>2. ASSUME h \notin failed' PROVE bdata'[h] = media'[sector'[h]]
      <3>1. CASE "DIRTY" \in flags[h]
        BY <1>1, <1>2, <3>1 DEF DiskSound
      <3>2. CASE "DIRTY" \notin flags[h]
        <4>1. ok
          BY <1>2, <2>2, <3>2
        <4>2. bdata' = [bdata EXCEPT ![h] = media[active[1].sector]]
          BY <1>2, <3>2, <4>1
        <4> QED BY <1>1, <1>2, <4>2 DEF DiskSound, IdeTypeOK
      <3> QED BY <3>1, <3>2
    <2> QED BY <2>1, <2>2 DEF Served_Coherent
  <1> QED BY <1>2, <1>7, <1>9, <1>10, <1>11

\* A kill() that wakes a sleeper in iderw() changes nothing else.
LEMMA RousedInv == ASSUME IdeInv, NEW b \in Buf, Roused(b) PROVE IdeInv'
  <1> USE DEF IdeInv, Roused
  <1>1. IdeTypeOK'
    BY DEF IdeTypeOK
  <1>2. \A c \in Buf : Queued(c)' <=> Queued(c)
    BY DEF Queued
  <1>3. /\ user'[b] = "woken" /\ Queued(b)
        /\ \A c \in Buf \ {b} : user'[c] = user[c]
    BY DEF IdeTypeOK, QueueSound
  <1>4. QueueSound'
    BY <1>2, <1>3 DEF QueueSound
  <1>5. DiskSound'
    BY DEF DiskSound
  <1>6. Served_Coherent'
    BY <1>2 DEF Served_Coherent
  <1> QED BY <1>1, <1>4, <1>5, <1>6

\* The loop of iderw() lets a process go only when its buffer was served.
LEMMA WokenInv == ASSUME IdeInv, NEW b \in Buf, Woken(b) PROVE IdeInv'
  <1> USE DEF IdeInv, Woken
  <1>1. IdeTypeOK'
    BY DEF IdeTypeOK
  <1>2. \A c \in Buf : Queued(c)' <=> Queued(c)
    BY DEF Queued
  <1>3. /\ user'[b] = IF Done(b) THEN "out" ELSE "asleep"
        /\ \A c \in Buf \ {b} : user'[c] = user[c]
    BY DEF IdeTypeOK
  <1>4. Done(b) <=> flags[b] = {"VALID"}
    <2>1. flags[b] \in SUBSET {"VALID", "DIRTY"}
      BY DEF IdeTypeOK
    <2> QED BY <2>1 DEF Done
  <1>5. Queued(b) <=> flags[b] # {"VALID"}
    BY DEF QueueSound
  <1>6. QueueSound'
    BY <1>2, <1>3, <1>4, <1>5 DEF QueueSound
  <1>7. DiskSound'
    BY DEF DiskSound
  <1>8. Served_Coherent'
    BY <1>2 DEF Served_Coherent
  <1> QED BY <1>1, <1>6, <1>7, <1>8

\* Every step of the driver, the disk and the processes keeps the invariant.
LEMMA IdeNextInv == IdeInv /\ [IdeNext]_ideVars => IdeInv'
  <1> SUFFICES ASSUME IdeInv, [IdeNext]_ideVars PROVE IdeInv'
    OBVIOUS
  <1>1. ASSUME NEW b \in Buf, Prepare(b) PROVE IdeInv'
    BY <1>1, PrepareInv
  <1>2. ASSUME NEW b \in Buf, Iderw(b) PROVE IdeInv'
    BY <1>2, IderwInv
  <1>3. ASSUME NEW b \in Buf, Roused(b) PROVE IdeInv'
    BY <1>3, RousedInv
  <1>4. ASSUME NEW b \in Buf, Woken(b) PROVE IdeInv'
    BY <1>4, WokenInv
  <1>5. CASE DiskDone
    BY <1>5, DiskDoneInv
  <1>6. ASSUME NEW ok \in BOOLEAN, Ideintr(ok) PROVE IdeInv'
    BY <1>6, IdeintrInv
  <1>7. CASE UNCHANGED ideVars
    BY <1>7 DEF ideVars, IdeInv, IdeTypeOK, QueueSound, DiskSound, Served_Coherent, Queued
  <1> QED BY <1>1, <1>2, <1>3, <1>4, <1>5, <1>6, <1>7 DEF IdeNext

\* The invariant says that buffers back from iderw() are what the disk has.
LEMMA IdeInvServes == IdeInv => IdeServed
  <1> SUFFICES ASSUME IdeInv PROVE IdeServed
    OBVIOUS
  <1> USE DEF IdeInv
  <1> DEFINE Cmd == [sector : Sector, cmd : {"READ", "WRITE"}, data : Content, done : {0, 1}]
  <1>1. idequeue = <<>> <=> active = <<>>
    <2>1. active = <<>> <=> Len(active) = 0
      BY EmptyLen DEF IdeTypeOK
    <2> QED BY <2>1 DEF DiskSound
  <1>2. ASSUME idequeue # <<>>
        PROVE  active = <<[Command(Head(idequeue)) EXCEPT !.done = active[1].done]>>
    <2>1. Head(idequeue) = idequeue[1]
      BY <1>2, TailFacts DEF IdeTypeOK
    <2>2. active # <<>> /\ Len(active) = 1 /\ active[1] \in Cmd /\ active \in Seq(Cmd)
      BY Zenon, <1>1, <1>2, TailFacts DEF DiskSound, IdeTypeOK
    <2>3. active = <<active[1]>>
      BY <2>2
    <2>4. active[1] = [Command(idequeue[1]) EXCEPT !.done = active[1].done]
      BY <1>2, <2>2 DEF DiskSound, Command
    <2> QED BY <2>1, <2>3, <2>4
  <1>3. ASSUME NEW b \in Buf, user[b] = "out", "VALID" \in flags[b], b \notin failed
        PROVE  bdata[b] = media[sector[b]]
    <2>1. flags[b] \in SUBSET {"VALID", "DIRTY"} /\ "DIRTY" \notin flags[b]
      BY <1>3 DEF IdeTypeOK, QueueSound
    <2>2. flags[b] = {"VALID"}
      BY <1>3, <2>1
    <2>3. ~Queued(b)
      BY <1>3 DEF QueueSound
    <2> QED BY <1>3, <2>2, <2>3 DEF Served_Coherent
  <1> QED BY <1>1, <1>2, <1>3 DEF IdeServed

\* iderw(), ideintr(): for any number of buffers and sectors and any interleaving of
\* callers, kills and interrupts, the disk always works on the request of the first
\* buffer, no command reaches a busy disk, and who comes back has what the disk has.
THEOREM IdeServes == IdeSpec => []IdeServed
  <1>1. IdeInit => IdeInv
    BY IdeInitInv
  <1>2. IdeInv /\ [IdeNext]_ideVars => IdeInv'
    BY IdeNextInv
  <1>3. IdeInv => IdeServed
    BY IdeInvServes
  <1> QED BY <1>1, <1>2, <1>3, PTL DEF IdeSpec
===============================================================================
