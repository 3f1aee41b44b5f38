---------------------------------- MODULE Ide ----------------------------------
(***************************************************************************)
(* kernel/ata.c: the queue of requests that iderw() appends to and the     *)
(* interrupt handler serves, and the disk (external).  sleep() under       *)
(* idelock is one step: nobody else changes what it waits for.             *)
(***************************************************************************)
EXTENDS Integers, Sequences, FiniteSets

CONSTANTS Buf,       \* the buffers, each held (B_BUSY) by one process
          Sector,
          Value,
          MaxRequests

\* The buffer cache has one buffer for a sector.
OneBufferEach(f) == \A a, b \in Buf : a # b => f[a] # f[b]

ASSUME IdeAssumption == \E f \in [Buf -> Sector] : OneBufferEach(f)

VARIABLES
    idequeue,   \* the list of buffers
    flags,      \* of each buffer: subsets of {"VALID", "DIRTY"}
    sector, bdata,   \* b->sector and b->data
    user,       \* what the holder of each buffer does: see Iderw
    active,     \* <<the command the disk works on>>, or <<>>
    media,      \* the contents of the disk
    nreq,
    failed,     \* the buffers for which idewait(1) has reported an error
    idepanic

ideVars == <<idequeue, flags, sector, bdata, user, active, media, nreq, failed, idepanic>>

IdeInit ==
    /\ idequeue = <<>>
    /\ flags = [b \in Buf |-> {}]
    /\ sector = CHOOSE f \in [Buf -> Sector] : OneBufferEach(f)
    /\ bdata = [b \in Buf |-> 0]
    /\ user = [b \in Buf |-> "out"]
    /\ active = <<>>
    /\ media = [s \in Sector |-> 0]
    /\ nreq = 0
    /\ failed = {}
    /\ idepanic = "no"

\* idestart(): the command for the disk.
Command(b) ==
    [sector |-> sector[b], cmd |-> IF "DIRTY" \in flags[b] THEN "WRITE" ELSE "READ",
     data |-> bdata[b], done |-> 0]

\* The holder of b changes it, or wants another sector read into it.
Prepare(b) ==
    /\ idepanic = "no" /\ user[b] = "out" /\ nreq < MaxRequests
    /\ nreq' = nreq + 1
    /\ \/ /\ \E v \in Value : bdata' = [bdata EXCEPT ![b] = v]
          /\ flags' = [flags EXCEPT ![b] = @ \cup {"DIRTY"}]
          /\ UNCHANGED sector
       \/ /\ \E s \in Sector \ {sector[a] : a \in Buf \ {b}} : sector' = [sector EXCEPT ![b] = s]
          /\ flags' = [flags EXCEPT ![b] = {}]
          /\ UNCHANGED bdata
    /\ user' = [user EXCEPT ![b] = "call"]
    /\ UNCHANGED <<idequeue, active, media, failed, idepanic>>

\* Mutant: every request is started at once.
MustStart_Always(q, b) == TRUE

\* idequeue == b
MustStart(q, b) == Head(q) = b

\* iderw() up to sleep().
Iderw(b) ==
    LET q == Append(idequeue, b) IN
    /\ idepanic = "no" /\ user[b] = "call"
    /\ IF flags[b] = {"VALID"}
       THEN idepanic' = "nothing to do" /\ UNCHANGED <<idequeue, active, user>>
       ELSE /\ idequeue' = q
            /\ active' = IF MustStart(q, b) THEN <<Command(b)>> ELSE active
            /\ user' = [user EXCEPT ![b] = "asleep"]
            /\ UNCHANGED idepanic
    /\ UNCHANGED <<flags, sector, bdata, media, nreq, failed>>

\* The disk has carried out the command (external).
DiskDone ==
    /\ active # <<>> /\ active[1].done = 0
    /\ active' = <<[active[1] EXCEPT !.done = 1]>>
    /\ media' = IF active[1].cmd = "WRITE" THEN [media EXCEPT ![active[1].sector] = active[1].data] ELSE media
    /\ UNCHANGED <<idequeue, flags, sector, bdata, user, nreq, failed, idepanic>>

\* Mutant: a write is forgotten, its buffer stays dirty.
Served_StillDirty(b) == flags[b] \cup {"VALID"}

\* b->flags |= B_VALID; b->flags &= ~B_DIRTY;
Served(b) == (flags[b] \cup {"VALID"}) \ {"DIRTY"}

\* ideintr(): the first buffer is done, the next command goes to the disk.
Ideintr(ok) ==
    LET b == Head(idequeue)
        next == Head(Tail(idequeue)) IN
    /\ idepanic = "no" /\ active # <<>> /\ active[1].done = 1 /\ idequeue # <<>>
    /\ idequeue' = Tail(idequeue)
    /\ bdata' = IF "DIRTY" \notin flags[b] /\ ok THEN [bdata EXCEPT ![b] = media[active[1].sector]] ELSE bdata
    /\ flags' = [flags EXCEPT ![b] = Served(b)]
    /\ user' = [user EXCEPT ![b] = IF @ = "asleep" THEN "woken" ELSE @]
    /\ active' = IF Tail(idequeue) = <<>> THEN <<>> ELSE <<Command(next)>>
    /\ failed' = IF "DIRTY" \notin flags[b] /\ ~ok THEN failed \cup {b} ELSE failed \ {b}
    /\ UNCHANGED <<sector, media, nreq, idepanic>>

\* kill() makes a sleeper runnable too.
Roused(b) ==
    /\ user[b] = "asleep"
    /\ user' = [user EXCEPT ![b] = "woken"]
    /\ UNCHANGED <<idequeue, flags, sector, bdata, active, media, nreq, failed, idepanic>>

\* (b->flags & (B_VALID|B_DIRTY)) == B_VALID
Done(b) == "VALID" \in flags[b] /\ "DIRTY" \notin flags[b]

\* The loop in iderw() tests the flags again.
Woken(b) ==
    /\ user[b] = "woken"
    /\ user' = [user EXCEPT ![b] =
           IF Done(b) THEN "out" ELSE "asleep"]
    /\ UNCHANGED <<idequeue, flags, sector, bdata, active, media, nreq, failed, idepanic>>

IdeNext ==
    \/ \E b \in Buf : Prepare(b) \/ Iderw(b) \/ Roused(b) \/ Woken(b)
    \/ DiskDone
    \/ \E ok \in BOOLEAN : Ideintr(ok)

IdeSpec == IdeInit /\ [][IdeNext]_ideVars

\* "idequeue points to the buf now being read/written to the disk": the disk works on
\* the command of the first buffer, a command is never given to a busy disk, and a
\* buffer back from iderw() is what the disk has, unless the disk reported an error.
IdeServed ==
    /\ idepanic = "no"
    /\ idequeue = <<>> <=> active = <<>>
    /\ idequeue # <<>> => active = <<[Command(Head(idequeue)) EXCEPT !.done = active[1].done]>>
    /\ \A b \in Buf : user[b] = "out" /\ "VALID" \in flags[b] /\ b \notin failed => bdata[b] = media[sector[b]]

\* iderw(), ideintr(): every request ends.
RequestEnds == \A b \in Buf : user[b] = "call" ~> user[b] = "out"
===============================================================================
