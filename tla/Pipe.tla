--------------------------------- MODULE Pipe ---------------------------------
(***************************************************************************)
(* kernel/pipe.c, with fileclose() of kernel/file.c, and sleep(), wakeup() *)
(* and kill() of kernel/proc.c as a pipe uses them.  p->lock is held from  *)
(* a process's test of the pipe to the moment it is SLEEPING, but kill()   *)
(* does not take that lock: the test and the sleep are two steps.          *)
(*                                                                         *)
(* A process has one end of the pipe open (after fork() has shared the     *)
(* ends and each process has closed the one it does not use).              *)
(***************************************************************************)
EXTENDS Integers, Sequences, FiniteSets

CONSTANTS Reader, Writer,  \* the processes that have an end open
          Byte,
          PIPESIZE,
          Modulus,         \* 2^32: nread and nwrite are of type uint
          Passed,          \* bytes that went through the pipe before, modulo Modulus
          MaxIO,           \* most bytes of one read() or write()
          MaxSent          \* bound on the bytes written in a behaviour

\* pipe() opens both ends.
ASSUME PipeAssumption ==
    /\ Reader # {} /\ Writer # {} /\ Reader \cap Writer = {}
    /\ PIPESIZE \in Nat \ {0}
    /\ Modulus \in Nat /\ Modulus > PIPESIZE /\ Modulus % PIPESIZE = 0
    /\ Passed \in 0 .. Modulus - 1

Proc == Reader \cup Writer
Min(m, n) == IF m < n THEN m ELSE n

VARIABLES
    data, nread, nwrite, readopen, writeopen,  \* struct pipe
    open,    \* the processes whose file descriptor refers to their end
    pc,      \* where each process is (see Pcs)
    left,    \* pipewrite(): the bytes from addr[i] on
    killed,
    sent,    \* all bytes put into the pipe
    recv     \* all bytes read from it

pipe == <<data, nread, nwrite, readopen, writeopen>>
vars == <<pipe, open, pc, left, killed, sent, recv>>

\* out: not in the pipe; ready: about to acquire p->lock; sleepy: about to be
\* SLEEPING, with p->lock; asleep: SLEEPING.
Pcs == {"out", "ready", "sleepy", "asleep"}

\* The pipe of pipealloc(), new (Passed = 0) or after any number of bytes.
Init ==
    /\ data = [i \in 0 .. PIPESIZE - 1 |-> CHOOSE b \in Byte : TRUE]
    /\ nread = Passed
    /\ nwrite = Passed
    /\ readopen = 1
    /\ writeopen = 1
    /\ open = Proc
    /\ pc = [p \in Proc |-> "out"]
    /\ left = [p \in Writer |-> <<>>]
    /\ killed = [p \in Proc |-> 0]
    /\ sent = <<>>
    /\ recv = <<>>

-------------------------------------------------------------------------------
(* Helpers *)

LockFree == \A p \in Proc : pc[p] # "sleepy"

\* Bytes in the pipe: nwrite - nread, as unsigned integers.
Count == (nwrite - nread) % Modulus

\* Mutant: the pipe takes one byte too many.
Room_OffByOne == PIPESIZE + 1 - Count

Room == PIPESIZE - Count

\* n += k, as unsigned integers.
Advance(n, k) == (n + k) % Modulus

\* Mutant: wakeup() of the wrong channel.
Wakeup_Nobody(S) == pc

\* wakeup(): those of S that sleep may run.
Wakeup(S) == [p \in Proc |-> IF p \in S /\ pc[p] = "asleep" THEN "ready" ELSE pc[p]]

-------------------------------------------------------------------------------
(* pipewrite() *)

EnterWrite(p, bytes) ==
    /\ p \in open /\ pc[p] = "out" /\ killed[p] = 0
    /\ Len(sent) + Len(bytes) <= MaxSent
    /\ pc' = [pc EXCEPT ![p] = "ready"]
    /\ left' = [left EXCEPT ![p] = bytes]
    /\ UNCHANGED <<pipe, open, killed, sent, recv>>

\* The loop up to its end, to the return of -1, or to sleep(): as many bytes as
\* there is room for.  Returning -1 wakes nobody.
PipeWrite(p) ==
    LET k == Min(Len(left[p]), Room) IN
    /\ pc[p] = "ready" /\ LockFree
    /\ data' = [i \in 0 .. PIPESIZE - 1 |->
                   LET j == (i - nwrite) % PIPESIZE IN
                   IF j < k THEN left[p][j + 1] ELSE data[i]]
    /\ nwrite' = Advance(nwrite, k)
    /\ sent' = sent \o SubSeq(left[p], 1, k)
    /\ left' = [left EXCEPT ![p] = SubSeq(@, k + 1, Len(@))]
    /\ pc' = IF k = Len(left[p])
             THEN [Wakeup(Reader) EXCEPT ![p] = "out"]
             ELSE IF readopen = 0 \/ killed[p] = 1
                  THEN [pc EXCEPT ![p] = "out"]
                  ELSE [Wakeup(Reader) EXCEPT ![p] = "sleepy"]
    /\ UNCHANGED <<nread, readopen, writeopen, open, killed, recv>>

-------------------------------------------------------------------------------
(* piperead() *)

EnterRead(p) ==
    /\ p \in open /\ pc[p] = "out" /\ killed[p] = 0
    /\ pc' = [pc EXCEPT ![p] = "ready"]
    /\ UNCHANGED <<pipe, open, left, killed, sent, recv>>

Empty == nread = nwrite

\* The pipe is empty: return -1 or sleep.
PipeReadWait(p) ==
    /\ pc[p] = "ready" /\ LockFree
    /\ Empty /\ writeopen = 1
    /\ pc' = [pc EXCEPT ![p] = IF killed[p] = 1 THEN "out" ELSE "sleepy"]
    /\ UNCHANGED <<pipe, open, left, killed, sent, recv>>

\* Copy up to n bytes; none means end of file.
PipeRead(p, n) ==
    LET k == Min(n, Count) IN
    /\ pc[p] = "ready" /\ LockFree
    /\ ~Empty \/ writeopen = 0
    /\ recv' = recv \o [i \in 1 .. k |-> data[(nread + i - 1) % PIPESIZE]]
    /\ nread' = Advance(nread, k)
    /\ pc' = [Wakeup(Writer) EXCEPT ![p] = "out"]
    /\ UNCHANGED <<data, nwrite, readopen, writeopen, open, left, killed, sent>>

-------------------------------------------------------------------------------
(* sleep(), kill(), pipeclose() *)

Sleep(p) ==
    /\ pc[p] = "sleepy"
    /\ pc' = [pc EXCEPT ![p] = "asleep"]
    /\ UNCHANGED <<pipe, open, left, killed, sent, recv>>

Kill(p) ==
    /\ p \in open /\ killed[p] = 0
    /\ killed' = [killed EXCEPT ![p] = 1]
    /\ pc' = Wakeup({p})
    /\ UNCHANGED <<pipe, open, left, sent, recv>>

\* Mutant: every fileclose() calls pipeclose().
LastRef_Any(p, ends) == TRUE

\* fileclose(): the reference count of the file drops to 0.
LastRef(p, ends) == open \cap ends = {p}

\* close() or exit(): fileclose(), and pipeclose() with the last reference.
Close(p) ==
    /\ p \in open /\ pc[p] = "out" /\ LockFree
    /\ open' = open \ {p}
    /\ \/ /\ p \in Writer /\ LastRef(p, Writer)
          /\ writeopen' = 0
          /\ pc' = Wakeup(Reader)
          /\ UNCHANGED readopen
       \/ /\ p \in Reader /\ LastRef(p, Reader)
          /\ readopen' = 0
          /\ pc' = Wakeup(Writer)
          /\ UNCHANGED writeopen
       \/ /\ ~LastRef(p, Writer) /\ ~LastRef(p, Reader)
          /\ UNCHANGED <<readopen, writeopen, pc>>
    /\ UNCHANGED <<data, nread, nwrite, left, killed, sent, recv>>

Messages == UNION {[1 .. n -> Byte] : n \in 1 .. MaxIO}

Write(p) == (\E bytes \in Messages : EnterWrite(p, bytes)) \/ PipeWrite(p)
Read(p) == EnterRead(p) \/ PipeReadWait(p) \/ \E n \in 1 .. MaxIO : PipeRead(p, n)

Next ==
    \/ \E p \in Writer : Write(p)
    \/ \E p \in Reader : Read(p)
    \/ \E p \in Proc : Sleep(p) \/ Kill(p) \/ Close(p)

Spec == Init /\ [][Next]_vars

-------------------------------------------------------------------------------
(* Fairness: a process in the kernel goes on (strong, since it may find p->lock *)
(* taken again and again), a killed process exits, which closes its end, and    *)
(* readers read until they see the end of the stream.  Nothing makes a writer   *)
(* write or close.                                                              *)
Exit(p) == killed[p] = 1 /\ Close(p)
Fairness ==
    /\ \A p \in Writer : SF_vars(PipeWrite(p) \/ Sleep(p) \/ Exit(p))
    /\ \A p \in Reader : SF_vars(Read(p) \/ Sleep(p) \/ Exit(p))

FairSpec == Spec /\ Fairness

-------------------------------------------------------------------------------
(* Properties *)

TypeOK ==
    /\ data \in [0 .. PIPESIZE - 1 -> Byte]
    /\ nread \in 0 .. Modulus - 1
    /\ nwrite \in 0 .. Modulus - 1
    /\ readopen \in {0, 1}
    /\ writeopen \in {0, 1}
    /\ open \subseteq Proc
    /\ pc \in [Proc -> Pcs]
    /\ left \in [Writer -> Seq(Byte)]
    /\ killed \in [Proc -> {0, 1}]
    /\ sent \in Seq(Byte)
    /\ recv \in Seq(Byte)

\* pipeclose() frees the pipe when both ends are closed: nobody is inside then,
\* and an end is open exactly as long as somebody has it.
NotFreedInUse ==
    /\ readopen = 1 <=> open \cap Reader # {}
    /\ writeopen = 1 <=> open \cap Writer # {}
    /\ \A p \in Proc : pc[p] # "out" => p \in open

\* pipewrite(): a writer asleep finds the pipe full and a reader that can drain it.
WriterSleepsOnFull ==
    \A p \in Writer : pc[p] = "asleep" => Count = PIPESIZE /\ readopen = 1

\* pipewrite() returned -1 to a killed writer (pipe.c:85-87): it may have filled the
\* pipe, and wakes nobody.
GaveUp(p) == killed[p] = 1 /\ pc[p] = "out" /\ left[p] # <<>>
Abandoned == \E p \in Writer : GaveUp(p)

\* piperead() "pipe-empty": a reader asleep has a writer that can fill the pipe, and
\* finds it empty unless a killed writer gave up.
ReaderSleepsOnEmpty ==
    \A p \in Reader : pc[p] = "asleep" => writeopen = 1 /\ (Empty \/ Abandoned)

\* pipewrite(), piperead(): whoever sleeps on a pipe has something to wait for and
\* somebody who can bring it: the only wakeup that is ever missed is the one that
\* pipewrite() leaves out when it gives up on behalf of a killed writer.
SleepersWait == WriterSleepsOnFull /\ ReaderSleepsOnEmpty

\* A killed writer gave up, and the other writers neither write nor all leave.
Silent == Abandoned /\ writeopen = 1 /\ \A p \in Writer : pc[p] = "out"

\* pipewrite(), piperead(): when the writers have written what they will (MaxSent bounds
\* it), all of it is read, whoever is killed, unless the readers leave, or a killed writer
\* gave up and no other writer is heard of again.
Delivered == Len(recv) < Len(sent) ~> Len(recv) = Len(sent) \/ readopen = 0 \/ []Silent

\* A pipe is a stream of bytes, also when nread and nwrite wrap around.
Abstract == INSTANCE Stream WITH Size <- PIPESIZE
Refinement == Abstract!Spec
===============================================================================
