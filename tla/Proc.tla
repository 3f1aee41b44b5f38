--------------------------------- MODULE Proc ---------------------------------
(***************************************************************************)
(* kernel/proc.c: the process table and the life of a process, with the    *)
(* parts of trap.c, sysproc.c, sysuser.c and userspace/init.c that drive   *)
(* it.  A critical section under ptable.lock is one action; fork(), exit() *)
(* and the sleep of sys_sleep() are cut where they hold no lock, or hold   *)
(* tickslock only.  What a process runs in user mode is any sequence of    *)
(* the system calls modelled; init runs the loop of userspace/init.c.      *)
(***************************************************************************)
EXTENDS Integers, FiniteSets

CONSTANTS NPROC,     \* kernel/include/param.h: slots of ptable.proc
          CPU,       \* the processors
          KillArg,   \* the pids given to kill()
          Uid,       \* user ids, 0 among them
          MaxPid     \* bound on the pids handed out

ASSUME ProcAssumption ==
    /\ NPROC \in Nat \ {0}
    /\ MaxPid \in Nat \ {0}
    /\ KillArg \subseteq Nat
    /\ 0 \in Uid

Slot == 1 .. NPROC
None == 0          \* the null pointer, and cpu->proc of an idle processor
initproc == 1      \* userinit() takes the first slot

States == {"UNUSED", "EMBRYO", "SLEEPING", "RUNNABLE", "RUNNING", "ZOMBIE"}

VARIABLES
    state, pid, parent, killed, chan, uid,  \* fields of struct proc, per slot
    pc,            \* where the process is (see Pcs)
    np,            \* fork()'s local variable: the slot of the child
    cpu,           \* cpu->proc, per processor
    scan,          \* scheduler()'s loop variable, per processor
    current_proc,  \* the process some processor dispatched last
    nextpid,
    panicked

table == <<state, pid, parent, killed, chan, uid>>
vars == <<table, pc, np, cpu, scan, current_proc, nextpid, panicked>>

\* user: in user mode, or leaving a system call; syscall: past trap()'s test of
\* killed, in a system call that did nothing yet; fork, forked: in fork() before
\* and after it sets the child's parent; exit: in exit() before ptable.lock;
\* wait: in the loop of wait(); sleepy, dozing: in sys_sleep() after its test of
\* killed, and in its sleep(); failed: init, whose fork() returned -1.
Pcs == {"user", "syscall", "fork", "forked", "exit", "wait", "sleepy", "dozing", "failed"}

Ticks == -1        \* the channel &ticks; wait() sleeps on the process itself

Init ==
    /\ state = [p \in Slot |-> IF p = initproc THEN "RUNNABLE" ELSE "UNUSED"]
    /\ pid = [p \in Slot |-> IF p = initproc THEN 1 ELSE 0]
    /\ parent = [p \in Slot |-> None]
    /\ killed = [p \in Slot |-> 0]
    /\ chan = [p \in Slot |-> None]
    /\ uid = [p \in Slot |-> 0]
    /\ pc = [p \in Slot |-> "user"]
    /\ np = [p \in Slot |-> None]
    /\ cpu = [c \in CPU |-> None]
    /\ scan = [c \in CPU |-> 1]
    /\ current_proc = None
    /\ nextpid = 2
    /\ panicked = 0

-------------------------------------------------------------------------------
(* Helpers *)

\* The first slot a scan of the table finds in S.
Least(S) == CHOOSE p \in S : \A q \in S : p <= q

Running(p) == state[p] = "RUNNING" /\ panicked = 0

Children(p) == {q \in Slot : parent[q] = p}
Zombies(p) == {q \in Children(p) : state[q] = "ZOMBIE"}

\* Mutant: wakeup1() wakes nobody.
Woken_Nobody(st, ch) == st

\* wakeup1(): the table st with every sleeper on channel ch runnable.
Woken(st, ch) ==
    [q \in Slot |-> IF st[q] = "SLEEPING" /\ chan[q] = ch THEN "RUNNABLE" ELSE st[q]]

\* sched(): the processor goes back to its scheduler.
LeaveCpu(p) == cpu' = [c \in CPU |-> IF cpu[c] = p THEN None ELSE cpu[c]]

\* A system call returns to user mode.
Return(p) == pc' = [pc EXCEPT ![p] = "user"]

-------------------------------------------------------------------------------
(* trap() *)

\* A system call begins, unless the process was killed.
EnterSyscall(p) ==
    /\ Running(p) /\ pc[p] = "user" /\ killed[p] = 0
    /\ pc' = [pc EXCEPT ![p] = "syscall"]
    /\ UNCHANGED <<table, np, cpu, scan, current_proc, nextpid, panicked>>

\* A system call that leaves the process table alone.
OtherSyscall(p) ==
    /\ Running(p) /\ pc[p] = "syscall" /\ p # initproc
    /\ Return(p)
    /\ UNCHANGED <<table, np, cpu, scan, current_proc, nextpid, panicked>>

\* The process misbehaves in user mode.
UserFault(p) ==
    /\ Running(p) /\ pc[p] = "user" /\ p # initproc
    /\ killed' = [killed EXCEPT ![p] = 1]
    /\ UNCHANGED <<state, pid, parent, chan, uid, pc, np, cpu, scan, current_proc, nextpid, panicked>>

-------------------------------------------------------------------------------
(* fork() *)

\* Mutant: a slot another fork() fills counts as free.
Free_Embryo == {q \in Slot : state[q] \in {"UNUSED", "EMBRYO"}}

Free == {q \in Slot : state[q] = "UNUSED"}
NextPid == nextpid + 1

\* allocproc() under ptable.lock: the first free slot and the next pid.
AllocProc(p) ==
    /\ Running(p) /\ pc[p] = "syscall"
    /\ nextpid <= MaxPid
    /\ Free # {}
    /\ state' = [state EXCEPT ![Least(Free)] = "EMBRYO"]
    /\ pid' = [pid EXCEPT ![Least(Free)] = nextpid]
    /\ nextpid' = NextPid
    /\ np' = [np EXCEPT ![p] = Least(Free)]
    /\ pc' = [pc EXCEPT ![p] = "fork"]
    /\ UNCHANGED <<parent, killed, chan, uid, cpu, scan, current_proc, panicked>>

\* fork() returns -1; init gives up on that.
ForkReturnsError(p) == pc' = [pc EXCEPT ![p] = IF p = initproc THEN "failed" ELSE "user"]

\* allocproc() finds no slot.
ForkNoSlot(p) ==
    /\ Running(p) /\ pc[p] = "syscall"
    /\ Free = {}
    /\ ForkReturnsError(p)
    /\ UNCHANGED <<table, np, cpu, scan, current_proc, nextpid, panicked>>

\* kalloc() or copyuvm() finds no memory: the slot is given back, pid and all.
ForkNoMemory(p) ==
    /\ Running(p) /\ pc[p] = "fork"
    /\ state' = [state EXCEPT ![np[p]] = "UNUSED"]
    /\ np' = [np EXCEPT ![p] = None]
    /\ ForkReturnsError(p)
    /\ UNCHANGED <<pid, parent, killed, chan, uid, cpu, scan, current_proc, nextpid, panicked>>

\* np->parent = proc, and the copies of memory, registers, files and directory.
ForkCopy(p) ==
    /\ Running(p) /\ pc[p] = "fork"
    /\ parent' = [parent EXCEPT ![np[p]] = p]
    /\ pc' = [pc EXCEPT ![p] = "forked"]
    /\ UNCHANGED <<state, pid, killed, chan, uid, np, cpu, scan, current_proc, nextpid, panicked>>

\* np->state = RUNNABLE: from here on the child runs.
ForkDone(p) ==
    /\ Running(p) /\ pc[p] = "forked"
    /\ state' = [state EXCEPT ![np[p]] = "RUNNABLE"]
    /\ pc' = [pc EXCEPT ![np[p]] = "user", ![p] = "user"]
    /\ np' = [np EXCEPT ![p] = None]
    /\ UNCHANGED <<pid, parent, killed, chan, uid, cpu, scan, current_proc, nextpid, panicked>>

-------------------------------------------------------------------------------
(* exit() and wait() *)

\* A process calls exit(), or trap() calls it for a process that was killed; init
\* calls it only if its fork() failed.
ExitStart(p) ==
    /\ Running(p)
    /\ \/ pc[p] = "user" /\ killed[p] = 1
       \/ pc[p] = "syscall" /\ p # initproc
       \/ pc[p] = "failed"
    /\ IF p = initproc
       THEN panicked' = 1 /\ UNCHANGED pc
       ELSE pc' = [pc EXCEPT ![p] = "exit"] /\ UNCHANGED panicked
    /\ UNCHANGED <<table, np, cpu, scan, current_proc, nextpid>>

\* exit() passes abandoned children to init.
Adopted(p) == [q \in Slot |-> IF parent[q] = p THEN initproc ELSE parent[q]]

\* exit() under ptable.lock: wake the parent, pass the children to init, become a
\* zombie and leave the processor for good.
Exit(p) ==
    LET woken == Woken(state, parent[p])
        rewoken == IF Zombies(p) # {} THEN Woken(woken, initproc) ELSE woken IN
    /\ Running(p) /\ pc[p] = "exit"
    /\ state' = [rewoken EXCEPT ![p] = "ZOMBIE"]
    /\ parent' = Adopted(p)
    /\ LeaveCpu(p)
    /\ UNCHANGED <<pid, killed, chan, uid, pc, np, scan, current_proc, nextpid, panicked>>

\* wait() finds a zombie child: the first one in the table is reaped.
WaitReap(p) ==
    LET q == Least(Zombies(p)) IN
    /\ Running(p) /\ pc[p] \in {"syscall", "wait"}
    /\ Zombies(p) # {}
    /\ state' = [state EXCEPT ![q] = "UNUSED"]
    /\ pid' = [pid EXCEPT ![q] = 0]
    /\ parent' = [parent EXCEPT ![q] = None]
    /\ killed' = [killed EXCEPT ![q] = 0]
    /\ Return(p)
    /\ UNCHANGED <<chan, uid, np, cpu, scan, current_proc, nextpid, panicked>>

\* wait() returns -1: no children, or the caller was killed.
WaitError(p) ==
    /\ Running(p) /\ pc[p] \in {"syscall", "wait"}
    /\ \A q \in Children(p) : state[q] # "ZOMBIE"
    /\ Children(p) = {} \/ killed[p] = 1
    /\ Return(p)
    /\ UNCHANGED <<table, np, cpu, scan, current_proc, nextpid, panicked>>

\* wait() goes to sleep on the process itself.
WaitSleep(p) ==
    /\ Running(p) /\ pc[p] \in {"syscall", "wait"} /\ killed[p] = 0
    /\ Children(p) # {}
    /\ \A q \in Children(p) : state[q] # "ZOMBIE"
    /\ state' = [state EXCEPT ![p] = "SLEEPING"]
    /\ chan' = [chan EXCEPT ![p] = p]
    /\ pc' = [pc EXCEPT ![p] = "wait"]
    /\ LeaveCpu(p)
    /\ UNCHANGED <<pid, parent, killed, uid, np, scan, current_proc, nextpid, panicked>>

-------------------------------------------------------------------------------
(* sys_sleep() and the clock: a sleep under another lock than ptable.lock *)

\* tickslock is held between the test of killed and sleep()'s ptable.lock.
TicksLockFree == \A p \in Slot : pc[p] # "sleepy"

\* Mutant: killed is not tested.
SleepLoop_NoTest(p) == {"user", "sleepy"}

\* sys_sleep()'s loop: the time is over, or killed is set, or sleep() is next.
SleepLoop(p) == IF killed[p] = 1 THEN {"user"} ELSE {"user", "sleepy"}

\* sys_sleep() enters its loop or comes back to it, with tickslock.
SleepCheck(p) ==
    /\ Running(p) /\ TicksLockFree
    /\ pc[p] = "dozing" \/ (pc[p] = "syscall" /\ p # initproc)
    /\ \E next \in SleepLoop(p) : pc' = [pc EXCEPT ![p] = next]
    /\ UNCHANGED <<table, np, cpu, scan, current_proc, nextpid, panicked>>

\* sleep(&ticks, &tickslock): ptable.lock is taken before tickslock is released.
SleepTicks(p) ==
    /\ Running(p) /\ pc[p] = "sleepy"
    /\ state' = [state EXCEPT ![p] = "SLEEPING"]
    /\ chan' = [chan EXCEPT ![p] = Ticks]
    /\ pc' = [pc EXCEPT ![p] = "dozing"]
    /\ LeaveCpu(p)
    /\ UNCHANGED <<pid, parent, killed, uid, np, scan, current_proc, nextpid, panicked>>

\* The clock interrupt on processor 0: wakeup(&ticks) under tickslock.
Tick ==
    /\ panicked = 0 /\ TicksLockFree
    /\ state' = Woken(state, Ticks)
    /\ UNCHANGED <<pid, parent, killed, chan, uid, pc, np, cpu, scan, current_proc, nextpid, panicked>>

-------------------------------------------------------------------------------
(* kill(), ^C, setuid() *)

\* Mutant: whatever does not run is made runnable.
Roused_Any(st) == IF st # "RUNNING" THEN "RUNNABLE" ELSE st

\* "Wake process from sleep if necessary."
Roused(st) == IF st = "SLEEPING" THEN "RUNNABLE" ELSE st

\* The body of kill(): the first slot with this pid, whatever its state.
KillPid(k) ==
    LET found == {q \in Slot : pid[q] = k}
        q == Least(found) IN
    /\ found # {}
    /\ killed' = [killed EXCEPT ![q] = 1]
    /\ state' = [state EXCEPT ![q] = Roused(@)]
    /\ UNCHANGED <<pid, parent, chan, uid, np, cpu, scan, current_proc, nextpid, panicked>>

Kill(p, k) ==
    /\ Running(p) /\ pc[p] = "syscall" /\ p # initproc
    /\ KillPid(k)
    /\ Return(p)

\* killcur(), from the keyboard interrupt.
KillCur ==
    /\ panicked = 0
    /\ current_proc # None
    /\ KillPid(pid[current_proc])
    /\ UNCHANGED pc

SetUid(p, u) ==
    /\ Running(p) /\ pc[p] = "syscall" /\ p # initproc
    /\ uid' = [uid EXCEPT ![p] = u]
    /\ Return(p)
    /\ UNCHANGED <<state, pid, parent, killed, chan, np, cpu, scan, current_proc, nextpid, panicked>>

-------------------------------------------------------------------------------
(* The scheduler *)

\* yield(), from the clock interrupt, which a held lock keeps out.
Yield(p) ==
    /\ Running(p) /\ pc[p] # "sleepy"
    /\ state' = [state EXCEPT ![p] = "RUNNABLE"]
    /\ LeaveCpu(p)
    /\ UNCHANGED <<pid, parent, killed, chan, uid, pc, np, scan, current_proc, nextpid, panicked>>

\* Mutant: the scan starts over after every process that ran.
Ready_StartsOver(c) == {q \in Slot : state[q] = "RUNNABLE"}

Ready(c) == {q \in Slot : q >= scan[c] /\ state[q] = "RUNNABLE"}

\* scheduler() from its loop variable on: switch to the next runnable process
\* (which clears its channel if it comes out of sleep()), or start over.
Scheduler(c) ==
    LET p == Least(Ready(c)) IN
    /\ panicked = 0 /\ cpu[c] = None
    /\ IF Ready(c) # {}
       THEN /\ cpu' = [cpu EXCEPT ![c] = p]
            /\ state' = [state EXCEPT ![p] = "RUNNING"]
            /\ chan' = [chan EXCEPT ![p] = None]
            /\ current_proc' = p
            /\ scan' = [scan EXCEPT ![c] = p + 1]
       ELSE /\ scan' = [scan EXCEPT ![c] = 1]
            /\ UNCHANGED <<cpu, state, chan, current_proc>>
    /\ UNCHANGED <<pid, parent, killed, uid, pc, np, nextpid, panicked>>

SysCall(p) ==
    \/ EnterSyscall(p) \/ OtherSyscall(p) \/ UserFault(p)
    \/ AllocProc(p) \/ ForkNoSlot(p) \/ ForkNoMemory(p) \/ ForkCopy(p) \/ ForkDone(p)
    \/ ExitStart(p) \/ Exit(p)
    \/ WaitReap(p) \/ WaitError(p) \/ WaitSleep(p)
    \/ SleepCheck(p) \/ SleepTicks(p)
    \/ \E k \in KillArg : Kill(p, k)
    \/ \E u \in Uid : SetUid(p, u)

Next ==
    \/ \E p \in Slot : SysCall(p) \/ Yield(p)
    \/ \E c \in CPU : Scheduler(c)
    \/ Tick
    \/ KillCur

Spec == Init /\ [][Next]_vars

-------------------------------------------------------------------------------
(* Fairness.  Interrupts keep coming, so a processor leaves user code and an   *)
(* idle one scans the table (weak).  A process that is on a processor again    *)
(* and again executes (strong: it may be preempted in between): a system call  *)
(* in the kernel goes on, a killed process takes the exit of trap(), and init  *)
(* calls wait() for ever.  Nothing makes another process call anything.        *)
GoesOn(p) ==
    \/ OtherSyscall(p) \/ (p = initproc /\ EnterSyscall(p))
    \/ ForkNoMemory(p) \/ ForkCopy(p) \/ ForkDone(p)
    \/ (killed[p] = 1 \/ pc[p] = "failed") /\ ExitStart(p)
    \/ Exit(p)
    \/ WaitReap(p) \/ WaitError(p) \/ WaitSleep(p)
    \/ pc[p] = "dozing" /\ SleepCheck(p)
    \/ SleepTicks(p)

Fairness ==
    /\ \A c \in CPU : /\ WF_vars(Scheduler(c))
                      /\ WF_vars(\E p \in Slot : cpu[c] = p /\ Yield(p))
    /\ WF_vars(Tick)
    /\ \A p \in Slot : SF_vars(GoesOn(p))

FairSpec == Spec /\ Fairness

-------------------------------------------------------------------------------
(* Properties *)

TypeOK ==
    /\ state \in [Slot -> States]
    /\ pid \in [Slot -> Nat]
    /\ parent \in [Slot -> Slot \cup {None}]
    /\ killed \in [Slot -> {0, 1}]
    /\ chan \in [Slot -> Slot \cup {None, Ticks}]
    /\ uid \in [Slot -> Uid]
    /\ pc \in [Slot -> Pcs]
    /\ np \in [Slot -> Slot \cup {None}]
    /\ cpu \in [CPU -> Slot \cup {None}]
    /\ scan \in [CPU -> Nat]
    /\ current_proc \in Slot \cup {None}
    /\ nextpid \in Nat
    /\ panicked \in {0, 1}

Live == {p \in Slot : state[p] \in {"SLEEPING", "RUNNABLE", "RUNNING"}}

\* scheduler(), sched(): a process is RUNNING exactly when it is cpu->proc of
\* some processor, and never of two (its kernel stack would be shared).
OneProcessor ==
    /\ \A p \in Slot : state[p] = "RUNNING" <=> \E c \in CPU : cpu[c] = p
    /\ \A c, d \in CPU : cpu[c] = cpu[d] /\ cpu[c] # None => c = d

\* exit() passes children to init: whoever has a parent has a live one, not
\* itself, and every process but init has a parent, so some wait() can reap it.
ParentAlive ==
    \A p \in Slot \ {initproc} :
        /\ parent[p] # None => parent[p] \in Live
        /\ state[p] \in {"SLEEPING", "RUNNABLE", "RUNNING", "ZOMBIE"} => parent[p] # None
        /\ state[p] = "UNUSED" => parent[p] = None
        /\ parent[p] # p

\* allocproc(): two slots in use never have the same pid, also after failed forks.
UniquePid ==
    \A p, q \in Slot :
        state[p] # "UNUSED" /\ state[q] # "UNUSED" /\ pid[p] = pid[q] => p = q

\* fork(): the slot of an unfinished child belongs to one forking parent.
EmbryoOwned ==
    /\ \A p \in Slot : state[p] = "EMBRYO" => \E f \in Live : np[f] = p
    /\ \A f, g \in Slot : np[f] = np[g] /\ np[f] # None => f = g

\* wait(), exit(): no exit is missed.  A process asleep in wait() has a child to
\* wait for, none of them is a zombie, and it has not been killed.
NoMissedExit ==
    \A p \in Slot : state[p] = "SLEEPING" /\ chan[p] = p =>
        /\ Children(p) # {}
        /\ \A q \in Children(p) : state[q] # "ZOMBIE"
        /\ killed[p] = 0

\* What makes the invariants above inductive: pids are below nextpid; a process
\* inside fork() and the slot it fills belong together; init is alive and has no
\* parent.
PidInv == UniquePid /\ \A p \in Slot : pid[p] < nextpid

ForkInv ==
    /\ EmbryoOwned
    /\ \A f \in Slot :
          /\ np[f] # None =>
                /\ state[f] \in {"RUNNABLE", "RUNNING"}
                /\ state[np[f]] = "EMBRYO"
                /\ parent[np[f]] = IF pc[f] = "forked" THEN f ELSE None
          /\ np[f] # None <=> pc[f] \in {"fork", "forked"}

InitInv ==
    initproc \in Live /\ parent[initproc] = None /\ pc[initproc] # "exit"

ProcInv ==
    /\ TypeOK
    /\ OneProcessor
    /\ PidInv
    /\ ForkInv
    /\ InitInv
    /\ ParentAlive
    /\ NoMissedExit

\* wait() is the only way out of ZOMBIE, and only for the parent: an exited
\* process "remains in the zombie state until its parent calls wait()".
ZombieReapedByParent ==
    [][\A q \in Slot : state[q] = "ZOMBIE" /\ state'[q] # "ZOMBIE" =>
          /\ state'[q] = "UNUSED"
          /\ state[parent[q]] = "RUNNING" /\ pc[parent[q]] \in {"syscall", "wait"}]_vars

\* scheduler(): a runnable process runs.
NoStarvation ==
    \A p \in Slot : state[p] = "RUNNABLE" ~> state[p] = "RUNNING" \/ panicked = 1

\* exit(), wait(): a wait() with a zombie child comes to its end, and by
\* ZombieReapedByParent it has reaped one then (the first in the table: the others are
\* left for the next wait()).  This holds for exits in a row before the parent runs,
\* for children that exit() passed to init while it waits, and for a parent that was
\* killed meanwhile.
WaitReturns ==
    \A p \in Slot : pc[p] = "wait" /\ Zombies(p) # {} ~> pc[p] = "user" \/ panicked = 1

\* kill(), sys_sleep(): a killed process exits, even one that decided to sleep
\* before kill() could see it asleep (the clock wakes it).
KilledExits ==
    \A p \in Slot :
        killed[p] = 1 /\ state[p] \in {"RUNNABLE", "RUNNING", "SLEEPING"}
            ~> state[p] \in {"ZOMBIE", "UNUSED"} \/ panicked = 1

-------------------------------------------------------------------------------
(* What the repository says of proc.c and the code does not do *)

\* allocproc(), kill(): a new process starts its life not killed.  kill() takes
\* "the process with the given pid", and a free slot is no process.
NewProcessNotKilled ==
    [][\A p \in Slot : state[p] = "UNUSED" /\ state'[p] = "EMBRYO" => killed'[p] = 0]_vars
===============================================================================
