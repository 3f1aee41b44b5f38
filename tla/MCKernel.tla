-------------------------------- MODULE MCKernel --------------------------------
(***************************************************************************)
(* Memory, and the drivers of the terminal, the keyboard and the IDE disk. *)
(* They share nothing: part says which of them runs.                       *)
(***************************************************************************)
EXTENDS MCVm, Tty, Kbd, Ide

VARIABLE part

deviceVars == <<ttyVars, kbdVars, ideVars>>
kernelVars == <<vars, deviceVars, part>>

\* How much memory there is matters only to the memory.
KernelInit ==
    /\ part \in {"vm", "tty", "kbd", "ide"}
    /\ Init /\ TtyInit /\ KbdInit /\ IdeInit
    /\ part # "vm" => \A n \in Memory : npages <= n

KernelNext ==
    \/ part = "vm" /\ Next /\ UNCHANGED <<deviceVars, part>>
    \/ part = "tty" /\ TtyNext /\ UNCHANGED <<vars, kbdVars, ideVars, part>>
    \/ part = "kbd" /\ KbdNext /\ UNCHANGED <<vars, ttyVars, ideVars, part>>
    \/ part = "ide" /\ IdeNext /\ UNCHANGED <<vars, ttyVars, kbdVars, part>>

TtyStep(A) == part = "tty" /\ A /\ UNCHANGED <<vars, kbdVars, ideVars, part>>
IdeStep(A) == part = "ide" /\ A /\ UNCHANGED <<vars, ttyVars, kbdVars, part>>

\* A reader that may go on does, and readers that live keep reading; the disk finishes
\* its command and interrupts, and who was woken runs.
KernelFairness ==
    /\ \A p \in Reader :
        /\ SF_kernelVars(TtyStep(Read(p) \/ Sleep(p)))
        /\ WF_kernelVars(TtyStep(\E n \in Want : Enter(p, n)))
    /\ WF_kernelVars(IdeStep(DiskDone))
    /\ WF_kernelVars(IdeStep(\E ok \in BOOLEAN : Ideintr(ok)))
    /\ \A b \in Buf : WF_kernelVars(IdeStep(Iderw(b))) /\ WF_kernelVars(IdeStep(Woken(b)))

KernelSpec == KernelInit /\ [][KernelNext]_kernelVars /\ KernelFairness
===============================================================================
