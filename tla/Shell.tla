--------------------------------- MODULE Shell ---------------------------------
(***************************************************************************)
(* userspace/sh.c: main() reads lines, runcmd() runs a parsed command as   *)
(* processes that fork(), wait(), exit() and move descriptors around.      *)
(* Each process has the system calls it still has to make in code; a       *)
(* system call is one step, and one that blocks waits for its guard.       *)
(***************************************************************************)
EXTENDS FileTable, ShellParse

CONSTANTS Lines,      \* the lines that may be typed: sequences of tokens
          MaxLines,
          PIPESIZE,
          Program,    \* the commands found in PATH
          Existing    \* the files that can be opened for reading

SH == 1

VARIABLES
    m,          \* open files: see FileTable
    proc,       \* state, parent, code and p[] of each process
    back,       \* the processes started for a command with &
    line,       \* the line that is run
    nlines,
    nofork      \* a fork() or pipe() has failed

shVars == <<m, proc, back, line, nlines, nofork>>

Op(op, n, to) == [op |-> op, n |-> n, to |-> to]
Exit == Op("exit", 0, <<>>)
Run(cmd) == Op("run", 0, cmd)

Unused == [state |-> "UNUSED", parent |-> None, code |-> <<>>, p |-> <<>>]
Shell == [state |-> "LIVE", parent |-> None, code |-> <<Op("getcmd", 0, <<>>)>>, p |-> <<>>]

\* init opened the terminal, and may have left the file of the host name open.
ShInit ==
    /\ \E leak \in BOOLEAN :
        m = [ftable |-> [f \in 1 .. NFILE |->
                            IF f = 1 THEN [ref |-> 3, type |-> "FD_INODE", pipe |-> None, readable |-> TRUE, writable |-> TRUE]
                            ELSE IF f = 2 /\ leak THEN [ref |-> 1, type |-> "FD_INODE", pipe |-> None, readable |-> FALSE, writable |-> TRUE]
                            ELSE NoFile],
             pipe |-> [p \in 1 .. NPIPE |-> NoPipe],
             ofile |-> [q \in Slot |-> [fd \in Fd |-> IF q = SH /\ fd <= 2 THEN 1
                                                      ELSE IF q = SH /\ fd = 3 /\ leak THEN 2 ELSE None]],
             panicked |-> "no"]
    /\ proc = [q \in Slot |-> IF q = SH THEN Shell ELSE Unused]
    /\ back = {}
    /\ line = <<>>
    /\ nlines = 0
    /\ nofork = FALSE

-------------------------------------------------------------------------------
(* runcmd(): the system calls of each kind of command *)

\* Mutant: the shell keeps its write end.
ClosePipe_Read == <<Op("closep", 1, <<>>)>>

\* close(p[0]); close(p[1]);
ClosePipe == <<Op("closep", 1, <<>>), Op("closep", 2, <<>>)>>

PipeEnd(fd, end, cmd) == <<Op("close", fd, <<>>), Op("dupp", end, <<>>)>> \o ClosePipe \o <<Run(cmd)>>

\* Mutant: the shell waits for one of the two.
PipeWaits_One == <<Op("wait", 0, <<>>)>>

\* wait(); wait();
PipeWaits == <<Op("wait", 0, <<>>), Op("wait", 0, <<>>)>>

\* Mutant: a program may find descriptor 0 or 1 as the shell has it.
RedirCode_NotClosed(cmd) == <<Op("open", cmd.file, <<>>), Run(cmd.cmd)>>

RedirCode(cmd) == <<Op("close", cmd.fd, <<>>), Op("open", cmd.file, <<>>), Run(cmd.cmd)>>

Runcmd(cmd) ==
    CASE cmd.type = "EXEC" -> IF cmd.argv = <<>> THEN <<Exit>> ELSE <<Op("execv", cmd.argv[1], <<>>), Exit>>
      [] cmd.type = "REDIR" -> RedirCode(cmd)
      [] cmd.type = "LIST" -> <<Op("fork", 0, <<Run(cmd.left)>>), Op("wait", 0, <<>>), Run(cmd.right)>>
      [] cmd.type = "PIPE" ->
            <<Op("pipe", 0, <<>>), Op("fork", 0, PipeEnd(1, 2, cmd.left)), Op("fork", 0, PipeEnd(0, 1, cmd.right))>>
            \o ClosePipe \o PipeWaits \o <<Exit>>
      [] cmd.type = "BACK" -> <<Op("fork", 1, <<Run(cmd.cmd)>>), Exit>>

\* What the programs do: write two bytes, copy the input to the output, read one byte.
ProgramCode(name) ==
    CASE name = "src" -> <<Op("write", 0, <<>>), Op("write", 0, <<>>), Exit>>
      [] name = "cat" -> <<Op("read", 0, <<Op("write", 0, <<>>)>>), Exit>>
      [] OTHER -> <<Exit>>

-------------------------------------------------------------------------------
(* Steps of process q *)

Doing(q, op) == m.panicked = "no" /\ proc[q].state = "LIVE" /\ proc[q].code[1].op = op
This(q) == proc[q].code[1]
Then(q, code) == [proc EXCEPT ![q].code = code]
Going(q) == Then(q, Tail(proc[q].code))

\* main(): getcmd(), and the commands it handles itself.
Getcmd(q) ==
    /\ Doing(q, "getcmd") /\ nlines < MaxLines
    /\ nlines' = nlines + 1
    /\ \E s \in Lines :
        /\ line' = s
        /\ proc' = IF s[1] \in {"cd", "#"} THEN proc
                   ELSE IF s[1] = "exit" THEN Then(q, <<Exit>>)
                   ELSE Then(q, <<Op("fork", 0, <<Op("parse", 0, <<>>)>>), Op("wait", 0, <<>>), Op("getcmd", 0, <<>>)>>)
    /\ UNCHANGED <<m, back, nofork>>

\* runcmd(parsecmd(buf)) in the child.
Parse(q) ==
    /\ Doing(q, "parse")
    /\ LET r == ParseCmd(line) IN
       proc' = Then(q, IF r.ok THEN <<Run(r.cmd)>> ELSE <<Exit>>)
    /\ UNCHANGED <<m, back, line, nlines, nofork>>

RunStep(q) ==
    /\ Doing(q, "run")
    /\ proc' = Then(q, Runcmd(This(q).to))
    /\ UNCHANGED <<m, back, line, nlines, nofork>>

\* fork1(): the child is a copy of the process that goes its own way.
Fork(q) ==
    LET free == {s \in Slot : proc[s].state = "UNUSED"}
        child == Least(free) IN
    /\ Doing(q, "fork")
    /\ IF free = {}
       THEN proc' = Then(q, <<Exit>>) /\ nofork' = TRUE /\ UNCHANGED <<m, back>>
       ELSE /\ proc' = [Going(q) EXCEPT ![child] =
                           [state |-> "LIVE", parent |-> q, code |-> This(q).to, p |-> proc[q].p]]
            /\ m' = ForkFiles(m, q, child)
            /\ back' = IF This(q).n = 1 \/ q \in back THEN back \cup {child} ELSE back
            /\ UNCHANGED nofork
    /\ UNCHANGED <<line, nlines>>

Kids(q) == {s \in Slot : proc[s].parent = q /\ proc[s].state # "UNUSED"}
Dead(q) == {s \in Kids(q) : proc[s].state = "ZOMBIE"}
MayWait(q) == Kids(q) = {} \/ Dead(q) # {}

\* wait(): a child is a zombie, or there is no child.
Wait(q) ==
    LET dead == Dead(q) IN
    /\ Doing(q, "wait") /\ MayWait(q)
    /\ proc' = IF dead = {} THEN Going(q) ELSE [Going(q) EXCEPT ![Least(dead)] = Unused]
    /\ back' = IF dead = {} THEN back ELSE back \ {Least(dead)}
    /\ UNCHANGED <<m, line, nlines, nofork>>

\* exit(): the children go to init.
ExitStep(q) ==
    /\ Doing(q, "exit")
    /\ m' = ExitFiles(m, q)
    /\ proc' = [s \in Slot |-> IF s = q THEN [Unused EXCEPT !.state = "ZOMBIE", !.parent = proc[q].parent]
                               ELSE IF proc[s].parent = q THEN [proc[s] EXCEPT !.parent = None] ELSE proc[s]]
    /\ UNCHANGED <<back, line, nlines, nofork>>

\* init reaps what it was given (the shell itself stays, to end the behaviour).
InitReaps(q) ==
    /\ q # SH /\ proc[q].state = "ZOMBIE" /\ proc[q].parent = None
    /\ proc' = [proc EXCEPT ![q] = Unused]
    /\ back' = back \ {q}
    /\ UNCHANGED <<m, line, nlines, nofork>>

PipeStep(q) ==
    LET c == PipeCall(m, q) IN
    /\ Doing(q, "pipe")
    /\ m' = c.m
    /\ proc' = IF c.r = <<>> THEN Then(q, <<Exit>>) ELSE [Going(q) EXCEPT ![q].p = c.r]
    /\ nofork' = (nofork \/ c.r = <<>>)
    /\ UNCHANGED <<back, line, nlines>>

CloseStep(q) ==
    /\ Doing(q, "close") \/ Doing(q, "closep")
    /\ m' = Close(m, q, IF This(q).op = "close" THEN This(q).n ELSE proc[q].p[This(q).n])
    /\ proc' = Going(q)
    /\ UNCHANGED <<back, line, nlines, nofork>>

DupStep(q) ==
    /\ Doing(q, "dupp")
    /\ m' = Dup(m, q, proc[q].p[This(q).n]).m
    /\ proc' = Going(q)
    /\ UNCHANGED <<back, line, nlines, nofork>>

\* open() of a redirection: a file to be read has to exist.
OpenStep(q) ==
    LET write == line[This(q).n - 1] # "<"
        found == write \/ line[This(q).n] \in Existing
        o == OpenInode(m, q, write) IN
    /\ Doing(q, "open")
    /\ m' = IF found THEN o.m ELSE m
    /\ proc' = IF found /\ o.r >= 0 THEN Going(q) ELSE Then(q, <<Exit>>)
    /\ UNCHANGED <<back, line, nlines, nofork>>

\* execv() along PATH, and "command not found".
Execv(q) ==
    /\ Doing(q, "execv")
    /\ proc' = IF line[This(q).n] \in Program THEN Then(q, ProgramCode(line[This(q).n])) ELSE Going(q)
    /\ UNCHANGED <<m, back, line, nlines, nofork>>

-------------------------------------------------------------------------------
(* The programs: read() and write() of one byte on descriptors 0 and 1 *)

File(q, fd) == m.ftable[m.ofile[q][fd]]
IsPipe(q, fd) == File(q, fd).type = "FD_PIPE"
ThePipe(q, fd) == m.pipe[File(q, fd).pipe]

MayRead(q) == IsPipe(q, 0) => ThePipe(q, 0).n > 0 \/ ~ThePipe(q, 0).writeopen
MayWrite(q) == IsPipe(q, 1) => ThePipe(q, 1).n < PIPESIZE \/ ~ThePipe(q, 1).readopen

\* A pipe is read when it has a byte or no writer; the terminal and files are at
\* their end.
ReadStep(q) ==
    /\ Doing(q, "read") /\ MayRead(q)
    /\ IF IsPipe(q, 0) /\ ThePipe(q, 0).n > 0
       THEN /\ m' = [m EXCEPT !.pipe[File(q, 0).pipe].n = @ - 1]
            /\ proc' = Then(q, This(q).to \o proc[q].code)
       ELSE proc' = Going(q) /\ UNCHANGED m
    /\ UNCHANGED <<back, line, nlines, nofork>>

WriteStep(q) ==
    /\ Doing(q, "write") /\ MayWrite(q)
    /\ m' = IF IsPipe(q, 1) /\ ThePipe(q, 1).n < PIPESIZE THEN [m EXCEPT !.pipe[File(q, 1).pipe].n = @ + 1] ELSE m
    /\ proc' = Going(q)
    /\ UNCHANGED <<back, line, nlines, nofork>>

Step(q) ==
    \/ Parse(q) \/ RunStep(q) \/ Fork(q) \/ Wait(q) \/ ExitStep(q) \/ InitReaps(q)
    \/ PipeStep(q) \/ CloseStep(q) \/ DupStep(q) \/ OpenStep(q) \/ Execv(q)
    \/ ReadStep(q) \/ WriteStep(q)

ShNext == \E q \in Slot : Getcmd(q) \/ Step(q)

-------------------------------------------------------------------------------
(* Properties *)

\* filedup(), fileclose(), pipeclose(): a file is counted once for each descriptor, an
\* end of a pipe is open as long as a descriptor stands for it, and nothing panics.
FilesCounted ==
    /\ m.panicked = "no"
    /\ \A f \in 1 .. NFILE :
        /\ m.ftable[f].ref = Cardinality({x \in Slot \X Fd : m.ofile[x[1]][x[2]] = f})
        /\ m.ftable[f].ref = 0 <=> m.ftable[f].type = "FD_NONE"
    /\ \A p \in 1 .. NPIPE :
        /\ m.pipe[p].readopen = \E f \in 1 .. NFILE : m.ftable[f].type = "FD_PIPE" /\ m.ftable[f].pipe = p /\ m.ftable[f].readable
        /\ m.pipe[p].writeopen = \E f \in 1 .. NFILE : m.ftable[f].type = "FD_PIPE" /\ m.ftable[f].pipe = p /\ m.ftable[f].writable

\* runcmd(): a program is started with its input, output and error output and with no
\* descriptor that the shell did not have, and can read the one and write the other.
CleanExec ==
    \A q \in Slot : Doing(q, "execv") =>
        /\ proc[SH].state = "LIVE" => \A fd \in Fd \ {0, 1} : m.ofile[q][fd] = m.ofile[SH][fd]
        /\ m.ofile[q][0] # None /\ File(q, 0).readable
        /\ m.ofile[q][1] # None /\ File(q, 1).writable

\* main(), runcmd(): at the prompt only commands with & still run, unless a fork() or
\* pipe() has failed.
PromptAfterCommand ==
    Doing(SH, "getcmd") /\ ~nofork => \A q \in Slot \ {SH} : proc[q].state = "LIVE" => q \in back

\* runcmd(), pipeclose(): as long as a command runs, some process can go on, so no
\* pipeline waits for a write end that was left open.  Each step leaves less to do, so
\* every command ends.
NobodyStuck ==
    (\E q \in Slot \ {SH} : proc[q].state = "LIVE") =>
        \E q \in Slot : /\ proc[q].state = "LIVE" /\ This(q).op # "getcmd"
                        /\ This(q).op = "wait" => MayWait(q)
                        /\ This(q).op = "read" => MayRead(q)
                        /\ This(q).op = "write" => MayWrite(q)
===============================================================================
