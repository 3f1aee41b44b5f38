------------------------------ MODULE FileTable ------------------------------
(***************************************************************************)
(* The open files: ftable (kernel/file.c), ofile[] of each process and the *)
(* system calls on descriptors (kernel/sysfile.c), and what they do to     *)
(* pipes.  The functions map a state m, a record of                        *)
(*   ftable   [ref, type, pipe, readable, writable] of each struct file    *)
(*   pipe     [n, readopen, writeopen] of each page that holds a pipe      *)
(*   ofile    the file of each descriptor of each process, or None         *)
(*   panicked                                                              *)
(* to a state, and r gives what the C function returns.                    *)
(***************************************************************************)
EXTENDS Integers, Sequences, FiniteSets, SequencesExt

CONSTANTS NPROC, NFILE, NOFILE,
          NPIPE     \* pages that kalloc() has for pipes

None == 0
Slot == 1 .. NPROC
Fd == 0 .. NOFILE - 1

NoFile == [ref |-> 0, type |-> "FD_NONE", pipe |-> None, readable |-> FALSE, writable |-> FALSE]
NoPipe == [n |-> 0, readopen |-> FALSE, writeopen |-> FALSE]

Least(S) == CHOOSE x \in S : \A y \in S : x <= y

-------------------------------------------------------------------------------
(* kernel/file.c, kernel/pipe.c *)

\* filealloc()
Filealloc(m) ==
    LET free == {f \in 1 .. NFILE : m.ftable[f].ref = 0} IN
    IF free = {} THEN [m |-> m, r |-> None]
    ELSE [m |-> [m EXCEPT !.ftable[Least(free)].ref = 1], r |-> Least(free)]

\* Mutant: the new reference is not counted.
Filedup_Not(m, f) == m

\* filedup()
Filedup(m, f) ==
    IF m.ftable[f].ref < 1 THEN [m EXCEPT !.panicked = "filedup"]
    ELSE [m EXCEPT !.ftable[f].ref = @ + 1]

\* pipeclose()
Pipeclose(m, p, writable) ==
    IF writable THEN [m EXCEPT !.pipe[p].writeopen = FALSE] ELSE [m EXCEPT !.pipe[p].readopen = FALSE]

\* fileclose(); a struct file keeps its other fields.
Fileclose(m, f) ==
    LET left == m.ftable[f].ref - 1
        m1 == [m EXCEPT !.ftable[f] = [@ EXCEPT !.ref = left, !.type = IF left = 0 THEN "FD_NONE" ELSE @]] IN
    IF left < 0 THEN [m EXCEPT !.panicked = "fileclose"]
    ELSE IF left = 0 /\ m.ftable[f].type = "FD_PIPE"
    THEN Pipeclose(m1, m.ftable[f].pipe, m.ftable[f].writable) ELSE m1

\* pipealloc()
Pipealloc(m) ==
    LET a == Filealloc(m)
        b == Filealloc(a.m)
        free == {p \in 1 .. NPIPE : m.pipe[p] = [NoPipe EXCEPT !.n = m.pipe[p].n]}
        p == Least(free)
        End(w) == [ref |-> 1, type |-> "FD_PIPE", pipe |-> p, readable |-> ~w, writable |-> w]
        Bad == LET c == IF a.r = None THEN a.m ELSE IF b.r = None THEN Fileclose(a.m, a.r)
                        ELSE Fileclose(Fileclose(b.m, a.r), b.r) IN [m |-> c, r |-> <<>>] IN
    IF a.r = None \/ b.r = None \/ free = {} THEN Bad
    ELSE [m |-> [b.m EXCEPT !.ftable[a.r] = End(FALSE), !.ftable[b.r] = End(TRUE),
                           !.pipe[p] = [n |-> 0, readopen |-> TRUE, writeopen |-> TRUE]],
          r |-> <<a.r, b.r>>]

-------------------------------------------------------------------------------
(* kernel/sysfile.c *)

\* fdalloc()
Fdalloc(m, self, f) ==
    LET free == {fd \in Fd : m.ofile[self][fd] = None} IN
    IF free = {} THEN [m |-> m, r |-> -1]
    ELSE [m |-> [m EXCEPT !.ofile[self][Least(free)] = f], r |-> Least(free)]

\* argfd()
Argfd(m, self, fd) == fd \in Fd /\ m.ofile[self][fd] # None

\* sys_dup()
Dup(m, self, fd) ==
    LET f == m.ofile[self][fd]
        a == Fdalloc(m, self, f) IN
    IF ~Argfd(m, self, fd) \/ a.r < 0 THEN [m |-> m, r |-> -1] ELSE [m |-> Filedup(a.m, f), r |-> a.r]

\* sys_close()
Close(m, self, fd) ==
    IF ~Argfd(m, self, fd) THEN m
    ELSE Fileclose([m EXCEPT !.ofile[self][fd] = None], m.ofile[self][fd])

\* The way out of sys_pipe() without two descriptors.
PipeFailed(m, self, rf, wf, fd0) ==
    LET m1 == IF fd0 >= 0 THEN [m EXCEPT !.ofile[self][fd0] = None] ELSE m IN
    Fileclose(Fileclose(m1, rf), wf)

\* sys_pipe()
PipeCall(m, self) ==
    LET a == Pipealloc(m)
        d0 == Fdalloc(a.m, self, a.r[1])
        d1 == Fdalloc(d0.m, self, a.r[2]) IN
    IF a.r = <<>> THEN [m |-> a.m, r |-> <<>>]
    ELSE IF d0.r < 0 \/ d1.r < 0 THEN [m |-> PipeFailed(d0.m, self, a.r[1], a.r[2], d0.r), r |-> <<>>]
    ELSE [m |-> d1.m, r |-> <<d0.r, d1.r>>]

\* The end of sys_open(), when the inode has been found.
OpenInode(m, self, write) ==
    LET a == Filealloc(m)
        d == Fdalloc(a.m, self, a.r) IN
    IF a.r = None THEN [m |-> m, r |-> -1]
    ELSE IF d.r < 0 THEN [m |-> Fileclose(a.m, a.r), r |-> -1]
    ELSE [m |-> [d.m EXCEPT !.ftable[a.r] = [ref |-> 1, type |-> "FD_INODE", pipe |-> None,
                                             readable |-> ~write, writable |-> write]], r |-> d.r]

-------------------------------------------------------------------------------
(* kernel/proc.c *)

\* fork(): the child has the parent's files.
ForkFiles(m, self, child) ==
    LET Copy(s, fd) ==
            IF m.ofile[self][fd] = None THEN s
            ELSE [Filedup(s, m.ofile[self][fd]) EXCEPT !.ofile[child][fd] = m.ofile[self][fd]] IN
    FoldLeft(Copy, m, [i \in 1 .. NOFILE |-> i - 1])

\* exit(): all files are closed.
ExitFiles(m, self) ==
    LET Shut(s, fd) ==
            IF s.ofile[self][fd] = None THEN s
            ELSE [Fileclose(s, s.ofile[self][fd]) EXCEPT !.ofile[self][fd] = None] IN
    FoldLeft(Shut, m, [i \in 1 .. NOFILE |-> i - 1])
===============================================================================
