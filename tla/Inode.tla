-------------------------------- MODULE Inode --------------------------------
(***************************************************************************)
(* kernel/fs.c: the inode cache, directories and the path walk, with the   *)
(* system calls of kernel/sysfile.c that use them, fileclose() of file.c   *)
(* and the end of exit() of proc.c.                                        *)
(*                                                                         *)
(* A step runs from one place where a process may wait (ilock() of a busy  *)
(* inode, begin_trans()) or where it takes icache.lock alone (iput()) to   *)
(* the next.  What is inside a regular file does not matter here (see      *)
(* FileData), and the log is reduced to log.busy (see Log).                *)
(***************************************************************************)
EXTENDS Integers, Sequences, FiniteSets, FiniteSetsExt, TLC

CONSTANTS Proc,
          initproc,   \* init: it stays in "/" and, once started, only forks and waits
          NInum,      \* sb.ninodes - 1: the inodes of the disk
          NINODE,     \* entries of icache
          Name,       \* names of files, besides "." and ".."
          Call,       \* the system calls that are made
          MaxCalls,   \* bound on their number
          uid,        \* the user of each process
          Tree        \* the file systems to start from: see Init

Inum == 1 .. NInum
Slot == 1 .. NINODE
None == 0           \* no process, no slot, no inode (0 is no inode number)
ROOTINO == 1
Names == Name \cup {".", ".."}

VARIABLES
    dinode,     \* the inodes on disk
    dir,        \* what the directories contain: an inode number per name
    icache,
    trans,      \* log.busy: the process that has a transaction open
    cwd, file,  \* the current directory and the open file of each process
    th,         \* where each process is, and its local variables (see Idle)
    ncalls,
    panicked

vars == <<dinode, dir, icache, trans, cwd, file, th, ncalls, panicked>>

\* ip, dp, path and name are those of the code; puts are the references that the
\* process is about to give up with iput(); k is where a path walk returns to,
\* parent tells nameiparent() from namei(), and old is the inode sys_link() links.
Idle == [pc |-> "user", call |-> [op |-> "none"], path |-> <<>>, parent |-> FALSE,
         k |-> "user", name |-> ".", ip |-> None, dp |-> None, old |-> None,
         puts |-> <<>>, back |-> "user"]

NoEntries == [n \in Names |-> None]

Init ==
    \E t \in Tree :
        /\ dinode = t.dinode
        /\ dir = t.dir
        /\ icache = [s \in Slot |->
               LET i == IF s <= Len(t.cached) THEN t.cached[s] ELSE 1 IN
               [inum |-> i, busy |-> FALSE, valid |-> s <= Len(t.cached),
                ref |-> Cardinality({p \in Proc : t.cwd[p] = s})
                        + Cardinality({p \in Proc : t.file[p] = s}),
                type |-> t.dinode[i].type, nlink |-> t.dinode[i].nlink, uid |-> 0]]
        /\ cwd = t.cwd
        /\ trans = None
        /\ file = t.file
        /\ th = [p \in Proc |-> Idle]
        /\ ncalls = 0
        /\ panicked = "no"

-------------------------------------------------------------------------------
(* The functions of fs.c, on a record m of the file system's state *)

M == [icache |-> icache, dinode |-> dinode, dir |-> dir, panicked |-> panicked]

Become(m) ==
    /\ icache' = m.icache
    /\ dinode' = m.dinode
    /\ dir' = m.dir
    /\ panicked' = m.panicked

\* panic(): the first one counts, nothing runs afterwards.
Panic(m, why) == IF m.panicked = "no" THEN [m EXCEPT !.panicked = why] ELSE m

Cached(m, i) == {s \in Slot : m.icache[s].ref > 0 /\ m.icache[s].inum = i}
Empty(m) == {s \in Slot : m.icache[s].ref = 0}

\* The entry that iget() returns: the one that is cached, or the first empty one.
IgetSlot(m, i) ==
    IF Cached(m, i) # {} THEN Min(Cached(m, i))
    ELSE IF Empty(m) # {} THEN Min(Empty(m)) ELSE None

\* A recycled entry keeps all fields but inum, ref and flags.
Iget(m, i) ==
    LET s == IgetSlot(m, i) IN
    IF s = None THEN Panic(m, "iget: no inodes")
    ELSE IF Cached(m, i) # {} THEN [m EXCEPT !.icache[s].ref = @ + 1]
    ELSE [m EXCEPT !.icache[s] =
             [@ EXCEPT !.inum = i, !.ref = 1, !.busy = FALSE, !.valid = FALSE]]

\* Mutant: the copy is not counted.
Idup_NotCounted(m, s) == m

Idup(m, s) == [m EXCEPT !.icache[s].ref = @ + 1]

\* ilock() of an entry that is not busy.
Ilock(m, s) ==
    LET e == m.icache[s]
        d == m.dinode[e.inum]
        locked == [m EXCEPT !.icache[s].busy = TRUE]
        loaded == [locked EXCEPT !.icache[s].valid = TRUE,
                      !.icache[s].type = d.type, !.icache[s].nlink = d.nlink] IN
    IF e.ref < 1 THEN Panic(m, "ilock")
    ELSE IF e.valid THEN locked
    ELSE IF d.type = "free" THEN Panic(loaded, "ilock: no type") ELSE loaded

Iunlock(m, s) ==
    IF ~m.icache[s].busy \/ m.icache[s].ref < 1 THEN Panic(m, "iunlock")
    ELSE [m EXCEPT !.icache[s].busy = FALSE]

\* log_write() only asks whether some transaction is open.
LogWrite(m) == IF trans = None THEN Panic(m, "write outside of trans") ELSE m

Iupdate(m, s) ==
    LogWrite([m EXCEPT !.dinode[m.icache[s].inum] =
                 [type |-> m.icache[s].type, nlink |-> m.icache[s].nlink]])

\* ip->nlink += k; iupdate(ip);
AddLinks(m, s, k) == Iupdate([m EXCEPT !.icache[s].nlink = @ + k], s)

\* dirlookup(): the inode number, before iget().
Entry(m, s, n) == m.dir[m.icache[s].inum][n]
Dirlookup(m, s) == IF m.icache[s].type # "dir" THEN Panic(m, "dirlookup not DIR") ELSE m

\* The end of dirlink(), and the erasure of an entry in sys_unlink(): writei().
WriteEntry(m, s, n, i) == LogWrite([m EXCEPT !.dir[m.icache[s].inum][n] = i])

Free(m) == {i \in Inum : m.dinode[i].type = "free"}

\* ialloc() up to iget(): memset() and the type.
Ialloc(m, type) ==
    IF Free(m) = {} THEN Panic(m, "ialloc: no inodes")
    ELSE LogWrite([m EXCEPT !.dinode[Min(Free(m))] = [type |-> type, nlink |-> 0],
                            !.dir[Min(Free(m))] = NoEntries])

Isdirempty(m, s) == \A n \in Name : Entry(m, s, n) = None

-------------------------------------------------------------------------------
(* iput(), begin_trans() and commit_trans() *)

\* p goes on: nothing else runs after a panic, and iput() comes first.
At(p, pc) == panicked = "no" /\ th[p].puts = <<>> /\ th[p].pc = pc

Unlocked(s) == ~icache[s].busy

\* The local variables that change.
Set(p, r) == th' = [th EXCEPT ![p] = r @@ @]
Return(p, puts) == Set(p, [puts |-> puts] @@ Idle)

Rest == <<trans, cwd, file, ncalls>>


LastLink(e) == e.ref = 1 /\ e.valid /\ e.nlink = 0

\* iput() up to the release of icache.lock: the reference is gone, or the inode
\* is to be freed.
Iput(p) ==
    LET s == Head(th[p].puts) IN
    /\ panicked = "no" /\ th[p].puts # <<>> /\ th[p].pc # "free"
    /\ IF LastLink(icache[s])
       THEN /\ Become(IF icache[s].busy THEN Panic(M, "iput busy")
                      ELSE [M EXCEPT !.icache[s].busy = TRUE])
            /\ Set(p, [pc |-> "free", back |-> th[p].pc])
       ELSE /\ Become([M EXCEPT !.icache[s].ref = @ - 1])
            /\ Set(p, [puts |-> Tail(th[p].puts)])
    /\ UNCHANGED Rest

\* The rest of iput(): itrunc(), type = 0, iupdate(), flags = 0.
IputFree(p) ==
    LET s == Head(th[p].puts)
        freed == Iupdate([M EXCEPT !.icache[s].type = "free",
                                   !.dir[icache[s].inum] = NoEntries], s) IN
    /\ panicked = "no" /\ th[p].pc = "free"
    /\ Become([freed EXCEPT !.icache[s].busy = FALSE, !.icache[s].valid = FALSE,
                            !.icache[s].ref = @ - 1])
    /\ Set(p, [pc |-> th[p].back, puts |-> Tail(th[p].puts)])
    /\ UNCHANGED Rest

\* begin_trans(), in the calls that open a transaction.
Begins == {<<"link", "link.inc">>, <<"unlink", "unlink.dir">>, <<"create", "create.walk">>,
           <<"close", "close.put">>}

Begin(p) ==
    /\ \E b \in Begins : At(p, b[1]) /\ Set(p, [pc |-> b[2]])
    /\ trans = None
    /\ th[p].pc = "create" \/ th[p].ip # None
    /\ trans' = p
    /\ UNCHANGED <<dinode, dir, icache, cwd, file, ncalls, panicked>>

\* commit_trans() at the end of a call; exit() goes on.
Commit(p) ==
    /\ At(p, "commit")
    /\ trans' = None
    /\ IF th[p].call.op = "exit" THEN Set(p, [pc |-> "exit"]) ELSE Return(p, <<>>)
    /\ UNCHANGED <<dinode, dir, icache, cwd, file, ncalls, panicked>>

-------------------------------------------------------------------------------
(* namex() *)

\* The local variables and the state at the start of a walk of path to k.
Start(p, path, parent, k) ==
    [path |-> path.elems, parent |-> parent, k |-> k, pc |-> "walk",
     ip |-> IF path.abs THEN IgetSlot(M, ROOTINO) ELSE cwd[p]]
Started(p, path) == IF path.abs THEN Iget(M, ROOTINO) ELSE Idup(M, cwd[p])

\* A walk starts in the middle of a call.
WalkFrom(p, pc, path, parent, k) ==
    /\ At(p, pc)
    /\ Become(Started(p, path))
    /\ Set(p, Start(p, path, parent, k))
    /\ UNCHANGED Rest

\* One round of the loop, under the lock of ip.
WalkElem(p) ==
    LET t == th[p]
        s == t.ip
        m == Ilock(M, s)
        i == Entry(m, s, Head(t.path))
        next == Iget(m, i) IN
    /\ At(p, "walk") /\ t.path # <<>> /\ Unlocked(s)
    /\ \/ /\ m.icache[s].type # "dir"
          /\ Become(Iunlock(m, s))
          /\ Set(p, [pc |-> t.k, ip |-> None, puts |-> <<s>>])
       \/ /\ m.icache[s].type = "dir" /\ t.parent /\ Len(t.path) = 1
          /\ Become(Iunlock(m, s))
          /\ Set(p, [pc |-> t.k, name |-> Head(t.path)])
       \/ /\ m.icache[s].type = "dir" /\ ~(t.parent /\ Len(t.path) = 1)
          /\ Become(Iunlock(IF i = None THEN m ELSE next, s))
          /\ Set(p, [puts |-> <<s>>, path |-> Tail(t.path)]
                    @@ IF i = None THEN [pc |-> t.k, ip |-> None]
                                   ELSE [ip |-> IgetSlot(m, i)])
    /\ UNCHANGED Rest

\* The path is used up.
WalkEnd(p) ==
    LET t == th[p] IN
    /\ At(p, "walk") /\ t.path = <<>>
    /\ Set(p, [pc |-> t.k] @@ IF t.parent THEN [puts |-> <<t.ip>>, ip |-> None] ELSE <<>>)
    /\ UNCHANGED <<dinode, dir, icache, trans, cwd, file, ncalls, panicked>>

Walk(p) == WalkElem(p) \/ WalkEnd(p)

\* namei() or nameiparent() returned 0 and the call has nothing to undo.
NotFound(p) ==
    /\ \E pc \in {"link", "unlink", "chdir", "open.old"} : At(p, pc)
    /\ th[p].ip = None
    /\ Return(p, <<>>)
    /\ UNCHANGED <<dinode, dir, icache, trans, cwd, file, ncalls, panicked>>
-------------------------------------------------------------------------------
(* sys_link() *)

MayLink(type) == type # "dir"

\* ip->nlink++, before the new name is looked up.
LinkInc(p) ==
    LET s == th[p].ip
        m == Ilock(M, s) IN
    /\ At(p, "link.inc") /\ Unlocked(s)
    /\ IF MayLink(m.icache[s].type)
       THEN Become(Iunlock(AddLinks(m, s, 1), s))
            /\ Set(p, [pc |-> "link.walk", ip |-> None, old |-> s])
       ELSE Become(Iunlock(m, s)) /\ Set(p, [pc |-> "commit", ip |-> None, puts |-> <<s>>])
    /\ UNCHANGED Rest

\* dirlink(dp, name, ip->inum)
LinkDir(p) ==
    LET s == th[p].ip
        m == Dirlookup(Ilock(M, s), s)
        i == Entry(m, s, th[p].name) IN
    /\ At(p, "link.dir") /\ s # None /\ Unlocked(s)
    /\ IF i # None
       THEN /\ Become(Iget(m, i))
            /\ Set(p, [pc |-> "link.exists", ip |-> None, dp |-> s, puts |-> <<IgetSlot(m, i)>>])
       ELSE /\ Become(Iunlock(WriteEntry(m, s, th[p].name, icache[th[p].old].inum), s))
            /\ Set(p, [pc |-> "commit", ip |-> None, old |-> None, puts |-> <<s, th[p].old>>])
    /\ UNCHANGED Rest

\* dirlink() failed: iunlockput(dp).
LinkExists(p) ==
    /\ At(p, "link.exists")
    /\ Become(Iunlock(M, th[p].dp))
    /\ Set(p, [pc |-> "link.dir", dp |-> None, puts |-> <<th[p].dp>>])
    /\ UNCHANGED Rest

\* bad:, with no directory to link into.
LinkBad(p) ==
    LET s == th[p].old IN
    /\ At(p, "link.dir") /\ th[p].ip = None /\ Unlocked(s)
    /\ Become(Iunlock(AddLinks(Ilock(M, s), s, -1), s))
    /\ Set(p, [pc |-> "commit", old |-> None, puts |-> <<s>>])
    /\ UNCHANGED Rest

Link(p) ==
    \/ LinkInc(p) \/ LinkDir(p) \/ LinkExists(p) \/ LinkBad(p)
    \/ At(p, "link.walk") /\ WalkFrom(p, "link.walk", th[p].call.new, TRUE, "link.dir")

-------------------------------------------------------------------------------
(* sys_unlink() *)

\* The directory is locked and the entry looked up.
UnlinkDir(p) ==
    LET s == th[p].ip
        m == Dirlookup(Ilock(M, s), s)
        i == Entry(m, s, th[p].name) IN
    /\ At(p, "unlink.dir") /\ Unlocked(s)
    /\ IF th[p].name \in {".", ".."} \/ i = None
       THEN Become(m) /\ Set(p, [pc |-> "unlink.bad", ip |-> None, dp |-> s])
       ELSE Become(Iget(m, i)) /\ Set(p, [pc |-> "unlink.ip", ip |-> IgetSlot(m, i), dp |-> s])
    /\ UNCHANGED Rest

MayUnlink(p, m, s) ==
    /\ m.icache[s].type = "dir" => Isdirempty(m, s)
    /\ uid[p] = 0 \/ m.icache[s].uid = uid[p]

\* The file is locked, and its entry erased if it may be.
UnlinkIp(p) ==
    LET s == th[p].ip
        d == th[p].dp
        m == Ilock(M, s)
        erased == WriteEntry(m, d, th[p].name, None)
        counted == IF m.icache[s].type = "dir" THEN AddLinks(erased, d, -1) ELSE erased IN
    /\ At(p, "unlink.ip") /\ Unlocked(s)
    /\ IF m.icache[s].nlink < 1
       THEN Become(Panic(m, "unlink: nlink < 1")) /\ UNCHANGED th
       ELSE IF ~MayUnlink(p, m, s)
       THEN Become(Iunlock(m, s)) /\ Set(p, [pc |-> "unlink.bad", ip |-> None, puts |-> <<s>>])
       ELSE Become(Iunlock(counted, d)) /\ Set(p, [pc |-> "unlink.done", dp |-> None, puts |-> <<d>>])
    /\ UNCHANGED Rest

\* Mutant: the directory stays locked.
UnlinkBad_Locked(p) ==
    /\ At(p, "unlink.bad")
    /\ Set(p, [pc |-> "commit", dp |-> None, puts |-> <<th[p].dp>>])
    /\ UNCHANGED <<dinode, dir, icache, trans, cwd, file, ncalls, panicked>>

UnlinkBad(p) ==
    /\ At(p, "unlink.bad")
    /\ Become(Iunlock(M, th[p].dp))
    /\ Set(p, [pc |-> "commit", dp |-> None, puts |-> <<th[p].dp>>])
    /\ UNCHANGED Rest

UnlinkDone(p) ==
    /\ At(p, "unlink.done")
    /\ Become(Iunlock(AddLinks(M, th[p].ip, -1), th[p].ip))
    /\ Set(p, [pc |-> "commit", ip |-> None, puts |-> <<th[p].ip>>])
    /\ UNCHANGED Rest

Unlink(p) == UnlinkDir(p) \/ UnlinkIp(p) \/ UnlinkBad(p) \/ UnlinkDone(p)

-------------------------------------------------------------------------------
(* create(), for mkdir(), mknod(), touch() and open() *)

\* The directory is locked: the name exists, or an inode is allocated for it.
CreateDir(p) ==
    LET s == th[p].ip
        m == Dirlookup(Ilock(M, s), s)
        i == Entry(m, s, th[p].name)
        new == Ialloc(m, th[p].call.type)
        j == Min(Free(m)) IN
    /\ At(p, "create.dir") /\ s # None /\ Unlocked(s)
    /\ IF i # None
       THEN /\ Become(Iunlock(Iget(m, i), s))
            /\ Set(p, [pc |-> "create.old", ip |-> IgetSlot(m, i), puts |-> <<s>>])
       ELSE IF Free(m) = {}
       THEN Become(new) /\ UNCHANGED th
       ELSE /\ Become(Iget(new, j))
            /\ Set(p, [pc |-> "create.new", ip |-> IgetSlot(new, j), dp |-> s])
    /\ UNCHANGED Rest

\* The name exists: only a regular file will do.
CreateOld(p) ==
    LET s == th[p].ip
        m == Ilock(M, s) IN
    /\ At(p, "create.old") /\ Unlocked(s)
    /\ IF th[p].call.type = "file" /\ m.icache[s].type = "file"
       THEN Become(m) /\ Set(p, [pc |-> "created"])
       ELSE Become(Iunlock(m, s)) /\ Set(p, [pc |-> "created", ip |-> None, puts |-> <<s>>])
    /\ UNCHANGED Rest

\* Mutant: no dp->nlink++ for "..".
LinkParent_Not(m, d) == m

\* dp->nlink++; iupdate(dp);
LinkParent(m, d) == AddLinks(m, d, 1)

\* The new inode is locked and filled in, then entered in its directory.
CreateNew(p) ==
    LET s == th[p].ip
        d == th[p].dp
        i == icache[s].inum
        ip == AddLinks([Ilock(M, s) EXCEPT !.icache[s].uid = uid[p]], s, 1)
        dots == IF th[p].call.type # "dir" THEN ip
                ELSE WriteEntry(WriteEntry(LinkParent(ip, d), s, ".", i), s, "..", icache[d].inum) IN
    /\ At(p, "create.new") /\ Unlocked(s)
    /\ Become(Iunlock(WriteEntry(dots, d, th[p].name, i), d))
    /\ Set(p, [pc |-> "created", dp |-> None, puts |-> <<d>>])
    /\ UNCHANGED Rest

\* create() returned 0, or an inode that is still locked: sys_open() commits first,
\* the others unlock first.
Created(p) ==
    LET s == th[p].ip IN
    /\ \/ At(p, "created")
       \/ At(p, "create.dir") /\ s = None
    /\ IF th[p].call.op = "open"
       THEN /\ trans' = None
            /\ IF s = None THEN Return(p, <<>>) ELSE Set(p, [pc |-> "open.file"])
            /\ UNCHANGED <<dinode, dir, icache, panicked>>
       ELSE /\ IF s = None THEN Become(M) ELSE Become(Iunlock(M, s))
            /\ Set(p, [pc |-> "commit", ip |-> None, puts |-> IF s = None THEN <<>> ELSE <<s>>])
            /\ UNCHANGED trans
    /\ UNCHANGED <<cwd, file, ncalls>>

Create(p) ==
    \/ CreateDir(p) \/ CreateOld(p) \/ CreateNew(p) \/ Created(p)
    \/ At(p, "create.walk") /\ WalkFrom(p, "create.walk", th[p].call.path, TRUE, "create.dir")

-------------------------------------------------------------------------------
(* sys_open() *)

\* The first lookup only asks whether the path is a device.
OpenType(p) ==
    LET s == th[p].ip
        m == Ilock(M, s)
        dev == s # None /\ m.icache[s].type = "dev" IN
    /\ At(p, "open") /\ (s # None => Unlocked(s))
    /\ IF s = None THEN Become(M) ELSE Become(Iunlock(m, s))
    /\ Set(p, [pc |-> IF th[p].call.creat /\ ~dev THEN "create" ELSE "open.again",
               ip |-> None, puts |-> IF s = None THEN <<>> ELSE <<s>>])
    /\ UNCHANGED Rest

\* The second lookup, without O_CREAT.
OpenOld(p) ==
    LET s == th[p].ip
        m == Ilock(M, s) IN
    /\ At(p, "open.old") /\ s # None /\ Unlocked(s)
    /\ IF m.icache[s].type = "dir" /\ ~th[p].call.rdonly
       THEN Become(Iunlock(m, s)) /\ Return(p, <<s>>)
       ELSE Become(m) /\ Set(p, [pc |-> "open.file"])
    /\ UNCHANGED Rest

\* filealloc() and fdalloc(): a process has one descriptor in this model.
OpenFile(p) ==
    LET s == th[p].ip IN
    /\ At(p, "open.file")
    /\ Become(Iunlock(M, s))
    /\ IF file[p] = None
       THEN file' = [file EXCEPT ![p] = s] /\ Return(p, <<>>)
       ELSE Return(p, <<s>>) /\ UNCHANGED file
    /\ UNCHANGED <<trans, cwd, ncalls>>

Open(p) ==
    \/ OpenType(p) \/ OpenOld(p) \/ OpenFile(p)
    \/ At(p, "open.again") /\ WalkFrom(p, "open.again", th[p].call.path, FALSE, "open.old")

-------------------------------------------------------------------------------
(* sys_chdir(), fileclose(), exit() *)

Chdir(p) ==
    LET s == th[p].ip
        m == Ilock(M, s) IN
    /\ At(p, "chdir") /\ s # None /\ Unlocked(s)
    /\ Become(Iunlock(m, s))
    /\ IF m.icache[s].type = "dir"
       THEN cwd' = [cwd EXCEPT ![p] = s] /\ Return(p, <<cwd[p]>>)
       ELSE Return(p, <<s>>) /\ UNCHANGED cwd
    /\ UNCHANGED <<trans, file, ncalls>>

\* iput(ff.ip), between begin_trans() and commit_trans().
ClosePut(p) ==
    /\ At(p, "close.put")
    /\ Set(p, [pc |-> "commit", ip |-> None, puts |-> <<th[p].ip>>])
    /\ UNCHANGED <<dinode, dir, icache, trans, cwd, file, ncalls, panicked>>

\* iput(proc->cwd), outside any transaction of its own.
ExitCwd(p) ==
    /\ At(p, "exit")
    /\ Set(p, [pc |-> "zombie", puts |-> <<cwd[p]>>])
    /\ cwd' = [cwd EXCEPT ![p] = None]
    /\ UNCHANGED <<dinode, dir, icache, trans, file, ncalls, panicked>>

-------------------------------------------------------------------------------
\* A system call begins: most of them with a path walk.
FirstWalk == [open |-> FALSE, link |-> FALSE, chdir |-> FALSE, unlink |-> TRUE]

StartCall(p, c) ==
    /\ At(p, "user") /\ ncalls < MaxCalls
    /\ ncalls' = ncalls + 1
    /\ \/ /\ c.op \in DOMAIN FirstWalk
          /\ Become(Started(p, c.path))
          /\ Set(p, [call |-> c] @@ Start(p, c.path, FirstWalk[c.op], c.op))
          /\ UNCHANGED file
       \/ /\ c.op = "create"
          /\ Set(p, [call |-> c, pc |-> "create"])
          /\ UNCHANGED <<dinode, dir, icache, panicked, file>>
       \/ /\ c.op \in {"close", "exit"} /\ (c.op = "close" => file[p] # None)
          /\ Set(p, [call |-> c, ip |-> file[p],
                     pc |-> IF file[p] = None THEN "exit" ELSE "close"])
          /\ file' = [file EXCEPT ![p] = None]
          /\ UNCHANGED <<dinode, dir, icache, panicked>>
    /\ UNCHANGED <<trans, cwd>>

Step(p) ==
    \/ Iput(p) \/ IputFree(p) \/ Begin(p) \/ Commit(p) \/ Walk(p) \/ NotFound(p)
    \/ Link(p) \/ Unlink(p) \/ Create(p) \/ Open(p)
    \/ Chdir(p) \/ ClosePut(p) \/ ExitCwd(p)

Next == \E p \in Proc \ {initproc} : Step(p) \/ \E c \in Call : StartCall(p, c)

Spec == Init /\ [][Next]_vars

-------------------------------------------------------------------------------
(* Properties *)

\* The references a process holds, with how often it holds each.
Held(p, s) ==
    Cardinality({v \in {"ip", "dp", "old"} : th[p][v] = s})
    + Cardinality({n \in DOMAIN th[p].puts : th[p].puts[n] = s})
    + (IF cwd[p] = s THEN 1 ELSE 0) + (IF file[p] = s THEN 1 ELSE 0)

\* Every reference is counted: none is leaked and none is given up twice.
RefExact ==
    panicked = "no" =>
        \A s \in Slot : icache[s].ref = MapThenSumSet(LAMBDA p : Held(p, s), Proc)

\* An inode is cached once, so that I_BUSY locks it, and what the cache says of an
\* unlocked inode is what the disk says.
CacheCoherent ==
    panicked = "no" =>
        /\ \A s, t \in Slot :
              icache[s].ref > 0 /\ icache[t].ref > 0 /\ icache[s].inum = icache[t].inum => s = t
        /\ \A s \in Slot :
              icache[s].ref > 0 /\ icache[s].valid /\ ~icache[s].busy =>
                  dinode[icache[s].inum] = [type |-> icache[s].type, nlink |-> icache[s].nlink]

\* fs.c: "ip->ref tracks the number of in-memory pointers to the entry", on every path
\* through the system calls that iget(), idup() and iput() are called on; and iget() and
\* iupdate() keep one copy of an inode, equal to the one on disk when it is not locked.
CacheSound == RefExact /\ CacheCoherent

\* The directories that can be reached from the root.
Below(d) == {dir[d][n] : n \in Name} \ {None}
Reachable ==
    LET R[k \in 0 .. NInum] ==
            IF k = 0 THEN {ROOTINO} ELSE R[k - 1] \cup UNION {Below(d) : d \in R[k - 1]} IN
    {d \in R[NInum] : dinode[d].type = "dir"}

Links(R, i) == {e \in R \X (Names \ {"."}) : dir[e[1]][e[2]] = i}

\* R: the reachable directories.  No link count is too low and no name leads to a free
\* inode, so nothing that can be reached is freed.  The count of the root is too low from
\* the start, as mkfs does not count the ".." of its subdirectories: what keeps the root
\* is that init is in it.
NothingLinkedIsFree(R) ==
    \A i \in Inum :
        LET n == Cardinality(Links(R, i)) IN
        n > 0 => dinode[i].type # "free" /\ (i # ROOTINO => dinode[i].nlink >= n)

\* The directories are a tree, and ".." leads to the directory that a directory is in.
DirectoriesAreATree(R) ==
    \A d \in R \ {ROOTINO} : \E e \in R \X Name :
        /\ {f \in R \X Name : dir[f[1]][f[2]] = d} = {e}
        /\ dir[d]["."] = d /\ dir[d][".."] = e[1]

\* sys_link(), sys_unlink(), create(): between transactions no link count is too low, no
\* name leads to a free inode, and the directories are a tree with their "..", whatever
\* concurrent processes make, link and remove.  This is for trees with the directories of
\* the image in the root: a parent that mkfs did not count (/usr of /usr/share) is freed
\* when such a subdirectory is removed.
TreeSound ==
    panicked = "no" /\ trans = None =>
        LET R == Reachable IN NothingLinkedIsFree(R) /\ DirectoriesAreATree(R)

PathsOf(c) == {c[f] : f \in DOMAIN c \cap {"path", "new"}}
GoesUp(p) == \E path \in PathsOf(th[p].call) : \E k \in DOMAIN path.elems : path.elems[k] = ".."

\* When each panic that does happen may: iget() finds no entry only if processes hold all
\* of them, ialloc() no inode only if none is free, and ilock() meets a freed inode only
\* in a walk through "..", of a directory that was removed and its parent after it.
\* The write outside a transaction is NoWriteOutsideTrans below.
PanicJustified(why) ==
    \/ why = "iget: no inodes" /\ \A s \in Slot : \E p \in Proc : Held(p, s) > 0
    \/ why = "ialloc: no inodes" /\ Free(M) = {}
    \/ /\ why = "ilock: no type"
       /\ \E p \in Proc : /\ GoesUp(p) /\ th[p].ip # None
                          /\ dinode[icache[th[p].ip].inum].type = "free"
    \/ why = "write outside of trans"


\* Where ilock() may wait, and for what.
LockPcs == {"walk", "link.inc", "link.dir", "unlink.dir", "unlink.ip", "create.dir",
            "create.old", "create.new", "open", "open.old", "chdir"}
WaitsFor(p) == IF th[p].ip = None THEN th[p].old ELSE th[p].ip

Waits(p) ==
    /\ th[p].puts = <<>>
    /\ \/ th[p].pc \in LockPcs /\ WaitsFor(p) # None /\ icache[WaitsFor(p)].busy
       \/ th[p].pc \in {b[1] : b \in Begins} /\ trans # None

\* namex(), sys_unlink(), create(), sys_open(): the locks of directories and files and
\* the transaction are taken in an order that never has everyone wait for everyone.
SomeoneRuns ==
    LET busy == {p \in Proc : th[p].pc \notin {"user", "zombie"}} IN
    panicked = "no" /\ busy # {} => \E p \in busy : ~Waits(p)

-------------------------------------------------------------------------------
(* What the repository says of log.c and the code does not do *)

\* log.c: "Each system call that might write the file system should be surrounded
\* with begin_trans() and commit_trans() calls", or log_write() panics.
NoWriteOutsideTrans == panicked # "write outside of trans"
===============================================================================
