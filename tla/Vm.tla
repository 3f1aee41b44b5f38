---------------------------------- MODULE Vm ----------------------------------
(***************************************************************************)
(* kernel/kalloc.c, vm.c and exec.c, with what fork(), growproc(), wait(), *)
(* allocproc() and userinit() of proc.c do with memory: which page is      *)
(* where, also when memory runs out.                                       *)
(*                                                                         *)
(* An operation is one step: page tables are private to a process until it *)
(* is a zombie, and others only take pages from the free list meanwhile,   *)
(* which moves the point where memory runs out; all points occur here.     *)
(* Which free page kalloc() returns does not matter: the least one.        *)
(***************************************************************************)
EXTENDS Integers, Sequences, FiniteSets, FiniteSetsExt, SequencesExt

CONSTANTS NPROC,
          PGSIZE,          \* bytes of a page
          NPTENTRIES,      \* pages that a page table maps
          UserTables,      \* page tables below KERNBASE
          KernTables,      \* page tables that kmap needs
          Memory,          \* how many pages kinit1() and kinit2() may find
          Program,         \* the files that exec() is called for, with the arguments
          MAXARG,          \* most arguments of exec()
          Increment,       \* arguments of sbrk()
          Modulus,         \* 2^32: sizes are of type uint
          MaxCalls

\* A segment ends below 2^32, as in every file that the linker makes: exec() does not
\* test ph.vaddr + ph.memsz for overflow.
ASSUME ProgramAssumption ==
    \A prog \in Program : \A k \in DOMAIN prog.segs :
        prog.segs[k].vaddr + prog.segs[k].memsz < Modulus

Slot == 1 .. NPROC
None == 0
KERNBASE == UserTables * NPTENTRIES * PGSIZE
Vpn == 0 .. UserTables * NPTENTRIES - 1
Pde == 0 .. UserTables + KernTables - 1
KernPde == UserTables .. UserTables + KernTables - 1
TEXT == 9        \* what loaduvm() reads from a file

VARIABLES
    kmem,       \* the pages on the free list
    twice,      \* the pages freed while they were free
    content,    \* what is in each page
    proc,       \* struct proc: state, kstack, sz, and the page table (see NoDir)
    nopt,       \* mappages() has failed, as there was no page for a page table
    npages, ncalls, panicked

vars == <<kmem, twice, content, proc, nopt, npages, ncalls, panicked>>

\* A page directory: its page, the page tables, the user pages, and those
\* of them that the user may not touch.
NoDir == [page |-> None, pde |-> [e \in Pde |-> None], pte |-> [v \in Vpn |-> None], kern |-> {}]
Unused == [state |-> "unused", kstack |-> None, sz |-> 0, dir |-> NoDir]

-------------------------------------------------------------------------------
(* The allocator, on a record m of the memory; m.dir is the page directory *)
(* that is worked on, m.ret what the function returns.                     *)

Page(m) == IF m.kmem = {} THEN None ELSE Min(m.kmem)
Kalloc(m) == [m EXCEPT !.kmem = @ \ {Page(m)}]

\* memset(v, 1, PGSIZE), and the page is the first of the list.
Kfree(m, v) ==
    [m EXCEPT !.twice = IF v \in m.kmem THEN @ \cup {v} ELSE @,
              !.content[v] = 1, !.kmem = @ \cup {v}]

Panic(m, why) == IF m.panicked = "no" THEN [m EXCEPT !.panicked = why] ELSE m

\* walkpgdir(pgdir, va, 1), for the page table e: m.ret says whether there is one.
Walkpgdir(m, e) ==
    IF m.dir.pde[e] # None THEN [m EXCEPT !.ret = 1]
    ELSE IF Page(m) = None THEN [m EXCEPT !.ret = 0, !.nopt = TRUE]
    ELSE [Kalloc(m) EXCEPT !.dir.pde[e] = Page(m), !.ret = 1]

\* mappages() of one user page; panic("remap").
Mappage(m, v, pa) ==
    LET w == Walkpgdir(m, v \div NPTENTRIES) IN
    IF w.ret = 0 THEN w
    ELSE IF w.dir.pte[v] # None THEN Panic(w, "remap")
    ELSE [w EXCEPT !.dir.pte[v] = pa]

\* setupkvm(): the kernel's page tables, of which a failure loses those it had.
Setupkvm(m) ==
    LET step(s, e) == IF s.ret = 0 THEN s ELSE Walkpgdir(s, e)
        all == FoldLeft(step, [Kalloc(m) EXCEPT !.dir = [NoDir EXCEPT !.page = Page(m)], !.ret = 1],
                        SetToSortSeq(KernPde, <)) IN
    IF Page(m) = None THEN [m EXCEPT !.dir = NoDir, !.ret = 0]
    ELSE IF all.ret = 0 THEN [all EXCEPT !.dir = NoDir] ELSE all

\* The user pages from PGROUNDUP(from) up to to, in the order of the loops.
Pages(from, to) ==
    LET first == (from + PGSIZE - 1) \div PGSIZE
        n == (to + PGSIZE - 1) \div PGSIZE - first IN
    [k \in 1 .. (IF n > 0 THEN n ELSE 0) |-> first + k - 1]

\* Mutant: the page table entry stays.
Unmap_Not(m, v) == Kfree(m, m.dir.pte[v])

\* kfree(v); *pte = 0;
Unmap(m, v) == [Kfree(m, m.dir.pte[v]) EXCEPT !.dir.pte[v] = None, !.dir.kern = @ \ {v}]

\* Where there is no page table, the loop skips as many pages as one maps.
Deallocuvm(m, oldsz, newsz) ==
    LET step(s, v) ==
            IF v < s.next THEN s
            ELSE IF s.m.dir.pde[v \div NPTENTRIES] = None THEN [s EXCEPT !.next = v + NPTENTRIES]
            ELSE IF s.m.dir.pte[v] = None THEN s ELSE [s EXCEPT !.m = Unmap(@, v)] IN
    IF newsz >= oldsz THEN [m EXCEPT !.ret = oldsz]
    ELSE [FoldLeft(step, [m |-> m, next |-> 0], Pages(newsz, oldsz)).m EXCEPT !.ret = newsz]

\* allocuvm() when kalloc() returns 0.
Undo(m, newsz, oldsz) == Deallocuvm(m, newsz, oldsz)

\* The result of mappages() is ignored.
Allocuvm(m, oldsz, newsz) ==
    LET step(s, v) ==
            IF s.ret = 0 THEN s
            ELSE IF Page(s) = None THEN [Undo(s, newsz, oldsz) EXCEPT !.ret = 0]
            ELSE [Mappage([Kalloc(s) EXCEPT !.content[Page(s)] = 0], v, Page(s)) EXCEPT !.ret = newsz]
    IN IF newsz >= KERNBASE THEN [m EXCEPT !.ret = 0]
       ELSE IF newsz < oldsz THEN [m EXCEPT !.ret = oldsz]
       ELSE FoldLeft(step, [m EXCEPT !.ret = newsz], Pages(oldsz, newsz))

\* freevm(): the user pages, the page tables, the directory.
Freevm(m) ==
    LET user == Deallocuvm(m, KERNBASE, 0)
        step(s, e) == IF s.dir.pde[e] = None THEN s ELSE Kfree(s, s.dir.pde[e])
        tables == FoldLeft(step, user, SetToSortSeq(Pde, <)) IN
    [Kfree(tables, m.dir.page) EXCEPT !.dir = NoDir]

\* Mutant: the child shares the pages of its parent.
CopyPage_Shared(m, v, pa) == Mappage(m, v, pa)

\* kalloc(), memmove(), mappages()
CopyPage(m, v, pa) ==
    Mappage([Kalloc(m) EXCEPT !.content[Page(m)] = m.content[pa]], v, Page(m))

\* copyuvm(): a failure of mappages() loses the page that was not mapped.
Copyuvm(m, from, sz) ==
    LET fresh == Setupkvm(m)
        step(s, v) ==
            IF s.ret = 0 THEN s
            ELSE IF from.pte[v] = None THEN Panic(s, "copyuvm: page not present")
            ELSE IF Page(s) = None THEN [Freevm(s) EXCEPT !.ret = 0]
            ELSE LET c == CopyPage(s, v, from.pte[v]) IN
                 IF c.ret = 0 THEN [Freevm(c) EXCEPT !.ret = 0]
                 ELSE [c EXCEPT !.dir.kern = IF v \in from.kern THEN @ \cup {v} ELSE @]
    IN IF fresh.ret = 0 THEN fresh ELSE FoldLeft(step, fresh, Pages(0, sz))

-------------------------------------------------------------------------------
(* exec() *)

\* loaduvm(): readi() into each page.  Where the file is not complete, it ends within the
\* last page of the segment.
Loaduvm(m, seg) ==
    LET load(s, v) ==
            IF s.dir.pte[v] = None THEN Panic(s, "loaduvm: address should exist")
            ELSE [s EXCEPT !.content[s.dir.pte[v]] = TEXT]
        l == FoldLeft(load, m, Pages(seg.vaddr, seg.vaddr + seg.filesz)) IN
    IF seg.vaddr % PGSIZE # 0 THEN Panic(m, "loaduvm: addr must be page aligned")
    ELSE [l EXCEPT !.ret = IF seg.complete THEN 1 ELSE 0]

\* A segment: its header, allocuvm(), then loaduvm().
LoadSegment(m, seg) ==
    LET a == Allocuvm(m, m.sz, (seg.vaddr + seg.memsz) % Modulus) IN
    IF ~seg.header \/ seg.memsz < seg.filesz THEN [m EXCEPT !.ret = 0]
    ELSE IF a.ret = 0 THEN a ELSE Loaduvm([a EXCEPT !.sz = a.ret], seg)

\* Two pages at the next boundary: clearpteu() of the first, the stack in the second.
AddStack(m) ==
    LET top == ((m.sz + PGSIZE - 1) \div PGSIZE) * PGSIZE
        a == Allocuvm(m, top, top + 2 * PGSIZE)
        guard == top \div PGSIZE IN
    IF a.ret = 0 THEN a
    ELSE IF a.dir.pde[guard \div NPTENTRIES] = None THEN Panic(a, "clearpteu")
    ELSE [a EXCEPT !.sz = a.ret, !.dir.kern = @ \cup {guard}]

\* copyout() of the arguments, downwards from the top: uva2ka() refuses the page
\* under the stack.
Copyout(m, bytes) ==
    LET pages == SetToSortSeq((m.sz - bytes) \div PGSIZE .. m.sz \div PGSIZE - 1, >)
        push(s, v) == IF s.ret = 0 \/ s.dir.pte[v] = None \/ v \in s.dir.kern
                      THEN [s EXCEPT !.ret = 0]
                      ELSE [s EXCEPT !.content[s.dir.pte[v]] = TEXT] IN
    IF bytes > m.sz THEN [m EXCEPT !.ret = 0] ELSE FoldLeft(push, [m EXCEPT !.ret = 1], pages)

\* bad:
Bad(m) == IF m.dir.page = None THEN m ELSE Freevm(m)

\* The new address space of a program, or ret = 0.
Load(m, prog) ==
    LET kvm == Setupkvm(m)
        segment(s, seg) == IF s.ret = 0 THEN s ELSE LoadSegment(s, seg)
        text == FoldLeft(segment, [kvm EXCEPT !.sz = 0], prog.segs)
        stack == AddStack(text)
        args == Copyout(stack, prog.argbytes) IN
    IF ~prog.elf THEN [m EXCEPT !.ret = 0, !.dir = NoDir]
    ELSE IF kvm.ret = 0 THEN kvm
    ELSE IF text.ret = 0 THEN text
    ELSE IF stack.ret = 0 THEN stack
    ELSE IF prog.argc > MAXARG THEN [args EXCEPT !.ret = 0] ELSE args

-------------------------------------------------------------------------------
(* Processes *)

M == [kmem |-> kmem, twice |-> twice, content |-> content, nopt |-> nopt,
      panicked |-> panicked, dir |-> NoDir, ret |-> 1, sz |-> 0]

Become(m) ==
    /\ kmem' = m.kmem /\ twice' = m.twice /\ content' = m.content
    /\ nopt' = m.nopt /\ panicked' = m.panicked

\* A panic in the middle: nothing runs afterwards.
Halt(m) ==
    /\ panicked' = m.panicked /\ nopt' = m.nopt
    /\ UNCHANGED <<kmem, twice, content, proc>>

\* userinit(), after freerange(): allocproc(), setupkvm() and inituvm().
Boot(n) ==
    LET m == [kmem |-> 1 .. n, twice |-> {}, content |-> [p \in 1 .. n |-> 1], nopt |-> FALSE,
              panicked |-> "no", dir |-> NoDir, ret |-> 1, sz |-> 0]
        kvm == Setupkvm(Kalloc(m)) IN
    [Mappage([Kalloc(kvm) EXCEPT !.content[Page(kvm)] = TEXT], 0, Page(kvm)) EXCEPT !.sz = PGSIZE]

Init ==
    \E n \in Memory :
        LET b == Boot(n) IN
        /\ kmem = b.kmem /\ twice = b.twice /\ content = b.content
        /\ nopt = FALSE /\ panicked = "no"
        /\ proc = [s \in Slot |-> IF s # 1 THEN Unused
                       ELSE [state |-> "live", kstack |-> 1, sz |-> b.sz, dir |-> b.dir]]
        /\ npages = n
        /\ ncalls = 0

Call(s) ==
    /\ panicked = "no" /\ proc[s].state = "live" /\ ncalls < MaxCalls
    /\ ncalls' = ncalls + 1
    /\ UNCHANGED npages

\* fork(): allocproc() takes a kernel stack, which a failing copyuvm() gives back.
Fork(s, t) ==
    LET stack == Page(M)
        c == Copyuvm(Kalloc(M), proc[s].dir, proc[s].sz) IN
    /\ Call(s) /\ proc[t].state = "unused"
    /\ IF stack = None THEN UNCHANGED <<kmem, twice, content, nopt, panicked, proc>>
       ELSE IF c.panicked # "no" THEN Halt(c)
       ELSE IF c.ret = 0 THEN Become(Kfree(c, stack)) /\ UNCHANGED proc
       ELSE /\ Become(c)
            /\ proc' = [proc EXCEPT ![t] =
                   [state |-> "live", kstack |-> stack, sz |-> proc[s].sz, dir |-> c.dir]]

\* exec(): commit to the new image and free the old one, or bad.
Exec(s, prog) ==
    LET l == Load(M, prog) IN
    /\ Call(s)
    /\ IF l.panicked # "no" THEN Halt(l)
       ELSE IF l.ret = 0 THEN Become(Bad(l)) /\ UNCHANGED proc
       ELSE /\ Become(Freevm([l EXCEPT !.dir = proc[s].dir]))
            /\ proc' = [proc EXCEPT ![s].dir = l.dir, ![s].sz = l.sz]

\* sys_sbrk(), growproc().  Giving up everything fails after the pages are gone: the
\* process runs into a fault and can only exit.
Sbrk(s, n) ==
    LET m == [M EXCEPT !.dir = proc[s].dir]
        newsz == (proc[s].sz + n) % Modulus
        g == IF n > 0 THEN Allocuvm(m, proc[s].sz, newsz) ELSE Deallocuvm(m, proc[s].sz, newsz) IN
    /\ Call(s)
    /\ Become(g)
    /\ proc' = [proc EXCEPT ![s].dir = g.dir,
                            ![s].sz = IF g.ret = 0 THEN @ ELSE g.ret,
                            ![s].state = IF n < 0 /\ g.ret = 0 THEN "faulting" ELSE @]

\* The user stores into a page.
Store(s, v) ==
    /\ Call(s) /\ proc[s].dir.pte[v] # None /\ v \notin proc[s].dir.kern
    /\ content' = [content EXCEPT ![proc[s].dir.pte[v]] = s + 1]
    /\ UNCHANGED <<kmem, twice, nopt, panicked, proc>>

Exit(s) ==
    /\ panicked = "no" /\ s # 1 /\ proc[s].state \in {"live", "faulting"}
    /\ proc' = [proc EXCEPT ![s].state = "zombie"]
    /\ UNCHANGED <<kmem, twice, content, nopt, npages, ncalls, panicked>>

\* wait() finds the zombie: kfree(p->kstack), freevm(p->pgdir).
Reap(s) ==
    /\ panicked = "no" /\ proc[s].state = "zombie"
    /\ Become(Freevm([Kfree(M, proc[s].kstack) EXCEPT !.dir = proc[s].dir]))
    /\ proc' = [proc EXCEPT ![s] = Unused]
    /\ UNCHANGED <<npages, ncalls>>

Next ==
    \E s \in Slot :
        \/ Exit(s) \/ Reap(s)
        \/ \E t \in Slot : Fork(s, t)
        \/ \E prog \in Program : Exec(s, prog)
        \/ \E n \in Increment : Sbrk(s, n)
        \/ \E v \in Vpn : Store(s, v)

Spec == Init /\ [][Next]_vars

-------------------------------------------------------------------------------
(* Properties *)

\* Every use of a page, with its place.
Uses(s) ==
    LET d == proc[s].dir IN
    {<<s, "kstack", 0, proc[s].kstack>>, <<s, "dir", 0, d.page>>}
    \cup {<<s, "pde", e, d.pde[e]>> : e \in Pde} \cup {<<s, "pte", v, d.pte[v]>> : v \in Vpn}
AllUses == {u \in UNION {Uses(s) : s \in Slot} : u[4] # None}
InUse == {u[4] : u \in AllUses}

\* A page is in one place, on the free list or in one mapping, table or stack of one
\* process, and freed once.
PagesOwned ==
    /\ Cardinality(InUse) = Cardinality(AllUses)
    /\ InUse \cap kmem = {}
    /\ twice = {}

\* No page is lost.
NothingLost == ~nopt => InUse \cup kmem = 1 .. npages

\* The pages below sz are mapped and no others, so that copyuvm() does not panic; nor
\* does anything else, but for loaduvm() of a segment that is not page-aligned.
MappedUpToSize ==
    ~nopt =>
        /\ panicked \in {"no", "loaduvm: addr must be page aligned"}
        /\ \A s \in Slot : proc[s].state = "live" => \A v \in Vpn :
               proc[s].dir.pte[v] # None <=> v * PGSIZE < proc[s].sz

\* kalloc(), kfree(), allocuvm(), deallocuvm(), copyuvm(), freevm(): whatever fails, every
\* page has one owner.  fork(), exec() and sbrk() that fail for want of a page give back
\* what they took and leave the pages up to sz mapped, as long as the page was not one
\* for a page table: setupkvm(), allocuvm() and copyuvm() do not undo a failure of
\* mappages().  This is for programs that satisfy ProgramAssumption.
MemorySound == PagesOwned /\ NothingLost /\ MappedUpToSize

\* fork(), exec(), sbrk(), page tables: the address space of a process is its own, as long
\* as no page table could not be had (nopt) and for programs of ProgramAssumption.
Space(s) ==
    [k \in 1 .. Len(Pages(0, proc[s].sz)) |->
        IF proc[s].dir.pte[k - 1] = None THEN 0 ELSE content[proc[s].dir.pte[k - 1]]]
Abstract == INSTANCE AddressSpace WITH
    space <- [s \in Slot |-> IF proc[s].state = "live" THEN Space(s) ELSE <<>>], out <- nopt
Refinement == Abstract!Spec
===============================================================================
