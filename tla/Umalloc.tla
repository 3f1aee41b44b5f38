-------------------------------- MODULE Umalloc --------------------------------
(***************************************************************************)
(* userspace/libc/umalloc.c: malloc() and free().  Addresses count units   *)
(* of the size of a header; base is below the heap, which sbrk() extends.  *)
(***************************************************************************)
EXTENDS Integers, Sequences, FiniteSets

CONSTANTS MaxHeap,     \* units that sbrk() has to give
          MinCore,     \* the 4096 units of morecore()
          Sizes        \* sizes asked for, in units with the header

Base == 0
Heap == 1            \* where the heap starts

VARIABLES
    ptr, size,  \* of the header at each address
    freep,      \* -1 before the first call
    brk,        \* the end of the heap
    given       \* the blocks the program holds, by the address of their headers

heapVars == <<ptr, size, freep, brk, given>>

HeapInit ==
    /\ ptr = [a \in 0 .. MaxHeap |-> 0]
    /\ size = [a \in 0 .. MaxHeap |-> 0]
    /\ freep = -1
    /\ brk = Heap
    /\ given = {}

\* The free list from freep->s.ptr around to freep.
RECURSIVE Around(_, _)
Around(h, p) == IF p = h.freep THEN <<p>> ELSE <<p>> \o Around(h, h.ptr[p])
List(h) == Around(h, h.ptr[h.freep])
FirstOf(s, P) == s[CHOOSE i \in P : \A j \in P : i <= j]

\* The loop of free(): the first p, from freep on, that bp comes after.
After(h, bp) ==
    LET s == <<h.freep>> \o List(h)
        fits == {i \in DOMAIN s :
                    \/ bp > s[i] /\ bp < h.ptr[s[i]]
                    \/ s[i] >= h.ptr[s[i]] /\ (bp > s[i] \/ bp < h.ptr[s[i]])} IN
    FirstOf(s, fits)

\* bp + bp->s.size == p->s.ptr
JoinUpper(h, bp, p) ==
    IF bp + h.size[bp] = h.ptr[p]
    THEN [h EXCEPT !.size[bp] = @ + h.size[h.ptr[p]], !.ptr[bp] = h.ptr[h.ptr[p]]]
    ELSE [h EXCEPT !.ptr[bp] = h.ptr[p]]

\* Mutant: the lower neighbour takes the block, but not what was joined to it.
JoinLower_Size(h, bp, p) ==
    IF p + h.size[p] = bp
    THEN [h EXCEPT !.size[p] = @ + size[bp], !.ptr[p] = h.ptr[bp]]
    ELSE [h EXCEPT !.ptr[p] = bp]

\* p + p->s.size == bp
JoinLower(h, bp, p) ==
    IF p + h.size[p] = bp
    THEN [h EXCEPT !.size[p] = @ + h.size[bp], !.ptr[p] = h.ptr[bp]]
    ELSE [h EXCEPT !.ptr[p] = bp]

\* free()
Freed(h, bp) ==
    LET p == After(h, bp) IN [JoinLower(JoinUpper(h, bp, p), bp, p) EXCEPT !.freep = p]

\* morecore(): the new block is freed into the list.
Morecore(h, nunits) ==
    LET nu == IF nunits < MinCore THEN MinCore ELSE nunits IN
    IF h.brk + nu > MaxHeap THEN [h EXCEPT !.full = TRUE]
    ELSE Freed([h EXCEPT !.size[h.brk] = nu, !.brk = @ + nu], h.brk)

\* The search of malloc(): the first block of the list that is large enough, and the
\* one before it; none when it comes back to freep.
Search(h, nunits) ==
    LET s == <<h.freep>> \o List(h)
        fits == {i \in 2 .. Len(s) : h.size[s[i]] >= nunits} IN
    IF fits = {} THEN [found |-> FALSE, prevp |-> 0, p |-> 0]
    ELSE [found |-> TRUE, p |-> FirstOf(s, fits), prevp |-> FirstOf(s, {i - 1 : i \in fits})]

\* Take the whole block, or its tail.
Carve(h, f, nunits) ==
    LET p == f.p
        tail == p + h.size[p] - nunits IN
    IF h.size[p] = nunits
    THEN [h EXCEPT !.ptr[f.prevp] = h.ptr[p], !.freep = f.prevp, !.got = p]
    ELSE [h EXCEPT !.size = [@ EXCEPT ![p] = @ - nunits, ![tail] = nunits], !.freep = f.prevp, !.got = tail]

Record == [ptr |-> ptr, size |-> size, freep |-> freep, brk |-> brk, full |-> FALSE, got |-> -1]

\* The memory outside of headers is the program's: what is there does not count.
Become(h, held) ==
    LET free == {List(h)[i] : i \in DOMAIN List(h)} IN
    /\ ptr' = [a \in DOMAIN ptr |-> IF a \in free THEN h.ptr[a] ELSE 0]
    /\ size' = [a \in DOMAIN size |-> IF a \in free \cup held THEN h.size[a] ELSE 0]
    /\ freep' = h.freep
    /\ brk' = h.brk
    /\ given' = held

\* malloc(): after morecore() the search goes on from freep.
Malloc(nunits) ==
    LET h0 == IF freep = -1 THEN [Record EXCEPT !.ptr[Base] = Base, !.size[Base] = 0, !.freep = Base]
              ELSE Record
        f0 == Search(h0, nunits)
        h1 == IF f0.found THEN h0 ELSE Morecore(h0, nunits)
        h == IF h1.full THEN h1 ELSE Carve(h1, Search(h1, nunits), nunits) IN
    Become(h, IF h.full THEN given ELSE given \cup {h.got})

Free(bp) == Become(Freed(Record, bp), given \ {bp})

HeapNext == (\E n \in Sizes : Malloc(n)) \/ (\E bp \in given : Free(bp))

\* malloc(), free(): the blocks held and the free ones lie in the heap without gap or
\* overlap, the free list goes around all free blocks in the order of their addresses,
\* and no two free blocks are neighbours.
HeapWhole ==
    LET list == IF freep = -1 THEN <<Base>> ELSE List(Record)
        free == {list[i] : i \in DOMAIN list} \ {Base}
        Units(a) == a .. a + size[a] - 1 IN
    /\ \A a, b \in free \cup given : a # b => Units(a) \cap Units(b) = {}
    /\ UNION {Units(a) : a \in free \cup given} = Heap .. brk - 1
    /\ Cardinality({i \in DOMAIN list : ptr[list[i]] <= list[i]}) = 1
    /\ \A a, b \in free : a + size[a] # b
===============================================================================
