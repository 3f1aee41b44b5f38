-------------------------------- MODULE Mkfs --------------------------------
(***************************************************************************)
(* mkfs/mkfs.c: the image that main() builds, as a function of the sizes   *)
(* of the files on its command line.  Units and layout are those of        *)
(* FileData: a directory entry takes one cell and holds the inode number.  *)
(***************************************************************************)
EXTENDS Integers, Sequences, SequencesExt

CONSTANTS BSIZE, NDIRECT,
          FirstData,      \* ninodes / IPB + 3 + bitblocks
          Size, LOGSIZE

LOCAL MAXFILE == NDIRECT + BSIZE
LOCAL ZeroBlock == [c \in 0 .. BSIZE - 1 |-> 0]

\* All sectors are written with zeroes first.
Blank ==
    [data |-> [b \in 0 .. Size - 1 |-> ZeroBlock], used |-> {}, ok |-> TRUE,
     addrs |-> [i \in 1 .. 4 |-> [k \in 0 .. NDIRECT |-> 0]], size |-> [i \in 1 .. 4 |-> 0],
     freeblock |-> FirstData, usedblocks |-> FirstData, freeinode |-> 1]

\* freeblock++, usedblocks++
Take(img) == [img EXCEPT !.freeblock = @ + 1, !.usedblocks = @ + 1]

\* The allocation in iappend() of block fbn of inum, unless it is there.
Allocate(img, inum, fbn) ==
    LET direct(k) == IF img.addrs[inum][k] # 0 THEN img
                     ELSE [Take(img) EXCEPT !.addrs[inum][k] = img.freeblock] IN
    IF fbn < NDIRECT THEN direct(fbn)
    ELSE LET d == direct(NDIRECT)
             ind == d.addrs[inum][NDIRECT] IN
         IF d.data[ind][fbn - NDIRECT] # 0 THEN d
         ELSE [Take(d) EXCEPT !.data[ind][fbn - NDIRECT] = d.freeblock]

\* x, after the allocation.
BlockAt(img, inum, fbn) ==
    IF fbn < NDIRECT THEN img.addrs[inum][fbn]
    ELSE img.data[img.addrs[inum][NDIRECT]][fbn - NDIRECT]

\* iappend(), one cell at a time; assert(fbn < MAXFILE).
Iappend(img, inum, cells) ==
    LET put(g, cell) ==
            LET fbn == g.size[inum] \div BSIZE
                a == Allocate(g, inum, fbn) IN
            IF fbn >= MAXFILE THEN [g EXCEPT !.ok = FALSE]
            ELSE [a EXCEPT !.data[BlockAt(a, inum, fbn)][a.size[inum] % BSIZE] = cell,
                           !.size[inum] = @ + 1]
    IN FoldLeft(put, img, cells)

Ialloc(img) == [img EXCEPT !.freeinode = @ + 1]

\* adddir(): a new directory with its entry in par, and "." and "..".
Adddir(img, par) ==
    LET i == img.freeinode IN
    Iappend(Iappend(Ialloc(img), par, <<i>>), i, <<i, par>>)

\* A file of n bytes, entered into dir.
AddFile(img, dir, n) ==
    LET i == img.freeinode IN
    Iappend(Iappend(Ialloc(img), dir, <<i>>), i, [k \in 1 .. n |-> 9])

\* "fix size of root inode dir"
FixRoot(img) == [img EXCEPT !.size[1] = (@ \div BSIZE + 1) * BSIZE]

\* balloc(usedblocks): the bitmap.
MarkUsed(img) == [img EXCEPT !.used = 0 .. img.usedblocks - 1]

\* main(), with one directory in the root: like the real one's nine entries, the
\* root's three do not fill its last block.
Built(sizes) ==
    LET root == Iappend(Ialloc(Blank), 1, <<1, 1>>)
        etc == Adddir(root, 1)
        files == FoldLeft(LAMBDA g, n : AddFile(g, 2, n), etc, sizes)
    IN MarkUsed(FixRoot(files))

\* assert(nblocks + usedblocks + nlog == size) leaves the log its place.  Only images
\* are considered whose files fit: mkfs has no test for it.
Images(Sizes) ==
    {img \in {Built(s) : s \in Sizes} : img.ok /\ img.freeblock <= Size - LOGSIZE}
===============================================================================
