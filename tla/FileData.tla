------------------------------ MODULE FileData ------------------------------
(***************************************************************************)
(* kernel/fs.c below the names: the bitmap, the blocks of a file, readi()  *)
(* and writei(), with fileread(), filewrite() and lseek() of file.c and    *)
(* sysfile.c.  The disk is one that mkfs built (see Mkfs).                 *)
(*                                                                         *)
(* A block holds BSIZE cells; a cell is a byte, or one of the block        *)
(* numbers of an indirect block, so that NINDIRECT is BSIZE.  One bitmap   *)
(* block and one inode block hold everything there is, as on the real      *)
(* image (balloc() of mkfs.c asserts the former).                          *)
(***************************************************************************)
EXTENDS Integers, Sequences, FiniteSets, FiniteSetsExt, SequencesExt

CONSTANTS Worker,
          File,          \* the open struct files,
          inode,         \* the inode of each,
          BSIZE, NDIRECT,
          FirstData, Size,   \* the first data block, and sb.size
          LOGSIZE,
          Modulus,       \* 2^32: f->off is of type uint
          Image,         \* the disks to start from
          Users,         \* which process has which file open
          IOSize,        \* sizes of read() and write()
          Offset,        \* arguments of lseek()
          MaxIO

ASSUME FileDataAssumption ==
    /\ BSIZE \in Nat \ {0} /\ NDIRECT \in Nat \ {0}
    /\ LOGSIZE \in Nat /\ LOGSIZE >= 6
    /\ Modulus > 2 * (NDIRECT + BSIZE) * BSIZE

MAXFILE == NDIRECT + BSIZE
Ino == 1 .. 4
Block == FirstData .. Size - 1
NoBlock == 0
Nobody == 0
BBLOCK == -1    \* the block of the bitmap,
IBLOCK == -2    \* and that of the inodes

VARIABLES
    used,       \* the bitmap: the blocks marked in use
    data,       \* the contents of the data blocks
    addrs, size,    \* struct inode: the addresses (NDIRECT the indirect one) and the size
    disk,       \* the same, as iupdate() has written them
    lh,         \* the blocks in the log's header
    off,        \* f->off
    busy,       \* log.busy
    io,         \* the read() or write() of each process: the file, what is left, the
                \* offset passed to readi() or writei(), and whether lseek() met it
    ret,        \* what the last read() of each process returned: r and the bytes
    nio,
    stopped

fs == <<used, data, addrs, size, disk, lh, stopped>>
dataVars == <<fs, off, busy, io, ret, nio>>

NoIO == [pc |-> "user", f |-> CHOOSE f \in File : TRUE, n |-> 0, a |-> 0, sought |-> FALSE]

DataInit ==
    \E img \in Image :
        /\ used = img.used
        /\ data = img.data
        /\ addrs = img.addrs
        /\ size = img.size
        /\ disk = [addrs |-> img.addrs, size |-> img.size]
        /\ lh = {}
        /\ off = [f \in File |-> 0]
        /\ busy = Nobody
        /\ io = [p \in Worker |-> NoIO]
        /\ ret = [p \in Worker |-> [r |-> 0, bytes |-> <<>>]]
        /\ nio = 0
        /\ stopped = "no"

-------------------------------------------------------------------------------
(* Blocks, on a record m of the file system's state *)

FS == [used |-> used, data |-> data, addrs |-> addrs, size |-> size, disk |-> disk,
      lh |-> lh, stopped |-> stopped]

BecomeFS(m) ==
    /\ used' = m.used /\ data' = m.data /\ addrs' = m.addrs /\ size' = m.size
    /\ disk' = m.disk /\ lh' = m.lh /\ stopped' = m.stopped

Stop(m, why) == IF m.stopped = "no" THEN [m EXCEPT !.stopped = why] ELSE m

\* The capacity is tested before the block is looked for in the header.
Log_write(m, b) ==
    IF Cardinality(m.lh) >= LOGSIZE - 1 THEN Stop(m, "too big a transaction")
    ELSE [m EXCEPT !.lh = @ \cup {b}]

Zero == [c \in 0 .. BSIZE - 1 |-> 0]

\* The block that balloc() finds, and what it does: the bit, then bzero().
FreeBlocks(m) == {b \in 0 .. Size - 1 : b \notin m.used}
Found(m) == IF FreeBlocks(m) = {} THEN FirstData ELSE Min(FreeBlocks(m))
Balloc(m) ==
    IF FreeBlocks(m) = {} THEN Stop(m, "balloc: out of blocks")
    ELSE LET b == Found(m) IN
         Log_write(Log_write([m EXCEPT !.used = @ \cup {b}, !.data[b] = Zero], BBLOCK), b)

\* Mutant: the bit is not cleared.
Bfree_NotCleared(m, b) == Log_write(m, BBLOCK)

Bfree(m, b) ==
    IF b \notin m.used THEN Stop(m, "freeing free block")
    ELSE Log_write([m EXCEPT !.used = @ \ {b}], BBLOCK)

UpdateInode(m, i) ==
    Log_write([m EXCEPT !.disk.addrs[i] = m.addrs[i], !.disk.size[i] = m.size[i]], IBLOCK)

-------------------------------------------------------------------------------
(* The blocks of an inode *)

\* The state after addrs[k] has been allocated, if it was not.
Direct(m, i, k) ==
    IF m.addrs[i][k] # NoBlock THEN m ELSE [Balloc(m) EXCEPT !.addrs[i][k] = Found(m)]

\* bmap(), for its effect; BlockOf is the address it returns.
Bmap(m, i, bn) ==
    IF bn < NDIRECT THEN Direct(m, i, bn)
    ELSE IF bn >= MAXFILE THEN Stop(m, "bmap: out of range")
    ELSE LET d == Direct(m, i, NDIRECT)
             ind == d.addrs[i][NDIRECT] IN
         IF d.data[ind][bn - NDIRECT] # NoBlock THEN d
         ELSE Log_write([Balloc(d) EXCEPT !.data[ind][bn - NDIRECT] = Found(d)], ind)

BlockOf(m, i, bn) ==
    IF bn < NDIRECT \/ m.addrs[i][NDIRECT] = NoBlock THEN m.addrs[i][bn]
    ELSE m.data[m.addrs[i][NDIRECT]][bn - NDIRECT]

\* itrunc(): the direct blocks, then the ones in the indirect block and that block.
Itrunc(m, i) ==
    LET ind == m.addrs[i][NDIRECT]
        direct == [k \in 1 .. NDIRECT |-> m.addrs[i][k - 1]]
        indirect == IF ind = NoBlock THEN <<>>
                    ELSE [k \in 1 .. BSIZE |-> m.data[ind][k - 1]] \o <<ind>>
        freed == FoldLeft(LAMBDA s, b : IF b = NoBlock THEN s ELSE Bfree(s, b), m, direct \o indirect)
    IN UpdateInode([freed EXCEPT !.addrs[i] = [k \in 0 .. NDIRECT |-> NoBlock], !.size[i] = 0], i)

\* The end of writei().
Grow(m, i, end) == IF end > m.size[i] THEN UpdateInode([m EXCEPT !.size[i] = end], i) ELSE m

\* The blocks of n bytes from a on, in the order of the loops.
Blocks(a, n) ==
    [k \in 1 .. (a + n - 1) \div BSIZE - a \div BSIZE + 1 |-> a \div BSIZE + k - 1]

\* The tests of writei(); n is at least 1.
MayWrite(m, i, a, n) ==
    /\ ~(a > m.size[i] \/ (a + n) % Modulus < a)
    /\ (a + n) % Modulus <= MAXFILE * BSIZE

\* writei(): block after block.
Writei(m, i, byte, a, n) ==
    LET put(s, bn) ==
            LET t == Bmap(s, i, bn)
                b == BlockOf(t, i, bn) IN
            IF t.stopped # "no" THEN t
            ELSE Log_write([t EXCEPT !.data[b] = [c \in 0 .. BSIZE - 1 |->
                              IF bn * BSIZE + c \in a .. a + n - 1 THEN byte ELSE @[c]]], b)
    IN Grow(FoldLeft(put, m, Blocks(a, n)), i, a + n)

\* Mutant: a read goes on after the end of the file.
Readable_Past(m, i, a, n) == n

\* readi(): how many bytes there are, and which; bmap() would allocate in a hole.
Readable(m, i, a, n) == IF a + n > m.size[i] THEN m.size[i] - a ELSE n
Byte(m, i, k) == LET b == BlockOf(m, i, k \div BSIZE) IN IF b = NoBlock THEN 0 ELSE m.data[b][k % BSIZE]
Readi(m, i, a, n) == FoldLeft(LAMBDA s, bn : Bmap(s, i, bn), m, Blocks(a, n))

-------------------------------------------------------------------------------
(* The system calls *)

SetIO(p, r) == io' = [io EXCEPT ![p] = r]
Runs(p, pc) == stopped = "no" /\ io[p].pc = pc

IOCall(p) == Runs(p, "user") /\ nio < MaxIO /\ nio' = nio + 1

StartWrite(p, f, n) ==
    /\ IOCall(p)
    /\ SetIO(p, [NoIO EXCEPT !.pc = "write", !.f = f, !.n = n])
    /\ UNCHANGED <<fs, off, busy, ret>>

\* Mutant: all of it in one transaction.
Chunk_All(n) == n

\* int max = ((LOGSIZE-1-1-2) / 2) * 512;
Chunk(n) == LET max == ((LOGSIZE - 4) \div 2) * BSIZE IN IF n > max THEN max ELSE n

\* ilock(): who is between ilock() and iunlock() of an inode.
Inside == {q \in Worker : io[q].pc \in {"writing", "reading"}}
Locked(i) == \E q \in Inside : inode[io[q].f] = i

\* f->off += r, on what f->off is by now; an lseek() at the same time may overwrite it.
Advance(p, r) ==
    \/ off' = [off EXCEPT ![io[p].f] = (@ + r) % Modulus]
    \/ io[p].sought /\ UNCHANGED off

\* A round of filewrite() up to writei(): begin_trans(), ilock(), and f->off is read.
\* (A process that waits in ilock() has its transaction, which no reader needs.)
WriteLock(p) ==
    /\ Runs(p, "write") /\ busy = Nobody /\ ~Locked(inode[io[p].f])
    /\ busy' = p
    /\ SetIO(p, [io[p] EXCEPT !.pc = "writing", !.a = off[io[p].f]])
    /\ UNCHANGED <<fs, off, ret, nio>>

\* writei() at that offset, f->off += r and iunlock().
WriteChunk(p) ==
    LET i == inode[io[p].f]
        n == Chunk(io[p].n)
        ok == MayWrite(FS, i, io[p].a, n) IN
    /\ Runs(p, "writing")
    /\ BecomeFS(IF ok THEN Writei(FS, i, p, io[p].a, n) ELSE FS)
    /\ IF ok THEN Advance(p, n) ELSE UNCHANGED off
    /\ SetIO(p, [io[p] EXCEPT !.pc = "commit", !.n = IF ok THEN @ - n ELSE 0, !.a = 0, !.sought = FALSE])
    /\ UNCHANGED <<busy, ret, nio>>

\* commit_trans(), and the loop goes on unless all is written or writei() failed.
WriteCommit(p) ==
    /\ Runs(p, "commit")
    /\ busy' = Nobody
    /\ lh' = {}
    /\ SetIO(p, IF io[p].n = 0 THEN NoIO ELSE [io[p] EXCEPT !.pc = "write"])
    /\ UNCHANGED <<used, data, addrs, size, disk, stopped, off, ret, nio>>

\* fileread(), whatever transaction is open: ilock(), and f->off is read.
ReadLock(p, f, n) ==
    /\ IOCall(p) /\ ~Locked(inode[f])
    /\ SetIO(p, [NoIO EXCEPT !.pc = "reading", !.f = f, !.n = n, !.a = off[f]])
    /\ UNCHANGED <<fs, off, busy, ret>>

\* readi() at that offset, f->off += r if r > 0, and iunlock().
Read(p) ==
    LET i == inode[io[p].f]
        a == io[p].a
        n == io[p].n
        k == Readable(FS, i, a, n) IN
    /\ Runs(p, "reading")
    /\ IF a > size[i] \/ (a + n) % Modulus < a
       THEN ret' = [ret EXCEPT ![p] = [r |-> -1, bytes |-> <<>>]] /\ UNCHANGED <<fs, off>>
       ELSE /\ BecomeFS(IF k = 0 THEN FS ELSE Readi(FS, i, a, k))
            /\ ret' = [ret EXCEPT ![p] =
                   [r |-> k, bytes |-> [b \in 1 .. k |-> Byte(FS, i, a + b - 1)]]]
            /\ Advance(p, k)
    /\ SetIO(p, NoIO)
    /\ UNCHANGED <<busy, nio>>

\* sys_lseek(), which tests nothing and takes no lock: SEEK_SET and SEEK_CUR.  Where a
\* read() or write() adds to f->off at the same time, the one or the other is lost.
Lseek(p, f, o, base) ==
    LET met == {q \in Inside : io[q].f = f} IN
    /\ IOCall(p)
    /\ \/ /\ off' = [off EXCEPT ![f] = (o + IF base = "SEEK_CUR" THEN @ ELSE 0) % Modulus]
          /\ io' = [q \in Worker |-> IF q \in met /\ base = "SEEK_CUR"
                                     THEN [io[q] EXCEPT !.sought = TRUE] ELSE io[q]]
       \/ met # {} /\ UNCHANGED <<off, io>>
    /\ UNCHANGED <<fs, busy, ret>>

\* The last reference of an unlinked inode goes: fileclose() calls iput(), which
\* calls itrunc().  The file is made and opened again, which sets f->off to 0.
Discard(p, i) ==
    /\ IOCall(p) /\ busy = Nobody
    /\ \A q \in Worker : io[q].pc = "user"
    /\ \E f \in File : inode[f] = i
    /\ BecomeFS([Itrunc(FS, i) EXCEPT !.lh = {}])
    /\ off' = [f \in File |-> IF inode[f] = i THEN 0 ELSE off[f]]
    /\ UNCHANGED <<busy, io, ret>>

DataNext ==
    \E p \in Worker :
        \/ WriteLock(p) \/ WriteChunk(p) \/ WriteCommit(p) \/ Read(p)
        \/ \E i \in Ino : Discard(p, i)
        \/ \E f \in {g \in File : p \in Users[g]} :
               \/ \E n \in IOSize : StartWrite(p, f, n) \/ ReadLock(p, f, n)
               \/ \E o \in Offset, base \in {"SEEK_SET", "SEEK_CUR"} : Lseek(p, f, o, base)

DataSpec == DataInit /\ [][DataNext]_dataVars

-------------------------------------------------------------------------------
(* Properties *)

\* The blocks that inode i has on the disk, as a sequence with the indirect one last.
OnDisk(i) ==
    LET a == disk.addrs[i]
        ind == a[NDIRECT] IN
    SelectSeq([k \in 1 .. NDIRECT |-> a[k - 1]]
              \o (IF ind = NoBlock THEN <<>> ELSE [k \in 1 .. BSIZE |-> data[ind][k - 1]]) \o <<ind>>,
              LAMBDA b : b # NoBlock)
AllOnDisk == OnDisk(1) \o OnDisk(2) \o OnDisk(3) \o OnDisk(4)

\* bmap() allocates when it is asked for a block that is not there: readi() would do so
\* outside a transaction.  It never meets one, for a file has all blocks up to its size.
NoHole ==
    stopped = "no" => \A i \in Ino : \A bn \in 0 .. MAXFILE - 1 :
        bn * BSIZE < size[i] => BlockOf(FS, i, bn) # NoBlock

\* balloc(), bfree(), bmap(), iupdate(), and mkfs.c: between transactions the bitmap
\* marks the metadata and the blocks of the inodes on the disk, and each of these
\* belongs to one place of one inode; a file has no hole.
DiskConsistent ==
    /\ NoHole
    /\ stopped = "no" /\ busy = Nobody =>
        /\ IsInjective(AllOnDisk)
        /\ used = 0 .. FirstData - 1 \cup ToSet(AllOnDisk)

\* filewrite(): "write a few blocks at a time to avoid exceeding the maximum log
\* transaction size"; nor is a free block freed or a block out of range asked for.
TransactionFits == stopped \in {"no", "balloc: out of blocks"}

\* What a process is doing to a file between ilock() and iunlock().
Op(p) ==
    IF p \in Inside
    THEN [do |-> IF io[p].pc = "writing" THEN "write" ELSE "read", f |-> io[p].f, at |-> io[p].a,
          n |-> IF io[p].pc = "writing" THEN Chunk(io[p].n) ELSE io[p].n, sought |-> io[p].sought]
    ELSE [do |-> "nothing"]

\* fileread(), filewrite(), sys_lseek(): a file is a sequence of bytes, reads and writes of
\* it take place one after the other, each where the position was when it began, and
\* without an lseek() meanwhile those through one struct file go to disjoint places.
Bytes(i) == [k \in 1 .. size[i] |-> Byte(FS, i, k - 1)]
FileAbstract == INSTANCE ByteFiles WITH
    Proc <- Worker, bytes <- [i \in Ino |-> Bytes(i)], op <- [p \in Worker |-> Op(p)],
    MaxBytes <- MAXFILE * BSIZE, out <- stopped # "no"
FileRefinement == FileAbstract!Spec

-------------------------------------------------------------------------------
(* What the repository says of the layout and the code does not do *)

\* fs.h: sb.nblocks is the "Number of data blocks", and the last sb.nlog blocks are the
\* log's; balloc() searches the bitmap up to sb.size.
LogNotAllocated == \A b \in used : b < Size - LOGSIZE
===============================================================================
