------------------------------- MODULE MCInode -------------------------------
(***************************************************************************)
(* Module Inode for TLC: init, the superuser in the root and another user  *)
(* in a subdirectory, and calls that meet in these places.                 *)
(***************************************************************************)
EXTENDS Inode

CONSTANTS p1, p2

Uids == (initproc :> 0) @@ (p1 :> 0) @@ (p2 :> 1)

Rel(elems) == [abs |-> FALSE, elems |-> elems]
Abs(elems) == [abs |-> TRUE, elems |-> elems]

OpenCall(path, creat, rdonly) ==
    [op |-> "open", path |-> path, creat |-> creat, rdonly |-> rdonly, type |-> "file"]
CreateCall(path, type) == [op |-> "create", path |-> path, type |-> type]
LinkCall(path, new) == [op |-> "link", path |-> path, new |-> new]
PathCall(op, path) == [op |-> op, path |-> path]

Calls ==
    {PathCall("unlink", Abs(<<"a", "b">>)), PathCall("unlink", Abs(<<"a">>)),
     PathCall("unlink", Rel(<<"..">>)),
     CreateCall(Rel(<<"b">>), "dir"),
     OpenCall(Rel(<<"b">>), TRUE, FALSE), OpenCall(Rel(<<"..">>), FALSE, FALSE),
     LinkCall(Abs(<<"a", "b">>), Abs(<<"b">>)),
     PathCall("chdir", Abs(<<>>)), PathCall("chdir", Rel(<<"b">>)),
     [op |-> "close"], [op |-> "exit"]}

\* An inode on disk, and a directory with its own number, its parent's and entries.
D(type, nlink) == [type |-> type, nlink |-> nlink]
Directory(self, up, entries) == ("." :> self) @@ (".." :> up) @@ entries @@ NoEntries

\* The root and a directory /a (2) that mkfs made, with nlink 1 each, /a/b (3) with what
\* it contains if it is a directory, p2 in the inode at, and more inodes: /b (4), the
\* console that init made and opened, and /a/a (5), a file.
TreeWith(nlinka, b, contents, at, more) ==
    LET used(i) == IF i \in more THEN i ELSE None IN
    [dinode |-> [i \in Inum |-> CASE i = 1 -> D("dir", 1) [] i = 2 -> D("dir", nlinka)
                                  [] i = 3 -> D(b, 1)
                                  [] OTHER -> IF i \notin more THEN D("free", 0)
                                              ELSE D(IF i = 4 THEN "dev" ELSE "file", 1)],
     dir |-> [i \in Inum |-> CASE i = 1 -> Directory(1, 1, ("a" :> 2) @@ ("b" :> used(4)))
                               [] i = 2 -> Directory(2, 1, ("b" :> 3) @@ ("a" :> used(5)))
                               [] i = 3 -> contents
                               [] OTHER -> NoEntries],
     cached |-> <<1, at>> \o IF 4 \in more THEN <<4>> ELSE <<>>,
     cwd |-> (initproc :> 1) @@ (p1 :> 1) @@ (p2 :> 2),
     file |-> (initproc :> IF 4 \in more THEN 3 ELSE None) @@ (p1 :> None) @@ (p2 :> None)]

\* /a/b is a file: as mkfs made it, and with the console and every inode in use.
FileTrees == {TreeWith(1, "file", NoEntries, 2, more) : more \in {{}, {4, 5}}}

\* mkdir() made /a/b, and counted its "..".
MadeTree == TreeWith(2, "dir", Directory(3, 2, <<>>), 3, {})

Trees == FileTrees \cup {MadeTree}
===============================================================================
