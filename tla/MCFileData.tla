------------------------------ MODULE MCFileData ------------------------------
(***************************************************************************)
(* Module FileData for TLC, on disks that Mkfs builds: three open files,   *)
(* two of them of the same inode.                                          *)
(***************************************************************************)
EXTENDS FileData

CONSTANTS f1, f2, f3

LOCAL INSTANCE Mkfs

\* Process 1 and 2 share f1; only 2 has the others.
Sharing == [f \in File |-> IF f = f1 THEN Worker ELSE {2}]

Inodes == [f \in File |-> IF f = f3 THEN 4 ELSE 3]

\* Empty files, one with an indirect block, and one of the largest size but one.
Disks == Images({<<0>>, <<5>>, <<7, 1>>})
===============================================================================
