-------------------------------- MODULE MCFiles --------------------------------
(***************************************************************************)
(* The two halves of the file system, which share only the log: the inodes *)
(* and directories, or the contents of files; part says which one runs.    *)
(***************************************************************************)
EXTENDS MCInode, MCFileData

VARIABLE part

allVars == <<vars, dataVars, part>>

\* The disk does not matter to the names, nor the names to the data.
OneDisk == CHOOSE d \in Disks : TRUE
OneTree == CHOOSE t \in Trees : TRUE

FilesInit ==
    /\ part \in {"names", "data"} /\ Init /\ DataInit
    /\ part = "names" => size = OneDisk.size
    /\ part = "data" => dinode = OneTree.dinode

FilesNext ==
    \/ part = "names" /\ Next /\ UNCHANGED <<dataVars, part>>
    \/ part = "data" /\ DataNext /\ UNCHANGED <<vars, part>>

FilesSpec == FilesInit /\ [][FilesNext]_allVars
===============================================================================
