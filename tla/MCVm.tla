--------------------------------- MODULE MCVm ---------------------------------
(***************************************************************************)
(* Module Vm for TLC: programs that fit, ones that exec() refuses at each  *)
(* of its tests, and one that is not page-aligned.                         *)
(***************************************************************************)
EXTENDS Vm

Memories == {6, 7, 8, 9, 10, 11, 13, 15, 24}
Increments == {1, 4, -1, -2, -7}

Segment(vaddr, memsz, filesz) ==
    [vaddr |-> vaddr, memsz |-> memsz, filesz |-> filesz, header |-> TRUE, complete |-> TRUE]
Text == Segment(0, 3, 2)
Good == [elf |-> TRUE, segs |-> <<Text>>, argc |-> 1, argbytes |-> 1]
TwoSegments == [Good EXCEPT !.segs = <<Segment(0, 1, 1), Segment(2, 2, 1)>>]
Programs ==
    {Good, TwoSegments,
     [Good EXCEPT !.elf = FALSE],
     [Good EXCEPT !.segs = <<Segment(0, 1, 1), [Text EXCEPT !.header = FALSE]>>],
     [Good EXCEPT !.segs = <<Segment(0, 1, 2)>>],
     [Good EXCEPT !.segs = <<[Text EXCEPT !.complete = FALSE]>>],
     [Good EXCEPT !.segs = <<Segment(0, 9, 2)>>],
     [Good EXCEPT !.segs = <<Segment(0, 1, 1), Segment(1, 2, 1)>>],
     [Good EXCEPT !.argc = MAXARG + 1],
     [Good EXCEPT !.argbytes = PGSIZE + 1]}
===============================================================================
