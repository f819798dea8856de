-------------------------- MODULE MCFrameAllocator --------------------------
(* A map with a hole at 0, two usable regions the bitmap fits in, one that   *)
(* is too short for it, reserved memory between and after them, and a number *)
(* of frames that is not a multiple of 8.                                    *)
EXTENDS FrameAllocator

Entry(b, l, u) == [base |-> b, length |-> l, usable |-> u]
MCMemoryMap ==
  <<Entry(0, 1, FALSE), Entry(1, 1, TRUE), Entry(2, 4, TRUE),
    Entry(6, 1, FALSE), Entry(7, 2, TRUE), Entry(9, 2, TRUE),
    Entry(13, 1, FALSE)>>
=============================================================================
