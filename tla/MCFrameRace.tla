---------------------------- MODULE MCFrameRace ----------------------------
(* One usable region for the bitmap, one of seven frames; two processes.    *)
EXTENDS FrameRace

MCMemoryMap == <<[base |-> 0, length |-> 1, usable |-> TRUE],
                 [base |-> 1, length |-> 7, usable |-> TRUE]>>
=============================================================================
