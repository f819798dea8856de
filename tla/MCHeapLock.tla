---------------------------- MODULE MCHeapLock ----------------------------
(* The two boot processes and room for one more.                           *)
EXTENDS HeapLock, TLC
=============================================================================
