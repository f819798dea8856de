------------------------------ MODULE FrameRace ------------------------------
(***************************************************************************)
(* The frame allocator under the timer interrupt.  A process that calls    *)
(* allocate_frame (extend_heap, the ACPI mappings) runs with interrupts    *)
(* enabled and without a lock: the interrupt may come between              *)
(* search_for_free_frame and set_used.  The interrupt itself allocates:    *)
(* send_eoi maps the local APIC in the table of the interrupted process,   *)
(* which the first time takes a table for levels 3, 2 and 1.               *)
(***************************************************************************)
EXTENDS FrameAllocator

CONSTANT Procs

VARIABLES cpu,   \* the process on the CPU
          found, \* per process: the frame search_for_free_frame returned
          lapic  \* per process: the frames of the tables that map the APIC

raceVars == <<bitmap, owned, cpu, found, lapic>>
NoFrame == -1
Tables == 3

RaceInit ==
  /\ Init
  /\ cpu \in Procs
  /\ found = [p \in Procs |-> NoFrame]
  /\ lapic = [p \in Procs |-> {}]

\* allocate_frame of the process on the CPU, up to the result of the search.
Search ==
  /\ found[cpu] = NoFrame
  /\ \E f \in Bits : IsFirstFree(f) /\ found' = [found EXCEPT ![cpu] = f]
  /\ UNCHANGED <<bitmap, owned, cpu, lapic>>

\* The rest of allocate_frame: set_used, and the frame is the caller's.
SetUsed ==
  LET f == found[cpu] IN
  /\ f # NoFrame
  /\ bitmap' = [bitmap EXCEPT ![f] = 1]
  /\ owned' = owned \cup {f}
  /\ found' = [found EXCEPT ![cpu] = NoFrame]
  /\ UNCHANGED <<cpu, lapic>>

\* The timer interrupt: the APIC is mapped if it was not, the CPU goes to the
\* process the scheduler picks.  Too few frames make send_eoi panic.
TimerInterrupt ==
  /\ \/ lapic[cpu] # {} /\ UNCHANGED <<bitmap, lapic>>
     \/ /\ lapic[cpu] = {}
        /\ \E T \in SUBSET FreeFrames :
             /\ Cardinality(T) = Tables
             /\ \A f \in T, g \in FreeFrames \ T : f < g
             /\ bitmap' = [f \in Bits |-> IF f \in T THEN 1 ELSE bitmap[f]]
             /\ lapic' = [lapic EXCEPT ![cpu] = T]
  /\ cpu' \in Procs
  /\ UNCHANGED <<owned, found>>

RaceNext == Search \/ SetUsed \/ TimerInterrupt

RaceSpec == RaceInit /\ [][RaceNext]_raceVars
-----------------------------------------------------------------------------
\* RegionAllocator's doc says that its bitmap "keeps track of which frame is
\* used or not": a frame allocate_frame hands to a process is not also in use
\* as a table.
NoFrameTwice == \A p \in Procs : owned \cap lapic[p] = {}
=============================================================================
