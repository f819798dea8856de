---------------------------- MODULE ProcessTable ----------------------------
(***************************************************************************)
(* What the scheduler promises its users, without list, loop or statuses:  *)
(* a process is live, then doomed, then buried, ids are never reused, only *)
(* a live process is dispatched, and the one on the CPU is not buried      *)
(* while the root process lives.  Scheduler is shown to implement this.    *)
(***************************************************************************)
CONSTANTS Ids,  \* process identifiers
          Boot, \* the processes that exist at boot
          Root  \* the process that is never buried

VARIABLES live,   \* processes that may be given the CPU
          doomed, \* killed processes that still own their memory
          buried, \* killed processes whose memory was returned
          runner  \* the process on the CPU

vars == <<live, doomed, buried, runner>>

Init == live = Boot /\ doomed = {} /\ buried = {} /\ runner = Root

Spawn ==
  /\ \E i \in Ids \ (live \cup doomed \cup buried) : live' = live \cup {i}
  /\ UNCHANGED <<doomed, buried, runner>>

Kill ==
  /\ \E i \in live : live' = live \ {i} /\ doomed' = doomed \cup {i}
  /\ UNCHANGED <<buried, runner>>

\* Memory may be reclaimed one process at a time, never the running one's
\* while the root process lives.
MayBury(i) == i \in doomed \ {Root} /\ (i # runner \/ Root \notin live)

Reclaim(i) == doomed' = doomed \ {i} /\ buried' = buried \cup {i}

Bury ==
  /\ \E i \in Ids : MayBury(i) /\ Reclaim(i)
  /\ UNCHANGED <<live, runner>>

\* Giving the CPU to a live process, possibly burying another one on the way.
Dispatch ==
  /\ \E i \in live : runner' = i
  /\ \/ UNCHANGED <<doomed, buried>>
     \/ \E i \in Ids : MayBury(i) /\ Reclaim(i)
  /\ UNCHANGED live

Next == Spawn \/ Kill \/ Bury \/ Dispatch

Spec == Init /\ [][Next]_vars
=============================================================================
