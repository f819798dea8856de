------------------------------ MODULE HeapLock ------------------------------
(***************************************************************************)
(* The spin lock of the kernel heap (utils::Locked around the allocator)   *)
(* under the scheduler.  A process may be interrupted while it holds the   *)
(* lock; interrupt handlers run with interrupts off and take the same      *)
(* lock: Scheduler::switch when Process::free drops a Box and a stack, the *)
(* keyboard handler when it pushes to a full String: in the println of     *)
(* clear, for ctrl + shift + C, or in stdin_putc.                          *)
(***************************************************************************)
EXTENDS Scheduler

VARIABLES holder, \* the process that holds the lock, or None
          in_key  \* TRUE in the keyboard handler, at the push to a String

lockVars == <<vars, holder, in_key>>

LockInit == Init /\ holder = None /\ in_key = FALSE

\* A process on the CPU enters and leaves alloc or dealloc.
Lock ==
  /\ ~in_switch /\ ~in_key
  /\ holder = None
  /\ holder' = cpu
  /\ UNCHANGED <<vars, in_key>>
Unlock ==
  /\ ~in_switch /\ ~in_key
  /\ holder = cpu
  /\ holder' = None
  /\ UNCHANGED <<vars, in_key>>

\* A process calls pkill, pkillall and create_process outside the allocator;
\* create_process and pkillall allocate, which waits for the lock.
Call ==
  /\ ~in_key
  /\ holder # cpu
  /\ \/ \E p \in Pids : Pkill(p)
     \/ holder = None /\ \E n \in Names : Pkillall(n) \/ CreateProcess(n)
  /\ UNCHANGED <<holder, in_key>>

Tick == ~in_key /\ TimerTick /\ UNCHANGED <<holder, in_key>>

\* An iteration of switch; one that frees a process spins until the lock is
\* free.
Iterate ==
  /\ Buries => holder = None
  /\ SwitchTo \/ SwitchLoop
  /\ UNCHANGED <<holder, in_key>>

\* The keyboard interrupt, and its return once it has had the lock.
KeyInterrupt ==
  /\ ~in_switch /\ ~in_key
  /\ in_key' = TRUE
  /\ UNCHANGED <<vars, holder>>
KeyReturn ==
  /\ in_key /\ holder = None
  /\ in_key' = FALSE
  /\ UNCHANGED <<vars, holder>>

LockNext == \/ Lock \/ Unlock \/ Call \/ Tick \/ Iterate
            \/ KeyInterrupt \/ KeyReturn

LockSpec == LockInit /\ [][LockNext]_lockVars
-----------------------------------------------------------------------------
\* main.rs, of __navi_key_pressed: "whenever a key is pressed this function
\* should be called"; and switch "context switches into next process".  So
\* neither handler ever waits, with interrupts off, for a lock that only the
\* process it interrupted, or one that is not running, can release.
HandlersNeverBlock == in_key \/ (in_switch /\ Buries) => holder = None
=============================================================================
