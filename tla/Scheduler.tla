------------------------------ MODULE Scheduler ------------------------------
(***************************************************************************)
(* The round-robin scheduler of kernel/src/threading/mod.rs, entered by    *)
(* the timer interrupt through context_switch of                           *)
(* kernel/src/arch/x86_64/threading/mod.rs.                                *)
(*                                                                         *)
(* A process is named by its pid.  The singly linked list of Boxes is the  *)
(* function next; add_process appends and next_pid only grows, so list     *)
(* order is pid order (proved: ListSorted in SchedulerProofs).  The switch *)
(* runs with interrupts off, but its loop may run forever, so each         *)
(* iteration is a step.  Operations called by a process (pkill, pkillall,  *)
(* create_process) are atomic here.                                        *)
(***************************************************************************)
EXTENDS Integers

CONSTANTS MaxPid,       \* bound: pids are 0 .. MaxPid - 1 (next_pid is a u64)
          Names,        \* process names
          Kernel, Shell \* the names kinit gives the two boot processes

ASSUME ConstantsAssumption ==
  /\ MaxPid \in Nat /\ MaxPid >= 2
  /\ Kernel \in Names /\ Shell \in Names

\* Process fields are functions of the pid, without meaning from next_pid on.
VARIABLES next,            \* Process.next
          status,          \* Process.status
          name,            \* Process.name
          context,         \* Process.context: the process it resumes
          current_process, \* Scheduler.current_process
          next_pid,        \* Scheduler.next_pid
          cpu,             \* the process whose stack and cr3 the CPU uses
          in_switch,       \* TRUE inside the loop of Scheduler::switch
          iters,           \* iterations this switch has spent so far
          freed,           \* processes Process::free was called on
          ret              \* what the last pkill or pkillall returned

vars == <<next, status, name, context, current_process, next_pid, cpu,
          in_switch, iters, freed, ret>>

Pids == 0 .. MaxPid - 1
None == -1
Head == 0
Status == {"Waiting", "Running", "WaitingForBurying"}
Results == {"Ok", "Err"}
NoRet == [op |-> "none"]
Returned == [op : {"pkill"}, pid : Pids, res : Results]
            \cup [op : {"pkillall"}, name : Names, res : Results]

\* Processes that are in the list: created and not freed.
Linked == {p \in Pids : p < next_pid /\ p \notin freed}
Dead(p) == status[p] = "WaitingForBurying"
HeadAlive == ~Dead(Head)

TypeOK ==
  /\ next \in [Pids -> Pids \cup {None}]
  /\ status \in [Pids -> Status]
  /\ name \in [Pids -> Names]
  /\ context \in [Pids -> Pids]
  /\ current_process \in Pids
  /\ next_pid \in 2 .. MaxPid
  /\ cpu \in Pids
  /\ in_switch \in BOOLEAN
  /\ iters \in 0 .. MaxPid
  /\ freed \subseteq Pids
  /\ ret \in {NoRet} \cup Returned
-----------------------------------------------------------------------------
(* kinit: Scheduler::init makes the kernel process the head and the current *)
(* one, create_process appends the shell, restore_cpu_status enters the     *)
(* head's context.  Nothing has been marked Running yet.                    *)
Init ==
  /\ next = [p \in Pids |-> IF p = Head THEN 1 ELSE None]
  /\ status = [p \in Pids |-> "Waiting"]
  /\ name = [p \in Pids |-> IF p = Head THEN Kernel ELSE Shell]
  /\ context = [p \in Pids |-> p]
  /\ current_process = Head
  /\ next_pid = 2
  /\ cpu = Head
  /\ in_switch = FALSE
  /\ iters = 0
  /\ freed = {}
  /\ ret = NoRet

\* Mutant of StatusAfterTick: the status is never reset.
StatusKept == status

\* switch makes the interrupted process Waiting, unless it was killed.
StatusAfterTick ==
  IF Dead(current_process) THEN status
  ELSE [status EXCEPT ![current_process] = "Waiting"]

\* Mutant of TimerTick: the walk starts at the head.
TimerTickFromHead ==
  /\ ~in_switch
  /\ context' = [context EXCEPT ![current_process] = cpu]
  /\ status' = StatusAfterTick
  /\ current_process' = Head
  /\ in_switch' = TRUE
  /\ iters' = 0
  /\ ret' = NoRet
  /\ UNCHANGED <<next, name, next_pid, cpu, freed>>

\* The timer interrupt: context_switch_stub and context_switch capture the
\* interrupted context and Scheduler::switch stores it in current_process.
TimerTick ==
  /\ ~in_switch
  /\ context' = [context EXCEPT ![current_process] = cpu]
  /\ status' = StatusAfterTick
  /\ in_switch' = TRUE
  /\ iters' = 0
  /\ ret' = NoRet
  /\ UNCHANGED <<next, name, current_process, next_pid, cpu, freed>>

\* Mutants of Buries: dead processes stay; live ones are freed too.
BuriesNobody == FALSE
BuriesAnybody == next[current_process] # None

\* Whether this iteration frees the successor of current_process.
Buries == next[current_process] # None /\ Dead(next[current_process])

\* Mutant of Successor: what Process::free returns is ignored.
SuccessorStale == next[current_process]

\* current_process.next after the optional Process::free, which returns the
\* next of the freed process.
Successor == IF Buries THEN next[next[current_process]]
             ELSE next[current_process]

\* Mutant of Candidate: the walk never leaves the head.
CandidateHead == Head

\* The process the iteration moves to: the successor, or the head at the end.
Candidate == IF Successor # None THEN Successor ELSE Head

\* The context switch returns.
Resumed == context[Candidate]

\* Mutant of BuryNext: the freed process stays linked.
BuryLinked ==
  /\ freed' = IF Buries THEN freed \cup {next[current_process]} ELSE freed
  /\ next' = next

\* The first half of an iteration: the successor of current_process is freed
\* (stack, page table and Box) if it is waiting for burying.
BuryNext ==
  /\ freed' = IF Buries THEN freed \cup {next[current_process]} ELSE freed
  /\ next' = IF Buries
             THEN [p \in Pids |-> IF p = current_process THEN Successor
                                  ELSE IF p = next[current_process] THEN None
                                  ELSE next[p]]
             ELSE next

\* An iteration that finds a waiting process: it becomes Running, switch
\* returns its context and restore_cpu_status moves the CPU to it.
SwitchTo ==
  /\ in_switch
  /\ status[Candidate] = "Waiting"
  /\ BuryNext
  /\ current_process' = Candidate
  /\ status' = [status EXCEPT ![Candidate] = "Running"]
  /\ cpu' = Resumed
  /\ in_switch' = FALSE
  /\ iters' = 0
  /\ UNCHANGED <<name, context, next_pid, ret>>

\* An iteration that finds one that is not: the loop goes round again.
\* iters saturates at MaxPid.
SwitchLoop ==
  /\ in_switch
  /\ status[Candidate] # "Waiting"
  /\ BuryNext
  /\ current_process' = Candidate
  /\ iters' = IF iters < MaxPid THEN iters + 1 ELSE iters
  /\ UNCHANGED <<status, name, context, next_pid, cpu, in_switch, ret>>

\* The search loop of pkill and pkillall runs only while the node it looks at
\* has a next one: with a single process in the list it finds nothing.
Searchable == next[Head] # None

\* Scheduler::pkill, called by the process on the CPU.
Pkill(p) ==
  LET found == Searchable /\ p \in Linked IN
  /\ ~in_switch
  /\ status' = IF found THEN [status EXCEPT ![p] = "WaitingForBurying"]
               ELSE status
  /\ ret' = [op |-> "pkill", pid |-> p, res |-> IF found THEN "Ok" ELSE "Err"]
  /\ UNCHANGED <<next, name, context, current_process, next_pid, cpu,
                 in_switch, iters, freed>>

\* The processes pkillall collects: it leaves its loop at the first match.
FirstNamed(n) ==
  {p \in Linked : /\ Searchable
                  /\ name[p] = n
                  /\ \A q \in Linked : name[q] = n => p <= q}

\* Scheduler::pkillall, called by the process on the CPU.
Pkillall(n) ==
  /\ ~in_switch
  /\ status' = [p \in Pids |-> IF p \in FirstNamed(n)
                               THEN "WaitingForBurying" ELSE status[p]]
  /\ ret' = [op |-> "pkillall", name |-> n,
             res |-> IF FirstNamed(n) # {} THEN "Ok" ELSE "Err"]
  /\ UNCHANGED <<next, name, context, current_process, next_pid, cpu,
                 in_switch, iters, freed>>

\* next_pid += 1, and a mutant that skips a pid.
FollowingPidSkips == next_pid + 2
FollowingPid == next_pid + 1

\* Scheduler::create_process: Process::create, add_process at the end of the
\* list, next_pid += 1.
CreateProcess(n) ==
  /\ ~in_switch
  /\ next_pid < MaxPid
  /\ \E last \in Linked :
       /\ next[last] = None
       /\ next' = [next EXCEPT ![last] = next_pid, ![next_pid] = None]
  /\ name' = [name EXCEPT ![next_pid] = n]
  /\ status' = [status EXCEPT ![next_pid] = "Waiting"]
  /\ context' = [context EXCEPT ![next_pid] = next_pid]
  /\ next_pid' = FollowingPid
  /\ ret' = NoRet
  /\ UNCHANGED <<current_process, cpu, in_switch, iters, freed>>

Next ==
  \/ TimerTick
  \/ SwitchTo
  \/ SwitchLoop
  \/ \E p \in Pids : Pkill(p)
  \/ \E n \in Names : Pkillall(n) \/ CreateProcess(n)

Spec == Init /\ [][Next]_vars

\* The APIC timer is periodic and processes run with interrupts enabled, so
\* ticks keep coming; the switch itself is not interruptible.
Fairness == WF_vars(TimerTick) /\ WF_vars(SwitchTo) /\ WF_vars(SwitchLoop)
FairSpec == Spec /\ Fairness
-----------------------------------------------------------------------------
(* Properties *)

\* While the head has not been killed, the process whose stack and page table
\* the CPU is using is never freed, neither while it runs nor while the
\* switch that leaves it walks the list on its stack (switch, Process::free).
RunnerNotFreed == HeadAlive => cpu \notin freed

\* current_process is always a node of the list, killed head or not: switch
\* never dereferences a freed Box.
CurrentLinked == current_process \in Linked

\* Outside a switch, the CPU runs the process the scheduler believes it runs:
\* contexts are never saved into, or resumed from, another process.
ContextsMatch == ~in_switch => cpu = current_process

\* At most one process is Running: the current one, and none during a switch.
OneRunning ==
  \A p \in Pids : status[p] = "Running" => p = current_process /\ ~in_switch

\* Scheduler, CPU and statuses agree: current_process is a node of the list, is
\* the process on the CPU outside a switch, and is the only one Running.
CpuConsistent == CurrentLinked /\ ContextsMatch /\ OneRunning

\* next links each process of the list to the one with the next higher pid
\* and the last one to None; the head is never unlinked.
ListSorted ==
  /\ Head \in Linked
  /\ \A p \in Linked :
       IF next[p] = None
       THEN \A q \in Linked : q <= p
       ELSE /\ next[p] \in Linked /\ next[p] > p
            /\ \A q \in Linked : q <= p \/ q >= next[p]

\* While the head is alive the loop of switch, which runs with interrupts
\* off, only moves forward in the list: it ends within one iteration per
\* process created since the interrupted one.
SwitchBounded == in_switch /\ HeadAlive => iters <= current_process - cpu

\* A kill is final and burying is only for the killed: a step never revives a
\* dead process, never un-frees one, and frees at most one, which was dead.
DeathIsFinal ==
  [][/\ \A p \in Linked : Dead(p) => Dead(p)'
     /\ freed \subseteq freed'
     /\ \A p \in freed' \ freed : Dead(p) /\ p # Head
     /\ \A p, q \in freed' \ freed : p = q]_vars

\* The scheduler implements the life cycle it promises.
PT == INSTANCE ProcessTable
      WITH Ids <- Pids, Boot <- {0, 1}, Root <- Head,
           live <- {p \in Linked : ~Dead(p)},
           doomed <- {p \in Linked : Dead(p)},
           buried <- freed, runner <- cpu

\* Every step of the list, the loop and the statuses is a step, or a stutter,
\* of ProcessTable: pids are not reused, only live processes get the CPU, and
\* one process at a time is buried, not the one on the CPU while pid 0 lives.
ImplementsProcessTable == PT!Spec

\* A process that waits is switched to, or killed.
NoStarvation ==
  \A p \in Pids :
    p \in Linked /\ status[p] = "Waiting"
      ~> (cpu = p /\ ~in_switch) \/ Dead(p)

\* Every killed process other than the head is freed in the end, whoever
\* killed it, and so is one pkill has returned Ok for.
EventuallyBuried ==
  \A p \in Pids \ {Head} :
    Dead(p) \/ ret = [op |-> "pkill", pid |-> p, res |-> "Ok"] ~> p \in freed
=============================================================================
