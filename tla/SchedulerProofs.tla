--------------------------- MODULE SchedulerProofs ---------------------------
(***************************************************************************)
(* Proofs about Scheduler for every number of pids and every set of names. *)
(***************************************************************************)
EXTENDS Scheduler, TLAPS

\* The inductive invariant.  SwitchBounded is what makes RunnerNotFreed
\* inductive: as long as the head is alive, the walk is at or past the
\* interrupted process, and what it frees is past the walk.
Inv ==
  /\ TypeOK
  /\ \A p \in Pids : context[p] = p
  /\ \A p \in freed : p < next_pid
  /\ ContextsMatch
  /\ CurrentLinked
  /\ OneRunning
  /\ ListSorted
  /\ SwitchBounded
  /\ RunnerNotFreed

USE DEF Pids, None, Head

\* What kinit sets up, Scheduler::init and the shell, satisfies the invariant.
LEMMA InitInv == Init => Inv
  <1> SUFFICES ASSUME Init PROVE Inv
    OBVIOUS
  <1> USE ConstantsAssumption DEF Init
  <1>1. TypeOK
    <2>1. in_switch \in BOOLEAN
      OBVIOUS
    <2>2. next \in [Pids -> Pids \cup {None}]
      OBVIOUS
    <2> QED
      BY <2>1, <2>2 DEF TypeOK, Status
  <1>2. Linked = {0, 1}
    BY DEF Linked
  <1>3. ListSorted
    BY <1>2 DEF ListSorted
  <1> QED
    BY <1>1, <1>2, <1>3 DEF Inv, ContextsMatch, CurrentLinked, OneRunning,
       SwitchBounded, RunnerNotFreed

\* What one iteration of the loop does to the list.
LEMMA BuryFacts ==
  ASSUME Inv, BuryNext
  PROVE  /\ Candidate \in Linked
         /\ ~Buries => freed' = freed /\ next' = next
         /\ Buries => /\ next[current_process] \in Linked
                      /\ next[current_process] > current_process
                      /\ Dead(next[current_process])
                      /\ freed' = freed \cup {next[current_process]}
                      /\ Candidate # next[current_process]
         /\ Candidate > current_process \/ Candidate = Head
  <1> USE ConstantsAssumption
  <1> DEFINE c == current_process
             n == next[current_process]
  <1>1. /\ next \in [Pids -> Pids \cup {None}] /\ c \in Linked /\ Head \in Linked
        /\ c \in Pids
    BY DEF Inv, TypeOK, CurrentLinked, ListSorted
  <1>2. n # None => n \in Linked /\ n > c /\ n \in Pids
    BY <1>1 DEF Inv, ListSorted, Linked
  <1>3. n # None /\ next[n] # None => next[n] \in Linked /\ next[n] > n /\ next[n] \in Pids
    BY <1>1, <1>2 DEF Inv, ListSorted, Linked
  <1> QED
    BY <1>1, <1>2, <1>3 DEF BuryNext, Candidate, Successor, Buries

\* The list stays sorted when the successor of current_process is unlinked.
LEMMA BuryKeepsList ==
  ASSUME Inv, BuryNext, UNCHANGED next_pid
  PROVE  /\ ListSorted'
         /\ next' \in [Pids -> Pids \cup {None}]
         /\ freed' \subseteq Pids /\ \A p \in freed' : p < next_pid'
         /\ \A p \in Linked : p \in Linked' <=> ~(Buries /\ p = next[current_process])
  <1> USE ConstantsAssumption
  <1> DEFINE c == current_process
             n == next[current_process]
  <1>1. /\ next \in [Pids -> Pids \cup {None}] /\ c \in Linked /\ Head \in Linked
        /\ c \in Pids /\ freed \subseteq Pids /\ \A p \in freed : p < next_pid
    BY DEF Inv, TypeOK, CurrentLinked, ListSorted
  <1>2. CASE ~Buries
    BY <1>1, <1>2 DEF BuryNext, Inv, ListSorted, Linked
  <1>3. CASE Buries
    <2>1. /\ n \in Linked /\ n > c /\ n \in Pids
          /\ next[n] \in Pids \cup {None}
      BY <1>1, <1>3, BuryFacts DEF Linked
    <2>2. /\ next' = [p \in Pids |-> IF p = c THEN next[n]
                                     ELSE IF p = n THEN None ELSE next[p]]
          /\ freed' = freed \cup {n}
      BY <1>3 DEF BuryNext, Successor
    <2>3. Linked' = Linked \ {n}
      BY <2>1, <2>2 DEF Linked
    <2>4. \A p \in Linked : IF next[p] = None
                            THEN \A q \in Linked : q <= p
                            ELSE /\ next[p] \in Linked /\ next[p] > p
                                 /\ \A q \in Linked : q <= p \/ q >= next[p]
      BY DEF Inv, ListSorted
    <2>5. Linked \subseteq Pids
      BY DEF Linked
    <2>6. ASSUME NEW p \in Linked'
          PROVE  IF next'[p] = None
                 THEN \A q \in Linked' : q <= p
                 ELSE /\ next'[p] \in Linked' /\ next'[p] > p
                      /\ \A q \in Linked' : q <= p \/ q >= next'[p]
      <3>1. CASE p = c
        <4>1. next'[p] = next[n]
          BY <3>1, <2>2, <1>1
        <4>2. \A q \in Linked : q <= c \/ q >= n
          BY <2>4, <1>1, <2>1
        <4>3. CASE next[n] = None
          BY <4>1, <4>2, <4>3, <2>4, <2>1, <2>3, <2>5, <3>1, <1>1
        <4>4. CASE next[n] # None
          BY <4>1, <4>2, <4>4, <2>4, <2>1, <2>3, <2>5, <3>1, <1>1
        <4> QED
          BY <4>3, <4>4
      <3>2. CASE p # c
        <4>1. next'[p] = next[p] /\ p \in Linked /\ p # n /\ p \in Pids
          BY <3>2, <2>2, <2>3, <2>5
        <4>2. next[p] # n
          <5>1. SUFFICES ASSUME next[p] = n PROVE FALSE
            OBVIOUS
          <5>2. p < n /\ (c <= p \/ c >= n)
            BY <5>1, <2>4, <4>1, <2>1, <1>1, <2>5
          <5>3. p <= c \/ p >= n
            BY <2>4, <1>1, <2>1, <4>1, <2>5
          <5> QED
            BY <5>2, <5>3, <3>2, <4>1, <1>1, <2>1
        <4> QED
          BY <4>1, <4>2, <2>3, <2>4
      <3> QED
        BY <3>1, <3>2
    <2>7. Head \in Linked'
      BY <2>1, <2>3, <1>1
    <2>8. ListSorted'
      BY <2>6, <2>7 DEF ListSorted
    <2>9. \A p \in freed' : p < next_pid'
      BY <1>1, <2>1, <2>2 DEF Linked
    <2> QED
      BY <1>1, <1>3, <2>1, <2>2, <2>3, <2>8, <2>9
  <1> QED
    BY <1>2, <1>3

\* The timer interrupt, up to the loop of switch, preserves the invariant.
LEMMA TickInv == Inv /\ TimerTick => Inv'
  <1> SUFFICES ASSUME Inv, TimerTick PROVE Inv'
    OBVIOUS
  <1> USE ConstantsAssumption
  <1>1. TypeOK /\ CurrentLinked /\ ContextsMatch /\ ListSorted
    BY DEF Inv
  <1>2. context' = context
    BY <1>1 DEF TimerTick, StatusAfterTick, Inv, ContextsMatch, TypeOK
  <1>3. Linked' = Linked
    BY DEF TimerTick, StatusAfterTick, Linked
  <1>4. TypeOK'
    <2>1. in_switch' \in BOOLEAN
      BY DEF TimerTick, StatusAfterTick
    <2>2. status' \in [Pids -> Status]
      BY <1>1 DEF TimerTick, StatusAfterTick, TypeOK, Status
    <2> QED
      BY <1>1, <1>2, <2>1, <2>2 DEF TypeOK, TimerTick, StatusAfterTick
  <1>5. OneRunning'
    BY <1>1 DEF Inv, TimerTick, StatusAfterTick, OneRunning, TypeOK, Dead
  <1>6. HeadAlive' => HeadAlive
    BY <1>1 DEF HeadAlive, Dead, TimerTick, StatusAfterTick, TypeOK
  <1>7. SwitchBounded' /\ RunnerNotFreed'
    BY <1>1, <1>6 DEF Inv, TimerTick, StatusAfterTick, SwitchBounded, RunnerNotFreed,
       ContextsMatch, TypeOK
  <1>8. ListSorted' /\ CurrentLinked'
    BY <1>1, <1>3 DEF TimerTick, StatusAfterTick, ListSorted, CurrentLinked
  <1>9. ContextsMatch'
    BY DEF TimerTick, StatusAfterTick, ContextsMatch
  <1> QED
    BY <1>2, <1>4, <1>5, <1>7, <1>8, <1>9 DEF Inv, TimerTick, StatusAfterTick

\* The iteration of switch that resumes a process preserves the invariant.
LEMMA SwitchToInv == Inv /\ SwitchTo => Inv'
  <1> SUFFICES ASSUME Inv, SwitchTo PROVE Inv'
    OBVIOUS
  <1> USE ConstantsAssumption
  <1>1. /\ TypeOK /\ BuryNext /\ UNCHANGED <<next_pid, context>> /\ in_switch
        /\ Candidate \in Linked /\ Candidate \in Pids
        /\ current_process' = Candidate /\ cpu' = Candidate
        /\ status' = [status EXCEPT ![Candidate] = "Running"]
    BY BuryFacts DEF Inv, SwitchTo, Resumed, Linked
  <1>2. Candidate \in Linked'
    BY <1>1, BuryFacts, BuryKeepsList
  <1>3. TypeOK'
    <2>1. in_switch' \in BOOLEAN
      BY DEF SwitchTo, Resumed
    <2>2. status' \in [Pids -> Status]
      BY <1>1 DEF TypeOK, Status
    <2> QED
      BY <1>1, <2>1, <2>2, BuryKeepsList DEF SwitchTo, Resumed, TypeOK
  <1>4. ListSorted' /\ CurrentLinked'
    BY <1>1, <1>2, BuryKeepsList DEF CurrentLinked
  <1>5. OneRunning'
    BY <1>1 DEF Inv, OneRunning, SwitchTo, Resumed, TypeOK
  <1>6. RunnerNotFreed'
    BY <1>1, <1>2 DEF RunnerNotFreed, Linked
  <1>7. SwitchBounded' /\ ContextsMatch'
    BY <1>1 DEF SwitchTo, Resumed, SwitchBounded, ContextsMatch
  <1> QED
    BY <1>1, <1>3, <1>4, <1>5, <1>6, <1>7, BuryKeepsList DEF Inv

\* An iteration of switch that goes round again preserves the invariant.
LEMMA SwitchLoopInv == Inv /\ SwitchLoop => Inv'
  <1> SUFFICES ASSUME Inv, SwitchLoop PROVE Inv'
    OBVIOUS
  <1> USE ConstantsAssumption
  <1>1. /\ TypeOK /\ BuryNext /\ UNCHANGED <<next_pid, context>> /\ in_switch
        /\ Candidate \in Linked /\ Candidate \in Pids
        /\ current_process' = Candidate /\ cpu' = cpu /\ in_switch'
    BY BuryFacts DEF Inv, SwitchLoop, Linked
  <1>2. Candidate \in Linked'
    BY <1>1, BuryFacts, BuryKeepsList
  <1>3. TypeOK'
    BY <1>1, BuryKeepsList DEF SwitchLoop, TypeOK
  <1>4. ListSorted' /\ CurrentLinked'
    BY <1>1, <1>2, BuryKeepsList DEF CurrentLinked
  <1>5. OneRunning' /\ ContextsMatch'
    BY <1>1 DEF Inv, OneRunning, ContextsMatch, SwitchLoop
  <1>6. HeadAlive <=> HeadAlive'
    BY DEF SwitchLoop, HeadAlive, Dead
  <1>7. HeadAlive => Candidate # Head
    BY <1>1 DEF SwitchLoop, HeadAlive, Dead, Inv, OneRunning, TypeOK, Status
  <1>8. HeadAlive => Candidate > current_process
    BY <1>1, <1>7, BuryFacts
  <1>9. SwitchBounded'
    BY <1>1, <1>6, <1>8 DEF SwitchBounded, Inv, TypeOK, SwitchLoop
  <1>10. RunnerNotFreed'
    <2>1. HeadAlive => cpu <= current_process /\ cpu \notin freed
      BY <1>1 DEF Inv, SwitchBounded, RunnerNotFreed, TypeOK
    <2>2. HeadAlive => cpu \notin freed'
      BY <1>1, <2>1, BuryFacts DEF TypeOK, Linked
    <2> QED
      BY <1>1, <1>6, <2>2 DEF RunnerNotFreed
  <1> QED
    BY <1>1, <1>3, <1>4, <1>5, <1>9, <1>10, BuryKeepsList DEF Inv

\* pkill and pkillall only write the status of linked processes.
LEMMA KillInv ==
  ASSUME Inv, NEW K \in SUBSET Linked, ~in_switch,
         status' = [p \in Pids |-> IF p \in K THEN "WaitingForBurying" ELSE status[p]],
         ret' \in {NoRet} \cup Returned,
         UNCHANGED <<next, name, context, current_process, next_pid, cpu,
                     in_switch, iters, freed>>
  PROVE  Inv'
  <1> USE ConstantsAssumption
  <1>1. TypeOK /\ OneRunning
    BY DEF Inv
  <1>2. TypeOK'
    BY <1>1 DEF TypeOK, Status
  <1>3. Linked' = Linked
    BY DEF Linked
  <1>4. OneRunning'
    BY <1>1 DEF OneRunning
  <1>5. HeadAlive' => HeadAlive
    BY <1>1 DEF HeadAlive, Dead, TypeOK
  <1>6. RunnerNotFreed' /\ SwitchBounded' /\ ContextsMatch'
    BY <1>5 DEF Inv, RunnerNotFreed, SwitchBounded, ContextsMatch
  <1>7. ListSorted' /\ CurrentLinked'
    BY <1>3 DEF Inv, ListSorted, CurrentLinked
  <1> QED
    BY <1>2, <1>4, <1>6, <1>7 DEF Inv

\* Scheduler::pkill preserves the invariant.
LEMMA PkillInv == ASSUME NEW p \in Pids PROVE Inv /\ Pkill(p) => Inv'
  <1> SUFFICES ASSUME Inv, Pkill(p) PROVE Inv'
    OBVIOUS
  <1> DEFINE K == IF Searchable /\ p \in Linked THEN {p} ELSE {}
  <1>1. TypeOK
    BY DEF Inv
  <1>2. status' = [q \in Pids |-> IF q \in K THEN "WaitingForBurying" ELSE status[q]]
    BY <1>1 DEF Pkill, TypeOK
  <1>3. K \in SUBSET Linked
    OBVIOUS
  <1>4. ret' \in {NoRet} \cup Returned
    BY DEF Pkill, Returned, Results
  <1> HIDE DEF K
  <1> QED
    BY <1>2, <1>3, <1>4, KillInv DEF Pkill

\* Scheduler::pkillall preserves the invariant.
LEMMA PkillallInv == ASSUME NEW n \in Names PROVE Inv /\ Pkillall(n) => Inv'
  <1> SUFFICES ASSUME Inv, Pkillall(n) PROVE Inv'
    OBVIOUS
  <1>1. FirstNamed(n) \in SUBSET Linked
    BY DEF FirstNamed
  <1>2. ret' \in {NoRet} \cup Returned
    BY DEF Pkillall, Returned, Results
  <1> QED
    BY <1>1, <1>2, KillInv DEF Pkillall

\* Scheduler::create_process preserves the invariant.
LEMMA CreateInv == ASSUME NEW n \in Names PROVE Inv /\ CreateProcess(n) => Inv'
  <1> SUFFICES ASSUME Inv, CreateProcess(n) PROVE Inv'
    OBVIOUS
  <1> USE ConstantsAssumption
  <1>1. TypeOK /\ OneRunning /\ ListSorted /\ CurrentLinked /\ ContextsMatch /\ ~in_switch
    BY DEF Inv, CreateProcess, FollowingPid
  <1>2. PICK last \in Linked : /\ next[last] = None
                               /\ next' = [next EXCEPT ![last] = next_pid, ![next_pid] = None]
    BY DEF CreateProcess, FollowingPid
  <1>3. /\ next_pid \in Pids /\ next_pid \notin freed /\ last \in Pids
        /\ last < next_pid /\ next_pid' = next_pid + 1
    BY <1>1 DEF CreateProcess, FollowingPid, TypeOK, Inv, Linked
  <1>4. TypeOK'
    <2>1. next' \in [Pids -> Pids \cup {None}] /\ status' \in [Pids -> Status]
      BY <1>1, <1>2, <1>3 DEF TypeOK, CreateProcess, FollowingPid, Status
    <2>2. name' \in [Pids -> Names] /\ context' \in [Pids -> Pids]
      BY <1>1, <1>3 DEF TypeOK, CreateProcess, FollowingPid
    <2>3. /\ next_pid' \in 2 .. MaxPid /\ ret' \in {NoRet} \cup Returned
          /\ UNCHANGED <<current_process, cpu, in_switch, iters, freed>>
      BY <1>1, <1>3 DEF TypeOK, CreateProcess, FollowingPid
    <2> QED
      BY <1>1, <2>1, <2>2, <2>3 DEF TypeOK
  <1>5. Linked' = Linked \cup {next_pid}
    <2>1. freed' = freed /\ next_pid \in Nat
      BY <1>1 DEF CreateProcess, FollowingPid, TypeOK
    <2> QED
      BY <1>3, <2>1 DEF Linked
  <1>6. ListSorted'
    <2>1. Head \in Linked'
      BY <1>1, <1>5 DEF ListSorted
    <2>2. \A q \in Linked : q <= last /\ q < next_pid /\ q \in Pids
      BY <1>1, <1>2 DEF ListSorted, Linked
    <2>3. /\ next'[last] = next_pid
          /\ next'[next_pid] = None
          /\ \A p \in Linked \ {last} : next'[p] = next[p]
      BY <1>1, <1>2, <1>3, <2>2 DEF TypeOK
    <2>4. ASSUME NEW p \in Linked \ {last}
          PROVE  next[p] # None
      BY <2>2, <1>1 DEF ListSorted, Linked
    <2>5. ASSUME NEW p \in Linked'
          PROVE  IF next'[p] = None
                 THEN \A q \in Linked' : q <= p
                 ELSE /\ next'[p] \in Linked' /\ next'[p] > p
                      /\ \A q \in Linked' : q <= p \/ q >= next'[p]
      <3>1. CASE p = next_pid
        BY <3>1, <2>2, <2>3, <1>3, <1>5
      <3>2. CASE p = last
        BY <3>2, <2>2, <2>3, <1>3, <1>5
      <3>3. CASE p \in Linked \ {last}
        <4>1. /\ next[p] \in Linked /\ next[p] > p /\ next[p] # None
              /\ \A q \in Linked : q <= p \/ q >= next[p]
          BY <3>3, <2>4, <1>1 DEF ListSorted
        <4>2. next'[p] = next[p] /\ next'[p] \in Linked'
          BY <3>3, <4>1, <2>3, <1>5
        <4>3. next_pid >= next[p]
          <5>1. next[p] \in Pids /\ next[p] < next_pid
            BY <4>1 DEF Linked
          <5> QED
            BY <5>1, <1>3
        <4> QED
          BY <4>1, <4>2, <4>3, <1>5
      <3> QED
        BY <3>1, <3>2, <3>3, <1>5
    <2> QED
      BY <2>1, <2>5 DEF ListSorted
  <1>7. CurrentLinked'
    BY <1>1, <1>5 DEF CurrentLinked, CreateProcess, FollowingPid
  <1>8. OneRunning' /\ ContextsMatch'
    BY <1>1, <1>3 DEF OneRunning, ContextsMatch, CreateProcess, FollowingPid, TypeOK
  <1>9. HeadAlive' => HeadAlive
    BY <1>1, <1>3 DEF HeadAlive, Dead, CreateProcess, FollowingPid, TypeOK
  <1>10. SwitchBounded' /\ RunnerNotFreed'
    BY <1>1, <1>9 DEF Inv, SwitchBounded, RunnerNotFreed, CreateProcess, FollowingPid
  <1>11. \A p \in Pids : context'[p] = p
    BY <1>1, <1>3 DEF Inv, CreateProcess, FollowingPid, TypeOK
  <1>12. \A p \in freed' : p < next_pid'
    BY <1>1, <1>3 DEF Inv, CreateProcess, FollowingPid, TypeOK
  <1> QED
    BY <1>4, <1>6, <1>7, <1>8, <1>10, <1>11, <1>12 DEF Inv

\* Every step of the scheduler preserves the invariant.
LEMMA NextInv == Inv /\ [Next]_vars => Inv'
  <1> SUFFICES ASSUME Inv, [Next]_vars PROVE Inv'
    OBVIOUS
  <1>1. CASE TimerTick
    BY <1>1, TickInv
  <1>2. CASE SwitchTo
    BY <1>2, SwitchToInv
  <1>3. CASE SwitchLoop
    BY <1>3, SwitchLoopInv
  <1>4. CASE \E p \in Pids : Pkill(p)
    BY <1>4, PkillInv
  <1>5. CASE \E n \in Names : Pkillall(n) \/ CreateProcess(n)
    BY <1>5, PkillallInv, CreateInv
  <1>6. CASE UNCHANGED vars
    BY <1>6 DEF vars, Inv, TypeOK, ContextsMatch, CurrentLinked, OneRunning,
       ListSorted, SwitchBounded, RunnerNotFreed, HeadAlive, Dead, Linked
  <1> QED
    BY <1>1, <1>2, <1>3, <1>4, <1>5, <1>6 DEF Next

\* The invariant holds in every reachable state.
THEOREM Invariance == Spec => []Inv
  BY InitInv, NextInv, PTL DEF Spec

\* Every variable keeps its type, whatever interleaving of ticks, kills and
\* creations (threading/mod.rs).
THEOREM TypeCorrect == Spec => []TypeOK
  BY Invariance, PTL DEF Inv

\* Scheduler::switch never frees the stack and page table the CPU is using,
\* as long as the head process has not been killed.
THEOREM RunnerSafe == Spec => []RunnerNotFreed
  BY Invariance, PTL DEF Inv

\* Scheduler::switch never follows current_process into a freed Box, the CPU
\* is on the process the scheduler believes, and only that one is Running.
THEOREM CurrentSafe == Spec => []CpuConsistent
  BY Invariance, PTL DEF Inv, CpuConsistent

\* The process list stays a list in pid order through every append and burial.
THEOREM ListSafe == Spec => []ListSorted
  BY Invariance, PTL DEF Inv

\* The loop of Scheduler::switch makes progress in pid order while the head is
\* alive, which bounds the time spent with interrupts off.
THEOREM LoopBounded == Spec => []SwitchBounded
  BY Invariance, PTL DEF Inv

\* A step never revives a dead process and frees at most one, a dead one.
THEOREM DeathFinal == Spec => DeathIsFinal
  <1> DEFINE A == /\ \A p \in Linked : Dead(p) => Dead(p)'
                  /\ freed \subseteq freed'
                  /\ \A p \in freed' \ freed : Dead(p) /\ p # Head
                  /\ \A p, q \in freed' \ freed : p = q
  <1>1. Inv /\ [Next]_vars => [A]_vars
    <2> SUFFICES ASSUME Inv, Next PROVE A
      OBVIOUS
    <2> USE ConstantsAssumption
    <2>1. TypeOK
      BY DEF Inv
    <2>2. CASE TimerTick
      BY <2>1, <2>2 DEF TimerTick, StatusAfterTick, TypeOK, Dead, Linked
    <2>3. CASE SwitchTo
      <3>1. /\ BuryNext /\ status[Candidate] = "Waiting" /\ Candidate \in Pids
            /\ status' = [status EXCEPT ![Candidate] = "Running"]
        BY <2>3, BuryFacts DEF SwitchTo, Resumed, Linked
      <3>2. \A p \in Linked : Dead(p) => Dead(p)'
        BY <2>1, <3>1 DEF Dead, Linked, TypeOK
      <3> QED
        BY <2>1, <3>1, <3>2, BuryFacts DEF TypeOK
    <2>4. CASE SwitchLoop
      <3>1. BuryNext /\ status' = status
        BY <2>4 DEF SwitchLoop
      <3> QED
        BY <2>1, <3>1, BuryFacts DEF Dead, TypeOK
    <2>5. CASE \E p \in Pids : Pkill(p)
      BY <2>1, <2>5 DEF Pkill, TypeOK, Dead, Linked
    <2>6. CASE \E n \in Names : Pkillall(n)
      BY <2>1, <2>6 DEF Pkillall, TypeOK, Dead, Linked
    <2>7. CASE \E n \in Names : CreateProcess(n)
      BY <2>1, <2>7 DEF CreateProcess, FollowingPid, TypeOK, Dead, Linked
    <2> QED
      BY <2>2, <2>3, <2>4, <2>5, <2>6, <2>7 DEF Next
  <1> QED
    BY <1>1, Invariance, PTL DEF Spec, DeathIsFinal

\* The mapped variables of ProcessTable.
Live == {p \in Linked : ~Dead(p)}
Doomed == {p \in Linked : Dead(p)}

\* An iteration of the loop buries nothing, or one process that may be buried.
LEMMA BuryRefines ==
  ASSUME Inv, BuryNext, in_switch, UNCHANGED next_pid,
         \A p \in Linked : Dead(p)' <=> Dead(p)
  PROVE  /\ Live' = Live
         /\ \/ Doomed' = Doomed /\ freed' = freed
            \/ \E i \in Pids : PT!MayBury(i) /\ PT!Reclaim(i)
  <1> USE ConstantsAssumption
  <1>1. CASE ~Buries
    <2>1. Linked' = Linked /\ freed' = freed
      BY <1>1 DEF BuryNext, Linked
    <2> QED
      BY <2>1 DEF Live, Doomed
  <1>2. CASE Buries
    <2> DEFINE n == next[current_process]
    <2>1. /\ n \in Linked /\ n > current_process /\ Dead(n) /\ n \in Pids
          /\ freed' = freed \cup {n} /\ current_process \in Pids
      BY <1>2, BuryFacts DEF Linked, Inv, TypeOK
    <2>2. Linked' = Linked \ {n}
      BY <2>1 DEF Linked
    <2>3. Live' = Live /\ Doomed' = Doomed \ {n}
      BY <2>1, <2>2 DEF Live, Doomed
    <2>4. HeadAlive => n # cpu
      BY <2>1 DEF Inv, SwitchBounded, TypeOK
    <2>5. PT!MayBury(n)
      BY <2>1, <2>4 DEF PT!MayBury, HeadAlive
    <2>6. PT!Reclaim(n)
      BY <2>1, <2>3 DEF PT!Reclaim, Doomed
    <2> QED
      BY <2>1, <2>3, <2>5, <2>6
  <1> QED
    BY <1>1, <1>2

\* Marking linked processes of a set with at most one element kills one live
\* process or changes nothing.
LEMMA KillRefines ==
  ASSUME Inv, NEW K \in SUBSET Linked, \A p, q \in K : p = q,
         status' = [p \in Pids |-> IF p \in K THEN "WaitingForBurying" ELSE status[p]],
         UNCHANGED <<next_pid, freed, cpu>>
  PROVE  [PT!Next]_(PT!vars)
  <1> USE ConstantsAssumption
  <1>1. Linked' = Linked /\ Linked \subseteq Pids
    BY DEF Linked
  <1>2. /\ Live' = {p \in Linked : ~Dead(p) /\ p \notin K}
        /\ Doomed' = {p \in Linked : Dead(p) \/ p \in K}
    BY <1>1 DEF Live, Doomed, Dead
  <1>3. CASE \E k \in K : ~Dead(k)
    <2>1. PICK k \in K : ~Dead(k)
      BY <1>3
    <2>2. K = {k} /\ k \in Live
      BY <2>1 DEF Live
    <2>3. Live' = Live \ {k} /\ Doomed' = Doomed \cup {k}
      BY <1>2, <2>2 DEF Live, Doomed
    <2>4. PT!Kill
      BY <2>2, <2>3 DEF PT!Kill, Live, Doomed
    <2> QED
      BY <2>4 DEF PT!Next
  <1>4. CASE ~\E k \in K : ~Dead(k)
    <2>1. Live' = Live /\ Doomed' = Doomed
      BY <1>2, <1>4 DEF Live, Doomed
    <2> QED
      BY <2>1 DEF PT!vars, Live, Doomed
  <1> QED
    BY <1>3, <1>4

\* The scheduler implements ProcessTable: initial states map to initial
\* states, and every step to a step of the abstract life cycle or a stutter.
THEOREM Refinement == Spec => ImplementsProcessTable
  <1> USE ConstantsAssumption
  <1>1. Init => PT!Init
    <2> SUFFICES ASSUME Init PROVE PT!Init
      OBVIOUS
    <2>1. Linked = {0, 1} /\ \A p \in Linked : ~Dead(p)
      BY DEF Init, Linked, Dead
    <2> QED
      BY <2>1 DEF Init, PT!Init
  <1>2. Inv /\ [Next]_vars => [PT!Next]_(PT!vars)
    <2> SUFFICES ASSUME Inv, [Next]_vars PROVE [PT!Next]_(PT!vars)
      OBVIOUS
    <2>1. TypeOK
      BY DEF Inv
    <2>2. CASE TimerTick
      <3>1. Linked' = Linked /\ \A p \in Linked : Dead(p)' <=> Dead(p)
        BY <2>1, <2>2 DEF TimerTick, StatusAfterTick, Linked, Dead, TypeOK
      <3> QED
        BY <2>2, <3>1 DEF PT!vars, TimerTick, StatusAfterTick
    <2>3. CASE SwitchTo
      <3>1. /\ Candidate \in Linked /\ status[Candidate] = "Waiting"
            /\ cpu' = Candidate /\ BuryNext /\ in_switch /\ UNCHANGED next_pid
            /\ status' = [status EXCEPT ![Candidate] = "Running"]
        BY <2>3, BuryFacts DEF SwitchTo, Resumed, Inv, Linked
      <3>2. \A p \in Linked : Dead(p)' <=> Dead(p)
        BY <3>1, <2>1 DEF Dead, Linked, TypeOK
      <3>3. Candidate \in Live
        BY <3>1 DEF Live, Dead
      <3>4. PT!Dispatch
        BY <3>1, <3>2, <3>3, BuryRefines DEF PT!Dispatch, Live, Doomed
      <3> QED
        BY <3>4 DEF PT!Next
    <2>4. CASE SwitchLoop
      <3>1. /\ BuryNext /\ in_switch /\ UNCHANGED <<next_pid, cpu>>
            /\ \A p \in Linked : Dead(p)' <=> Dead(p)
        BY <2>4 DEF SwitchLoop, Dead
      <3>2. \/ PT!Bury
            \/ UNCHANGED PT!vars
        BY <3>1, BuryRefines DEF PT!Bury, PT!vars, Live, Doomed
      <3> QED
        BY <3>2 DEF PT!Next
    <2>5. CASE \E p \in Pids : Pkill(p)
      <3>1. PICK p \in Pids : Pkill(p)
        BY <2>5
      <3> DEFINE K == IF Searchable /\ p \in Linked THEN {p} ELSE {}
      <3>2. status' = [q \in Pids |-> IF q \in K THEN "WaitingForBurying" ELSE status[q]]
        BY <2>1, <3>1 DEF Pkill, TypeOK
      <3>3. K \in SUBSET Linked /\ \A k, l \in K : k = l
        OBVIOUS
      <3> HIDE DEF K
      <3> QED
        BY <3>1, <3>2, <3>3, KillRefines DEF Pkill
    <2>6. CASE \E n \in Names : Pkillall(n)
      <3>1. PICK n \in Names : Pkillall(n)
        BY <2>6
      <3>2. /\ FirstNamed(n) \in SUBSET Linked
            /\ \A k, l \in FirstNamed(n) : k = l
        BY DEF FirstNamed, Linked
      <3> QED
        BY <3>1, <3>2, KillRefines DEF Pkillall
    <2>7. CASE \E n \in Names : CreateProcess(n)
      <3>1. PICK n \in Names : CreateProcess(n)
        BY <2>7
      <3>2. /\ next_pid \in Pids /\ next_pid \notin freed /\ next_pid \notin Linked
            /\ next_pid' = next_pid + 1 /\ freed' = freed /\ cpu' = cpu
            /\ status' = [status EXCEPT ![next_pid] = "Waiting"]
        BY <2>1, <3>1 DEF CreateProcess, FollowingPid, TypeOK, Inv, Linked
      <3>3. Linked' = Linked \cup {next_pid} /\ Linked \subseteq Pids
        BY <2>1, <3>2 DEF Linked, TypeOK
      <3>4. Live' = Live \cup {next_pid} /\ Doomed' = Doomed
        BY <2>1, <3>2, <3>3 DEF Live, Doomed, Dead, TypeOK
      <3>5. PT!Spawn
        BY <3>2, <3>4 DEF PT!Spawn, Live, Doomed
      <3> QED
        BY <3>5 DEF PT!Next
    <2>8. CASE UNCHANGED vars
      <3>1. Linked' = Linked /\ \A p \in Linked : Dead(p)' <=> Dead(p)
        BY <2>8 DEF vars, Linked, Dead
      <3> QED
        BY <2>8, <3>1 DEF PT!vars, vars
    <2> QED
      BY <2>2, <2>3, <2>4, <2>5, <2>6, <2>7, <2>8 DEF Next
  <1> QED
    BY <1>1, <1>2, Invariance, PTL DEF Spec, ImplementsProcessTable, PT!Spec
=============================================================================
