------------------------- MODULE TerminalInputProofs -------------------------
(* Theorems about TerminalInput, for every set of characters, any number of  *)
(* keys and any number of messages of kmain.                                 *)
EXTENDS TerminalInput, SequenceTheorems, TLAPS

Buffers == Seq(Chars \cup {Newline})

\* The places in the shell where shell_old holds a mode to go back to.
Saved == {"set", "restore", "stdin", "poll", "pop", "clone", "clear", "return"}

\* Until kmain halts, an Init mode that was not ended early is still there, or
\* is what kmain restores; the shell has not left its first loop.
BootInv ==
  ~early /\ kmain # "halted" =>
    /\ shell = "init" /\ kmain_old = "Init"
    /\ mode = IF kmain = "restore" THEN "Stdout" ELSE "Init"

\* A clear outside the messages of kmain finds no saved Init mode.
ClearInv ==
  /\ ~cleared => shell = "init" /\ {mode, kmain_old} \subseteq {"Init", "Stdout"}
  /\ cleared /\ ~hidden =>
       /\ mode # "Init"
       /\ kmain \in {"set", "restore"} => kmain_old # "Init"
       /\ shell \in Saved => shell_old # "Init"

\* If no key came since the check for the newline, the buffer of readln ends
\* with it, and then is the line; a clear may have emptied it.
WindowInv ==
  ~raced /\ stdin_buffer # <<>> =>
    /\ shell = "pop" => EndsWithNewline
    /\ shell = "clear" => stdin_buffer = line

Inv == TypeOK /\ ReaderListens /\ LossOnlyInWindow /\ BootInv /\ ClearInv /\ WindowInv
-----------------------------------------------------------------------------
\* Popping a character from a buffer (String::pop in readln and stdin_putc)
\* leaves a buffer.
LEMMA FrontIsBuffer ==
  ASSUME NEW s \in Buffers, s # <<>>
  PROVE  Front(s) \in Buffers
  <1>1. Len(s) \in Nat /\ \A i \in 1 .. Len(s) - 1 : s[i] \in Chars \cup {Newline}
    BY LenProperties, ElementOfSeq DEF Buffers
  <1> QED
    BY <1>1, SubSeqProperties DEF Front, Buffers

\* What Clear may throw away without loss: nothing, or the line itself.
LEMMA PrefixFacts ==
  ASSUME NEW s \in Buffers
  PROVE  IsPrefix(s, s) /\ IsPrefix(<<>>, s)
  <1>1. Len(s) \in Nat /\ Len(<<>>) = 0
    BY LenProperties DEF Buffers
  <1>2. SubSeq(s, 1, 0) = <<>> /\ SubSeq(<<>>, 1, 0) = <<>>
    BY SubSeqEmpty
  <1> QED
    BY <1>1, <1>2 DEF IsPrefix

\* The terminal starts in Init mode with an empty buffer (Terminal::init).
LEMMA InitInv == Init => Inv
  <1> SUFFICES ASSUME Init PROVE Inv
    OBVIOUS
  <1>1. TypeOK
    <2>1. {mode, kmain_old, shell_old} \subseteq TerminalMode
      BY DEF Init, TerminalMode
    <2>2. stdin_buffer \in Seq(Chars \cup {Newline}) /\ line \in Seq(Chars \cup {Newline})
      BY EmptySeq DEF Init
    <2>3. prints \in 0 .. KmainPrints /\ keys \in 0 .. MaxKeys
      BY TerminalAssumption DEF Init
    <2>4. {cleared, hidden, early, raced, lost} \subseteq BOOLEAN
      BY Zenon DEF Init
    <2> QED
      BY <2>1, <2>2, <2>3, <2>4 DEF Init, TypeOK, KmainPlaces, ShellPlaces
  <1> QED
    BY <1>1 DEF Init, Inv, ReaderListens, LossOnlyInWindow, BootInv, ClearInv,
       WindowInv, Saved

\* A step of kmain (write_slice of a message, khalt).
LEMMA KmainInv ==
  ASSUME Inv, Kmain
  PROVE  Inv'
  <1>1. TypeOK'
    BY TerminalAssumption
    DEF Inv, TypeOK, Kmain, KmainSave, KmainSet, KmainRestore, KmainHalt, KmainStep,
        ghosts, TerminalMode, KmainPlaces
  <1>2. ReaderListens' /\ BootInv'
    BY <1>1 DEF Inv, ReaderListens, BootInv, Kmain, KmainSave, KmainSet, KmainRestore,
       KmainHalt, KmainStep, ghosts
  <1>3. ClearInv'
    BY DEF Inv, ClearInv, BootInv, Kmain, KmainSave, KmainSet, KmainRestore, KmainHalt,
       KmainStep, ghosts
  <1>4. LossOnlyInWindow' /\ WindowInv'
    BY DEF Inv, LossOnlyInWindow, WindowInv, EndsWithNewline, Kmain, KmainSave,
       KmainSet, KmainRestore, KmainHalt, KmainStep, ghosts
  <1> QED
    BY <1>1, <1>2, <1>3, <1>4 DEF Inv

\* A step of the shell: write_slice of the prompt, readln, process_command.
LEMMA ShellInv ==
  ASSUME Inv, Shell
  PROVE  Inv'
  <1> USE DEF ghosts, ShellStep
  <1>1. CASE LeaveInit \/ PrintSave \/ PrintSet \/ PrintRestore
    <2> USE <1>1 DEF LeaveInit, PrintSave, PrintSet, PrintRestore
    <2>1. TypeOK'
      BY DEF Inv, TypeOK, TerminalMode, ShellPlaces
    <2>2. ReaderListens' /\ BootInv'
      BY <2>1 DEF Inv, ReaderListens, BootInv
    <2>3. ClearInv'
      BY DEF Inv, ClearInv, Saved
    <2>4. LossOnlyInWindow' /\ WindowInv'
      BY DEF Inv, LossOnlyInWindow, WindowInv
    <2> QED
      BY <2>1, <2>2, <2>3, <2>4 DEF Inv
  <1>2. CASE ReadlnSave \/ ReadlnSet \/ Poll
    <2> USE <1>2 DEF ReadlnSave, ReadlnSet, Poll
    <2>1. TypeOK'
      BY DEF Inv, TypeOK, TerminalMode, ShellPlaces
    <2>2. ReaderListens' /\ BootInv'
      BY <2>1 DEF Inv, ReaderListens, BootInv
    <2>3. ClearInv'
      BY DEF Inv, ClearInv, Saved
    <2>4. LossOnlyInWindow' /\ WindowInv'
      BY DEF Inv, LossOnlyInWindow, WindowInv, EndsWithNewline
    <2> QED
      BY <2>1, <2>2, <2>3, <2>4 DEF Inv
  <1>3. CASE Pop
    <2>1. stdin_buffer \in Buffers /\ stdin_buffer' \in Buffers
      BY <1>3, FrontIsBuffer, EmptySeq DEF Pop, Inv, TypeOK, Buffers
    <2>2. TypeOK'
      BY <1>3, <2>1 DEF Pop, Inv, TypeOK, ShellPlaces, Buffers
    <2>3. LossOnlyInWindow'
      BY <1>3 DEF Pop, Inv, LossOnlyInWindow, WindowInv, EndsWithNewline
    <2>4. ReaderListens' /\ BootInv' /\ ClearInv' /\ WindowInv'
      BY <1>3, <2>2 DEF Pop, Inv, ReaderListens, BootInv, ClearInv, WindowInv, Saved
    <2> QED
      BY <2>2, <2>3, <2>4 DEF Inv
  <1>4. CASE Clone
    <2>1. TypeOK'
      BY <1>4 DEF Clone, Inv, TypeOK, ShellPlaces
    <2>2. ReaderListens' /\ BootInv' /\ ClearInv' /\ WindowInv' /\ LossOnlyInWindow'
      BY <1>4, <2>1 DEF Clone, Inv, ReaderListens, BootInv, ClearInv, WindowInv, Saved,
         LossOnlyInWindow
    <2> QED
      BY <2>1, <2>2 DEF Inv
  <1>5. CASE Clear
    <2>1. TypeOK'
      BY <1>5, EmptySeq DEF Clear, Inv, TypeOK, ShellPlaces
    <2>2. LossOnlyInWindow'
      BY <1>5, PrefixFacts DEF Clear, Inv, TypeOK, LossOnlyInWindow, WindowInv, Buffers
    <2>3. ReaderListens' /\ BootInv' /\ ClearInv' /\ WindowInv'
      BY <1>5, <2>1 DEF Clear, Inv, ReaderListens, BootInv, ClearInv, WindowInv, Saved
    <2> QED
      BY <2>1, <2>2, <2>3 DEF Inv
  <1>6. CASE ReadlnReturn \/ Command \/ ShellClear
    <2> USE <1>6 DEF ReadlnReturn, Command, ShellClear, ModeAfterClear
    <2>1. TypeOK'
      BY EmptySeq DEF Inv, TypeOK, TerminalMode, ShellPlaces
    <2>2. ReaderListens' /\ BootInv'
      BY <2>1 DEF Inv, ReaderListens, BootInv
    <2>3. ClearInv'
      BY DEF Inv, ClearInv, Saved
    <2>4. LossOnlyInWindow' /\ WindowInv'
      BY DEF Inv, LossOnlyInWindow, WindowInv
    <2> QED
      BY <2>1, <2>2, <2>3, <2>4 DEF Inv
  <1> QED
    BY <1>1, <1>2, <1>3, <1>4, <1>5, <1>6 DEF Shell

\* A key (Terminal::on_key_pressed in the interrupt): a character, or the clear.
LEMMA KeyInv ==
  ASSUME Inv, (\E c \in Typed : KeyChar(c)) \/ KeyClear
  PROVE  Inv'
  <1>1. ASSUME NEW c \in Typed, KeyChar(c) PROVE Inv'
    <2>1. stdin_buffer \in Buffers /\ stdin_putc(c) \in Buffers
      <3>1. stdin_buffer \in Buffers
        BY DEF Inv, TypeOK, Buffers
      <3>2. c # Backspace => Append(stdin_buffer, c) \in Buffers
        BY <3>1, <1>1, AppendProperties DEF Typed, Buffers
      <3> QED
        BY <3>1, <3>2, FrontIsBuffer DEF stdin_putc
    <2>2. TypeOK'
      BY <1>1, <2>1, TerminalAssumption DEF KeyChar, Inv, TypeOK, Buffers
    <2>3. ReaderListens' /\ BootInv' /\ ClearInv' /\ LossOnlyInWindow'
      BY <1>1, <2>2 DEF KeyChar, Inv, ReaderListens, BootInv, ClearInv, LossOnlyInWindow
    <2>4. WindowInv'
      BY <1>1 DEF KeyChar, Inv, WindowInv, EndsWithNewline, InWindow
    <2> QED
      BY <2>2, <2>3, <2>4 DEF Inv
  <1>2. CASE KeyClear
    <2> USE <1>2 DEF KeyClear, ModeAfterClear
    <2>1. TypeOK'
      BY TerminalAssumption, EmptySeq DEF Inv, TypeOK, TerminalMode
    <2>2. ReaderListens' /\ BootInv'
      BY <2>1 DEF Inv, ReaderListens, BootInv
    <2>3. ClearInv'
      BY DEF Inv, ClearInv, Saved
    <2>4. LossOnlyInWindow' /\ WindowInv'
      BY DEF Inv, LossOnlyInWindow, WindowInv
    <2> QED
      BY <2>1, <2>2, <2>3, <2>4 DEF Inv
  <1> QED
    BY <1>1, <1>2

\* The invariant holds in every reachable state.
THEOREM Invariance == Spec => []Inv
  <1>1. Inv /\ UNCHANGED vars => Inv'
    BY DEF vars, Inv, TypeOK, ReaderListens, LossOnlyInWindow, BootInv, ClearInv,
       WindowInv, EndsWithNewline
  <1>2. Inv /\ [Next]_vars => Inv'
    BY <1>1, KmainInv, ShellInv, KeyInv DEF Next
  <1> QED
    BY <1>2, InitInv, PTL DEF Spec
-----------------------------------------------------------------------------
\* readln waits in Stdin mode, if Init mode was ended when kmain had halted.
THEOREM ReaderSafe == Spec => []ReaderListens
  BY Invariance, PTL DEF Inv

\* readln loses only characters that come between its check and its clear.
THEOREM LossConfined == Spec => []LossOnlyInWindow
  BY Invariance, PTL DEF Inv

\* A clear outside the messages of kmain ends Init mode for good.
THEOREM ClearEndsInit == Spec => []ClearLeavesInit
  <1>1. Inv => ClearLeavesInit
    BY DEF Inv, ClearInv, ClearLeavesInit
  <1> QED
    BY <1>1, Invariance, PTL
=============================================================================
