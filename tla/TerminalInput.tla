---------------------------- MODULE TerminalInput ----------------------------
(***************************************************************************)
(* How typed characters reach the shell: the mode and the stdin buffer of  *)
(* the terminal (kernel/src/terminal/framebuffer.rs) are shared, without a *)
(* lock, by the keyboard interrupt, by readln in the shell and by every    *)
(* process that prints (kernel/src/terminal/mod.rs, kmain).                *)
(*                                                                         *)
(* A step of a process is one access to the mode or one call on the        *)
(* buffer.  The interrupt handler runs as a whole between two steps.       *)
(***************************************************************************)
EXTENDS Integers, Sequences, SequencesExt

CONSTANTS Chars,      \* characters other than newline and backspace
          MaxKeys,    \* bound: keys pressed
          KmainPrints \* messages kmain prints before it halts

ASSUME TerminalAssumption == MaxKeys \in Nat /\ KmainPrints \in Nat

Newline == "newline"
Backspace == "backspace"
Typed == Chars \cup {Newline, Backspace}
TerminalMode == {"Init", "Stdout", "Stdin"}

VARIABLES mode,         \* Terminal.mode
          stdin_buffer, \* Terminal.stdin_buffer
          kmain,        \* where kmain is: in write_slice, or halted
          kmain_old,    \* old_mode of its write_slice
          prints,       \* messages kmain has still to print
          shell,        \* where the shell is
          shell_old,    \* old_mode of its write_slice or readln
          line,         \* the buffer readln returns
          keys,         \* keys pressed so far
          cleared,      \* ctrl + shift + C was pressed
          hidden,       \* it was pressed inside a write_slice of kmain
          early,        \* it ended Init mode before kmain had halted
          raced,        \* a character came between the check and the clear of
                        \* the buffer in readln
          lost          \* readln threw a character away

vars == <<mode, stdin_buffer, kmain, kmain_old, prints, shell, shell_old, line,
          keys, cleared, hidden, early, raced, lost>>

KmainPlaces == {"idle", "set", "restore", "halted"}
ShellPlaces == {"init", "print", "set", "restore", "readln", "stdin", "poll",
                "pop", "clone", "clear", "return", "command"}
InWindow == shell \in {"pop", "clone", "clear"}

Init ==
  /\ mode = "Init" /\ stdin_buffer = <<>>
  /\ kmain = "idle" /\ kmain_old = "Init" /\ prints = KmainPrints
  /\ shell = "init" /\ shell_old = "Init" /\ line = <<>>
  /\ keys = 0
  /\ cleared = FALSE /\ hidden = FALSE /\ early = FALSE /\ raced = FALSE /\ lost = FALSE

ghosts == <<keys, cleared, hidden, early, raced>>
-----------------------------------------------------------------------------
(* kmain: println, whose write_slice saves the mode, sets Stdout, draws and  *)
(* restores the saved mode; then khalt.                                      *)
KmainStep(from, to) ==
  /\ kmain = from /\ kmain' = to
  /\ UNCHANGED <<stdin_buffer, shell, shell_old, line, lost, ghosts>>

KmainSave == /\ prints > 0 /\ prints' = prints - 1
             /\ kmain_old' = mode
             /\ KmainStep("idle", "set") /\ UNCHANGED mode
KmainSet == /\ mode' = "Stdout" /\ UNCHANGED <<kmain_old, prints>>
            /\ KmainStep("set", "restore")
KmainRestore == /\ mode' = kmain_old /\ UNCHANGED <<kmain_old, prints>>
                /\ KmainStep("restore", "idle")
KmainHalt == /\ prints = 0 /\ UNCHANGED <<mode, kmain_old, prints>>
             /\ KmainStep("idle", "halted")

Kmain == KmainSave \/ KmainSet \/ KmainRestore \/ KmainHalt
-----------------------------------------------------------------------------
(* The shell *)
ShellStep(from, to) ==
  /\ shell = from /\ shell' = to
  /\ UNCHANGED <<kmain, kmain_old, prints, ghosts>>

\* shell waits for Stdin mode.
LeaveInit ==
  /\ mode = "Stdin"
  /\ ShellStep("init", "print")
  /\ UNCHANGED <<mode, stdin_buffer, shell_old, line, lost>>

\* write_slice of the prompt, and of what a command prints before it.
PrintSave == /\ shell_old' = mode
             /\ ShellStep("print", "set")
             /\ UNCHANGED <<mode, stdin_buffer, line, lost>>
PrintSet == /\ mode' = "Stdout"
            /\ ShellStep("set", "restore")
            /\ UNCHANGED <<stdin_buffer, shell_old, line, lost>>
PrintRestore == /\ mode' = shell_old
                /\ ShellStep("restore", "print") \/ ShellStep("restore", "readln")
                /\ UNCHANGED <<stdin_buffer, shell_old, line, lost>>

\* readln: saves the mode and sets Stdin,
ReadlnSave == /\ shell_old' = mode
              /\ ShellStep("readln", "stdin")
              /\ UNCHANGED <<mode, stdin_buffer, line, lost>>
ReadlnSet == /\ mode' = "Stdin"
             /\ ShellStep("stdin", "poll")
             /\ UNCHANGED <<stdin_buffer, shell_old, line, lost>>

\* waits until the buffer ends with a newline,
\* (the mutant: until it is not empty)
HasCharacter == stdin_buffer # <<>>
EndsWithNewline == stdin_buffer # <<>> /\ Last(stdin_buffer) = Newline
Poll == /\ EndsWithNewline
        /\ ShellStep("poll", "pop")
        /\ UNCHANGED <<mode, stdin_buffer, shell_old, line, lost>>

\* pops it, clones the buffer, clears the buffer, restores the mode.
Pop == /\ stdin_buffer' = IF stdin_buffer = <<>> THEN <<>> ELSE Front(stdin_buffer)
       /\ lost' = (lost \/ (stdin_buffer # <<>> /\ Last(stdin_buffer) # Newline))
       /\ ShellStep("pop", "clone")
       /\ UNCHANGED <<mode, shell_old, line>>
Clone == /\ line' = stdin_buffer
         /\ ShellStep("clone", "clear")
         /\ UNCHANGED <<mode, stdin_buffer, shell_old, lost>>
Clear == /\ stdin_buffer' = <<>>
         /\ lost' = (lost \/ ~IsPrefix(stdin_buffer, line))
         /\ ShellStep("clear", "return")
         /\ UNCHANGED <<mode, shell_old, line>>
\* (the mutant: the return is missing, and it takes another line)
ReadlnLoops == /\ mode' = shell_old
               /\ ShellStep("return", "pop")
               /\ UNCHANGED <<stdin_buffer, shell_old, line, lost>>
ReadlnReturn == /\ mode' = shell_old
                /\ ShellStep("return", "command")
                /\ UNCHANGED <<stdin_buffer, shell_old, line, lost>>

\* process_command: commands print, and clear reads another line.
Command == /\ ShellStep("command", "print")
           /\ line' = <<>>
           /\ UNCHANGED <<mode, stdin_buffer, shell_old, lost>>

\* Terminal::clear ends Init mode only; the mutants any mode, and none.
ModeStays == mode
ModeAlwaysStdin == "Stdin"
ModeAfterClear == IF mode = "Init" THEN "Stdin" ELSE mode

\* The clear command, confirmed by the line just read: Terminal::clear.
ShellClear == /\ ShellStep("command", "print")
              /\ line' = <<>>
              /\ stdin_buffer' = <<>>
              /\ mode' = ModeAfterClear
              /\ UNCHANGED <<shell_old, lost>>

Shell == \/ LeaveInit \/ PrintSave \/ PrintSet \/ PrintRestore
         \/ ReadlnSave \/ ReadlnSet \/ Poll \/ Pop \/ Clone \/ Clear
         \/ ReadlnReturn \/ Command \/ ShellClear
-----------------------------------------------------------------------------
(* The keyboard interrupt: Terminal::on_key_pressed                          *)

\* stdin_putc: the character is pushed; a backspace pops itself and the one
\* before it.
stdin_putc(c) == IF c # Backspace THEN Append(stdin_buffer, c)
                 ELSE IF stdin_buffer = <<>> THEN <<>> ELSE Front(stdin_buffer)

\* A key that maps to a character: ignored unless the mode is Stdin.
KeyChar(c) ==
  /\ keys < MaxKeys /\ keys' = keys + 1
  /\ stdin_buffer' = IF mode = "Stdin" THEN stdin_putc(c) ELSE stdin_buffer
  /\ raced' = (raced \/ (mode = "Stdin" /\ InWindow))
  /\ UNCHANGED <<mode, kmain, kmain_old, prints, shell, shell_old, line,
                 cleared, hidden, early, lost>>

\* ctrl + shift + C, Terminal::clear: empties the buffer and ends Init mode.
KeyClear ==
  /\ keys < MaxKeys /\ keys' = keys + 1
  /\ stdin_buffer' = <<>>
  /\ mode' = ModeAfterClear
  /\ cleared' = TRUE
  /\ hidden' = (hidden \/ kmain \in {"set", "restore"})
  /\ early' = (early \/ (mode = "Init" /\ kmain # "halted"))
  /\ UNCHANGED <<kmain, kmain_old, prints, shell, shell_old, line, raced, lost>>

Next == Kmain \/ Shell \/ (\E c \in Typed : KeyChar(c)) \/ KeyClear

Spec == Init /\ [][Next]_vars
\* The scheduler runs every process again and again; keys need not be pressed.
FairSpec == Spec /\ WF_vars(Kmain) /\ WF_vars(Shell)
-----------------------------------------------------------------------------
(* Properties *)

\* The state has its type.
TypeOK ==
  /\ {mode, kmain_old, shell_old} \subseteq TerminalMode
  /\ stdin_buffer \in Seq(Chars \cup {Newline}) /\ line \in Seq(Chars \cup {Newline})
  /\ kmain \in KmainPlaces /\ prints \in 0 .. KmainPrints
  /\ shell \in ShellPlaces
  /\ keys \in 0 .. MaxKeys
  /\ {cleared, hidden, early, raced, lost} \subseteq BOOLEAN

\* The state has its type, and if Init mode was ended after kmain had halted, as
\* its last message asks for, the terminal is in Stdin mode whenever readln waits
\* for a line: the saves and restores of write_slice, readln and clear undo each
\* other.
ReaderListens == TypeOK /\ (shell = "poll" /\ ~early => mode = "Stdin")

\* readln throws away a typed character only if it came between its check for
\* the newline and its clear of the buffer, never one typed before or after.
LossOnlyInWindow == lost => raced

\* A newline at the end of the buffer gets the shell out of readln and to the
\* next prompt, unless keys keep coming.
LineReachesShell ==
  (shell = "poll" /\ EndsWithNewline)
    ~> (shell = "print" \/ (shell = "poll" /\ ~EndsWithNewline))

\* The first clear leaves Init mode for good, as shell expects, unless it came
\* inside a message of kmain: write_slice then restores the mode it had saved.
ClearLeavesInit == cleared /\ ~hidden => mode # "Init"
=============================================================================
