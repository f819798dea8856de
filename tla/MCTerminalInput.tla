-------------------------- MODULE MCTerminalInput --------------------------
(* Two messages of kmain; keys enough to enter input mode, type a line and  *)
(* interfere with readln while it takes it.                                 *)
EXTENDS TerminalInput
=============================================================================
