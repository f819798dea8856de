------------------------------ MODULE MCScreen ------------------------------
(* Lines of two glyphs and a margin at the right, in two frame buffers: one  *)
(* of two lines, and one that ends in the middle of a third.  A typed line   *)
(* with its '_' is longer than a line of the screen.                         *)
EXTENDS Screen
=============================================================================
