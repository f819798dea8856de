------------------------------- MODULE MCHeap -------------------------------
(* Pages of 2 units, extended two at a time, twice before frames run out.    *)
(* Layouts: one that leaves nodes at odd addresses and rests too small for a *)
(* node, an aligned one, one larger than an extension.                       *)
EXTENDS Heap

Layout(s, a) == [size |-> s, align |-> a]
MCLayouts == {Layout(3, 1), Layout(2, 2), Layout(5, 1)}
=============================================================================
