------------------------------ MODULE FramePool ------------------------------
(***************************************************************************)
(* What a physical frame allocator promises: the frames of a fixed pool    *)
(* are handed out to one owner at a time.  FrameAllocator is shown to      *)
(* implement this.                                                         *)
(***************************************************************************)
CONSTANT Pool      \* the frames that may be handed out

VARIABLES free,    \* frames nobody owns
          taken    \* frames handed out and not returned

vars == <<free, taken>>

Init == free = Pool /\ taken = {}

Take ==
  \E f \in free : free' = free \ {f} /\ taken' = taken \cup {f}

Return ==
  \E f \in taken : free' = free \cup {f} /\ taken' = taken \ {f}

Next == Take \/ Return

Spec == Init /\ [][Next]_vars
=============================================================================
