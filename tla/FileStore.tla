------------------------------ MODULE FileStore ------------------------------
(***************************************************************************)
(* What the file system promises: a set of paths, each a directory or a    *)
(* file with contents.  Creating a path puts a new empty file or directory *)
(* there, in an existing directory, in place of anything that was there.   *)
(* Writing overwrites the start of a file.                                 *)
(***************************************************************************)
EXTENDS Integers, Sequences

CONSTANTS Names, \* names of files and directories
          Data   \* what may be written: sequences of bytes

VARIABLE store   \* contents by path, a sequence of names

Dir == [type |-> "Directory", data |-> <<>>]
File(data) == [type |-> "File", data |-> data]
Below(path, p) == Len(p) >= Len(path) /\ SubSeq(p, 1, Len(path)) = path

Init == store = [p \in {<<>>} |-> Dir]

\* The store s with entry at the path new, in place of what was there.
Replaced(s, new, entry) ==
  [p \in {q \in DOMAIN s : ~Below(new, q)} \cup {new} |->
     IF p = new THEN entry ELSE s[p]]

Create(s, t) ==
  \E dir \in {p \in DOMAIN s : s[p] = Dir}, n \in Names :
    LET new == Append(dir, n)
    IN new \in DOMAIN t /\ t[new] \in {Dir, File(<<>>)} /\ t = Replaced(s, new, t[new])

Overwritten(old, data) == data \o SubSeq(old, Len(data) + 1, Len(old))

Write(s, t) ==
  \E p \in {q \in DOMAIN s : s[q] # Dir}, d \in Data :
    t = [s EXCEPT ![p] = File(Overwritten(s[p].data, d))]

Next == LET s == store
            t == store'
        IN Create(s, t) \/ Write(s, t)

Spec == Init /\ [][Next]_store
=============================================================================
