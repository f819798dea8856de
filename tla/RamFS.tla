-------------------------------- MODULE RamFS --------------------------------
(***************************************************************************)
(* The file system: path resolution of the VFS (kernel/src/drivers/vfs/    *)
(* mod.rs) and the in-memory file system mounted as "ram"                  *)
(* (kernel/src/drivers/vfs/ramfs.rs), as operators for the commands that   *)
(* use them.                                                               *)
(*                                                                         *)
(* A path is the sequence of the components after the drive; both '/' and  *)
(* '\' separate components, and a trailing one leaves an empty component.  *)
(***************************************************************************)
EXTENDS Integers, Sequences, SequencesExt

CONSTANTS Names,    \* names of files and directories
          Data,     \* what clients write: sequences of bytes
          MaxNodes  \* bound: inodes made

Root == 1
Nodes == 1 .. MaxNodes
Blank == ""
Dot == "."
DotDot == ".."
Components == Names \cup {Blank, Dot, DotDot}

\* What stands before the path: a drive, or text without ':' at its end.
Ram == "ram"
Malformed == "malformed"

\* vfs::init mounts one file system, and nothing is mounted later.
drivers == {Ram}

ASSUME RamFSAssumption ==
  /\ MaxNodes \in Nat \ {0}
  /\ Names \cap {Dot, DotDot} = {}
  /\ <<>> \notin Data

VARIABLES nodes, \* the inodes made so far, those dropped included
          out    \* the result of the latest operation

vars == <<nodes, out>>

\* RamInode::new_dir and new_file.
new_dir == [type |-> "Directory", data |-> <<>>, children |-> <<>>]
new_file == [type |-> "File", data |-> <<>>, children |-> <<>>]
is_dir(n) == nodes[n].type = "Directory"

Init ==
  /\ nodes = <<new_dir>>
  /\ out = "Ok"
-----------------------------------------------------------------------------
(* Operators *)

\* Where ".." goes to: the inode before the current one, which a second ".."
\* does not change.  The mutant has not kept it.
UpToRoot(s) == Root
Up(s) == s.prev

\* FS::reslove_path, a component at a time.
ResolveStep(s, c) ==
  CASE s.res # "Ok" -> s
    [] s.res = "Ok" /\ s.blank -> [s EXCEPT !.res = "InvaildPath"]
    [] s.res = "Ok" /\ ~s.blank /\ c = Blank -> [s EXCEPT !.blank = TRUE]
    [] s.res = "Ok" /\ ~s.blank /\ c = Dot -> s
    [] s.res = "Ok" /\ ~s.blank /\ c = DotDot -> [s EXCEPT !.node = Up(s)]
    [] s.res = "Ok" /\ ~s.blank /\ c \notin {Blank, Dot, DotDot} ->
         IF is_dir(s.node) /\ c \in DOMAIN nodes[s.node].children
         THEN [s EXCEPT !.prev = s.node, !.node = nodes[s.node].children[c]]
         ELSE [s EXCEPT !.res = "NoSuchAFileOrDirectory"]

reslove_path(path) ==
  FoldLeft(ResolveStep, [node |-> Root, prev |-> Root, blank |-> FALSE, res |-> "Ok"], path)

\* VFS::get_from_path: the drive must end with ':' and be mounted.
get_from_path(drive) ==
  IF drive = Malformed THEN "InvaildDrive"
  ELSE IF drive \notin drivers THEN "NoSuchAFileOrDirectory" ELSE "Ok"

\* VFS::open, create, createdir and verify_path_dir go to the drive and resolve
\* the path there.
Find(drive, path) ==
  LET res == get_from_path(drive)
  IN IF res = "Ok" THEN reslove_path(path)
     ELSE [node |-> Root, prev |-> Root, blank |-> FALSE, res |-> res]

\* Mutant of WithChild: the other entries are lost.
OnlyChild(children, name, n) == [c \in {name} |-> n]

\* RamInode::insert of a new inode: an entry of that name is replaced, and
\* dropped with all below it.
WithChild(children, name, n) ==
  [c \in DOMAIN children \cup {name} |-> IF c = name THEN n ELSE children[c]]
insert(dir, name, new) ==
  Append([nodes EXCEPT ![dir].children = WithChild(@, name, Len(nodes) + 1)], new)

\* VFS::create and createdir of an inode in the directory at path.
CreateNode(drive, path, name, new) ==
  LET r == Find(drive, path)
      res == IF r.res # "Ok" THEN r.res
             ELSE IF ~is_dir(r.node) THEN "NotADirectory" ELSE "Ok"
  IN /\ Len(nodes) < MaxNodes
     /\ nodes' = IF res = "Ok" THEN insert(r.node, name, new) ELSE nodes
     /\ out' = res

\* RamInode::write of a buffer at an offset: the slice data[offset..len] it
\* copies to has the length of the buffer only when the offset is 0.
WriteAt(n, buffer, offset) ==
  LET old == nodes[n].data
      size == IF Len(old) < Len(buffer) + offset THEN Len(buffer) + offset ELSE Len(old)
      resized == [i \in 1 .. size |-> IF i <= Len(old) THEN old[i] ELSE 0]
  IN IF is_dir(n) THEN nodes' = nodes /\ out' = "NotAFile"
     ELSE IF offset # 0
     THEN /\ nodes' = [nodes EXCEPT ![n].data = resized]
          /\ out' = "panic"
     ELSE /\ nodes' = [nodes EXCEPT ![n].data =
                         buffer \o SubSeq(resized, Len(buffer) + 1, size)]
          /\ out' = "Ok"

\* RamFS::readdir.
readdir(n) == IF is_dir(n) THEN "Ok" ELSE "NotADirectory"

\* RamFS::read: data[offset..count] has count bytes only when the offset is 0.
ReadAt(n, offset) ==
  /\ out' = IF is_dir(n) THEN "NotAFile" ELSE IF offset # 0 THEN "panic" ELSE "Ok"
  /\ UNCHANGED nodes
=============================================================================
