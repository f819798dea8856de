----------------------------- MODULE ShellFiles -----------------------------
(***************************************************************************)
(* The file commands of the shell, kernel/src/terminal/mod.rs: touch,      *)
(* mkdir, ls, cd, cat and write, over the file system of RamFS.  Each      *)
(* opens a descriptor of its own and uses it once.                         *)
(***************************************************************************)
EXTENDS RamFS

CONSTANTS Args,   \* paths typed: the drive or None, the components, and whether
                  \* a separator at the end is '/' and not '\'
          MaxPath \* bound: components of current_dir

VARIABLES current_dir, \* Terminal.current_dir, without drive and last '/'
          home         \* the inode that the latest cd verified

shellVars == <<vars, current_dir, home>>

None == "none"

ASSUME ShellAssumption ==
  /\ \A a \in Args : a.drive \in STRING /\ a.path \in Seq(Components) /\ a.slash \in BOOLEAN
  /\ \A a \in Args : a.drive = None => a.path # <<>>
  /\ MaxPath \in Nat

Running == out # "panic"

ShellInit ==
  /\ Init
  /\ current_dir = <<>> /\ home = Root

\* get_path: a path that names a drive as it is, another one after current_dir.
get_path(a) == IF a.drive # None THEN a.path ELSE current_dir \o a.path
DriveOf(a) == IF a.drive # None THEN a.drive ELSE Ram

\* touch and mkdir: the last component is the name, the rest the directory.
\* The drive alone leaves no directory: its name is taken for the new name, and
\* the empty path has no drive.
make(a, new) ==
  LET path == get_path(a) IN
  /\ Running
  /\ \/ /\ path # <<>>
        /\ CreateNode(DriveOf(a), Front(path), Last(path), new)
     \/ /\ path = <<>>
        /\ out' = "InvaildDrive"
        /\ UNCHANGED nodes
  /\ UNCHANGED <<current_dir, home>>

touch(a) == make(a, new_file)
mkdir(a) == make(a, new_dir)

\* VFS::verify_path_dir; the mutant accepts a file.
verify_path(drive, path) == Find(drive, path).res
verify_path_dir(drive, path) ==
  LET r == Find(drive, path)
  IN IF r.res = "Ok" /\ ~is_dir(r.node) THEN "NotADirectory" ELSE r.res

\* cd: verify_path_dir, then the path becomes current_dir, with a '/' unless it
\* ends with one: behind a '\' this leaves an empty component inside.
cd(a) ==
  LET path == get_path(a)
      res == verify_path_dir(DriveOf(a), path)
      dir == IF path # <<>> /\ Last(path) = Blank /\ a.slash THEN Front(path) ELSE path
  IN
  /\ Running
  /\ Len(dir) <= MaxPath
  /\ current_dir' = IF res = "Ok" THEN dir ELSE current_dir
  /\ home' = IF res = "Ok" THEN Find(DriveOf(a), path).node ELSE home
  /\ out' = res
  /\ UNCHANGED nodes

\* ls unwraps the results of open and readdir on current_dir and its '/'.
ls ==
  LET r == Find(Ram, Append(current_dir, Blank)) IN
  /\ Running
  /\ out' = (IF r.res = "Ok" /\ readdir(r.node) = "Ok" THEN "Ok" ELSE "panic")
  /\ UNCHANGED <<nodes, current_dir, home>>

\* cat and write: open the path, then one read of the whole file or one write.
cat(a) ==
  LET r == Find(DriveOf(a), get_path(a)) IN
  /\ Running
  /\ IF r.res = "Ok" THEN ReadAt(r.node, 0)
     ELSE out' = r.res /\ UNCHANGED nodes
  /\ UNCHANGED <<current_dir, home>>
write(a, buffer) ==
  LET r == Find(DriveOf(a), get_path(a)) IN
  /\ Running
  /\ IF r.res = "Ok" THEN WriteAt(r.node, buffer, 0)
     ELSE out' = r.res /\ UNCHANGED nodes
  /\ UNCHANGED <<current_dir, home>>

ShellNext ==
  \/ \E a \in Args : touch(a) \/ mkdir(a) \/ cd(a) \/ cat(a)
  \/ \E a \in Args, d \in Data : write(a, d)
  \/ ls

ShellSpec == ShellInit /\ [][ShellNext]_shellVars
-----------------------------------------------------------------------------
(* Properties *)

\* The inodes in the tree with their paths, by depth: a path of d components
\* goes through d + 1 inodes.
AtDepth[d \in 0 .. MaxNodes - 1] ==
  IF d = 0 THEN {[path |-> <<>>, node |-> Root]}
  ELSE UNION {{[path |-> Append(x.path, c), node |-> nodes[x.node].children[c]] :
                 c \in DOMAIN nodes[x.node].children} : x \in AtDepth[d - 1]}
Tree == UNION {AtDepth[d] : d \in 0 .. MaxNodes - 1}

\* The state has its type: children are inodes made before.
TypeOK ==
  /\ Len(nodes) \in Nodes
  /\ \A n \in DOMAIN nodes :
       /\ nodes[n].type \in {"Directory", "File"}
       /\ nodes[n].data \in Seq(Int)
       /\ \A c \in DOMAIN nodes[n].children :
            c \in Components /\ nodes[n].children[c] \in DOMAIN nodes
  /\ current_dir \in Seq(Components) /\ Len(current_dir) <= MaxPath
  /\ home \in DOMAIN nodes

\* The inodes as paths with contents.
Store ==
  LET tree == Tree IN
  [p \in {x.path : x \in tree} |->
     LET n == (CHOOSE x \in tree : x.path = p).node
     IN [type |-> nodes[n].type, data |-> nodes[n].data]]

FS == INSTANCE FileStore WITH Names <- Components, store <- Store

\* The commands implement the file store: whatever way a path is written, a
\* command changes the contents of one path or replaces one subtree, and
\* everything else keeps its contents.
ImplementsFileStore == FS!Spec

\* The path without ".", ".." and a separator at its end.
NormalStep(p, c) ==
  IF c = DotDot THEN IF p = <<>> THEN p ELSE Front(p)
  ELSE IF c \in {Blank, Dot} THEN p ELSE Append(p, c)
Normal(path) == FoldLeft(NormalStep, <<>>, path)
\* No ".." follows another without a name between them.
UpOnce(path) ==
  \A i, j \in DOMAIN path : i < j /\ path[i] = DotDot /\ path[j] = DotDot =>
    \E k \in i .. j : path[k] \in Names

\* A step that leaves alone all paths but those at and below p.
ChangesOnly(p) ==
  LET before == Store
      after == Store'
  IN /\ p \in DOMAIN after
     /\ \A q \in DOMAIN before \cup DOMAIN after : FS!Below(p, q) \/
          (q \in DOMAIN before /\ q \in DOMAIN after /\ before[q] = after[q])

\* A command that succeeds acts on the path that was typed: what touch, mkdir
\* and write change is at the path that current_dir and the argument spell, ".",
\* ".." and a separator at the end resolved as usual.  Paths that go up twice in
\* a row are left out: the second ".." of reslove_path goes nowhere.
ActsOnItsPath ==
  [][out' = "Ok" /\ nodes' # nodes =>
       \A a \in Args :
         LET path == get_path(a) IN
         UpOnce(path) =>
           /\ (touch(a) \/ mkdir(a)) =>
                ChangesOnly(Append(Normal(Front(path)), Last(path)))
           /\ (\E d \in Data : write(a, d)) => ChangesOnly(Normal(path))]_shellVars

\* The tree is well-formed, and ls panics only if the directory that the latest
\* cd verified was replaced since, itself or with one above it, or if cd was
\* given a path that ends with a '\'.  Otherwise current_dir, kept as text,
\* still resolves to a directory, whatever was created and replaced.
LsSafe ==
  TypeOK /\ (~Running =>
    \/ home \notin {x.node : x \in Tree}
    \/ current_dir # <<>> /\ Last(current_dir) = Blank)
=============================================================================
