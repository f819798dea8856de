# A TLA+ model of NaviOS

NaviOS is a small x86_64 kernel in Rust (`kernel/src`). It runs on one CPU. A
timer interrupt switches between processes that all run in ring 0; a keyboard
interrupt feeds a terminal; a shell works on an in-memory file system. There
are few locks, and the hard part of the code is what interrupts may do between
two steps of a process. This directory holds TLA+ modules of its parts, the TLC
configurations that check them, and proofs checked by TLAPS.

## The system and its parts

| part | state | operations | what makes it correct |
|---|---|---|---|
| scheduler (`threading/mod.rs`) | list of processes, `current_process`, `next_pid` | `switch`, `pkill`, `pkillall`, `create_process` | never frees the process on the CPU, never follows a freed node, starves nobody |
| context switch (`arch/x86_64/threading`) | saved registers, cr3 | `context_switch`, `restore_cpu_status` | contexts return to the process they came from |
| frame allocator (`memory/frame_allocator.rs`) | bitmap | `new`, `allocate_frame`, `deallocate_frame` | a bit is clear exactly for the frames nobody owns |
| paging (`memory/paging.rs`, `memory/mod.rs`) | page tables in frames | `map_to`, `allocate_pml4`, `PageTable::free` | no table in a free frame, heap mapped everywhere |
| heap (`memory/allocator.rs`) | free list, `heap_end`, a spin lock | `alloc_mut`, `dealloc_mut`, `extend_heap` | blocks and nodes disjoint, mapped, aligned |
| keyboard (`drivers/keyboard.rs`) | prefix buffer, pressed keys | `encode_ps2_set_1` | the list of pressed keys is the set of keys held |
| keymapper (`drivers/keymapper.rs`) | constant table | `map_key` | a key types the character its modifiers say |
| terminal input (`terminal/framebuffer.rs`, `terminal/mod.rs`) | mode, stdin buffer | `on_key_pressed`, `readln`, `write_slice`, `clear` | typed lines reach the shell |
| terminal screen (`terminal/framebuffer.rs`) | cursor, viewport and the window shown of it | `putc`, `newline`, `scroll_down`, `scroll_up`, `remove_char`, `draw_viewport` | window and cursor stay in the viewport; the echo follows the input |
| panic handler (`main.rs`) | `panicked` | `cross_println`, the stack trace | a panic of the terminal it prints to is not printed again |
| escape sequences (`terminal/navitts.rs`) | tokens | `Parser` | accepts the format and reads what is written |
| ACPI tables (`arch/x86_64/acpi.rs`) | the firmware's | `nth`, `get_record_of_type` | the I/O APIC is found |
| file system (`drivers/vfs`) | tree of inodes | `open`, `read`, `write`, `create`, `createdir` | a command changes one path |
| shell (`terminal/mod.rs`) | `current_dir` | file and process commands | does what `help` says |
| interrupts, power, boot, ELF, serial | hardware, read-only tables | set up once, or read | see "Not modelled" |

They interact as follows. The timer interrupt enters the scheduler, which frees
killed processes: their stack goes back to the heap, their page tables to the
frame allocator. Every interrupt ends with `send_eoi`, which maps the local APIC
into the table of the process on the CPU and so may allocate frames. The heap
takes frames and maps pages when it is extended. The keyboard interrupt changes
the terminal's mode, buffer and screen under the processes that use them, and may
allocate on the heap. Every panic prints to the screen it may come from.
`PROJECT.json` lists the hazards at their lines.

## Modules

| module | models | state and actions |
|---|---|---|
| `ProcessTable` | what the scheduler promises | sets of live, doomed and buried ids and the runner |
| `Scheduler` | `Scheduler`, `Process`, `context_switch` | a process is its pid, the linked list the function `next`; an action per operation, an action per iteration of the loop of `switch` |
| `FramePool` | what the frame allocator promises | free and taken frames |
| `FrameAllocator` | `RegionAllocator` | the bitmap over any memory map; `owned` is a history of the frames handed out |
| `FrameRace` | `allocate_frame` split at the timer interrupt | extends `FrameAllocator` |
| `Paging` | page tables over the bitmap | the table in each frame, `cr3`, live roots; operators on a memory state for `Entry::map`, `map_to`, `allocate_pml4` |
| `Heap` | `LinkedListAllocator` | free list as a sequence of nodes, blocks handed out, mapped pages; `extend_heap` in steps |
| `HeapLock` | the heap's lock under the scheduler | composes `Scheduler` with the holder of the lock and the keyboard handler |
| `Keyboard` | the driver, and the keyboard it listens to | bytes on the wire, prefix buffer, pressed keys |
| `KeyMap` | the keymapper on top of it | extends `Keyboard`; kinds of keys and the flags each has characters for |
| `TerminalInput` | mode and stdin buffer | kmain, the shell and the interrupt, a step per access to the shared fields |
| `Screen` | cursor, viewport, scrolling, echo, panic handler | a record of positions and lengths; operators for the terminal's functions; a printing process takes a step per change of the shared fields and one where an offset into the viewport is computed, a key runs as a whole between two of them |
| `EscapeParser` | `Parser` of the escape sequences | the tokens are chosen as it comes to them; the call stack is the stack of open tuples |
| `AcpiTables` | the lookups in RSDT and MADT | any small table, and the memory behind it |
| `FileStore` | what the file system promises | contents by path |
| `RamFS` | path resolution and the ram file system | inodes; operators for resolving, creating, reading and writing, which the shell's commands are built from |
| `ShellFiles` | the shell's file commands | extends `RamFS` with `current_dir`; `home`, the inode that the latest `cd` has verified, is a history |
| `SchedulerProofs`, `FrameAllocatorProofs`, `HeapProofs`, `MappingProofs`, `PagingProofs`, `KeyboardProofs`, `TerminalInputProofs`, `ScreenProofs` | theorems | `MappingProofs` has the lemmas about `map_to` and its parts, `PagingProofs` the actions and the theorems |
| `MC*` | instances for TLC | |

Properties are at the end of each module. Definitions marked as mutants in the
comments are faulty versions of the definition that follows them; they are not
part of the specifications and show that each property can fail.

## What the runs check

Passing runs:

- **scheduler** (`MCScheduler`, 5 pids, 2 names): three processes beyond the two
  boot processes suffice for kills before, at and after the walk, for
  neighbouring dead processes and for a name that occurs several times. Besides
  the invariants it checks the refinement of `ProcessTable` and two liveness
  properties.
- **frames** (`MCFrameAllocator`): a map with a hole at 0, adjacent usable
  entries, an entry too short for the bitmap, two equally short ones, padding
  bits. The theorems cover every map.
- **paging** (`MCPaging`): four entries per table, two processes, 15 frames, so
  that frames also run out in the middle of `map_to`. The pages keep what
  matters of the real indices: the APIC's level 2 index lies in the upper half
  of a lower-half table. `FreeLeaksUpperHalf` says exactly what a freed process
  leaves behind. A panic stops the kernel, hence no deadlock check.
- **heap** (`MCHeap`): a unit is 8 bytes; four initial pages of 2 units, two
  extensions of two pages and a failing third; up to three blocks. Layouts cover
  odd node addresses, alignment gaps, rests too small for a node and a request
  larger than an extension. `Sound` is stated up to the first combination of
  nodes; what happens then is the run heap_merge. A page fault stops the kernel,
  hence no deadlock check.
- **keyboard** (`MCKeyboard`): six strokes of ten keys, a list of four keys, so
  that it can be full. `TypesCharacter` goes through the driver and the keymapper:
  the character typed is the one of the keys held and of CapsLock. The user may
  stop typing, hence no deadlock check.
- **terminal_input** (`MCTerminalInput`): two messages of kmain, five keys: one
  to leave Init mode, a line, and keys that fall into the window of `readln`.
  With no more keys everybody may wait, hence no deadlock check.
- **screen** (`MCScreen`): lines of two glyphs and a margin at the right, in a frame
  buffer of two lines and in one of two and a half; up to four times as much of
  viewport, so that it fills up and its first line is removed. Two typed characters
  and the `_` are longer than a line and wrap. The mask of `align_down` is not exact
  here but keeps the last cell (`MaskKeepsCells`); that it may not is covered by the
  theorems only. The kernel halts after a panic, hence no deadlock check.
- **shell_files** (`MCShellFiles`): the drive and two that are not there, one name
  at any depth, paths with `..` and with a separator of either kind at the end, four
  inodes, so that a directory that is not empty can be replaced; the bound on inodes ends the run, hence no deadlock check.
- **readers** (`MCReaders`): every sequence of up to eleven tokens, long enough for
  nested tuples, several attributes and several slices, against a grammar written
  down independently; RSDTs of two entries and MADTs of three records of two
  lengths, with two records of any bytes behind them. The readers stop at their
  end, hence no deadlock check.

Runs that show where the code and the repository's own words differ; each
quotation is in `PROJECT.json`, under "findings":

| run | what it shows |
|---|---|
| frame_race | a timer interrupt inside `allocate_frame` hands a frame out twice |
| heap_merge | combining nodes that are not adjacent makes the free list reach unmapped memory |
| heap_lock | an interrupt handler, for a key or burying a process, waits for the heap lock of the process it interrupted |

Differences that passing properties state as exceptions:

- `PageTable::free` never visits upper-half indices, at any level: the level 1
  table of the local APIC's page stays allocated with every process that ends
  (`FreeLeaksUpperHalf`), although `threading/mod.rs:95` says that `free` "frees all
  resources".
- A clear while kmain is in `write_slice` finds mode Stdout, and `write_slice` then
  restores Init (`ClearLeavesInit` excludes it); the shell "waits until we leave
  init mode which happens on the first terminal().clear()"
  (`terminal/mod.rs:392`).
- `draw_viewport` starts copying at `x_pos * y_pos`. Below the first screen this
  product may exceed the frame buffer, and the kernel panics. A frame buffer whose
  height is no multiple of a line has a last line that is cut, and a glyph there
  panics, also on the first screen. A clear between computing an offset into the
  viewport and using it (`framebuffer.rs:118` and `257`) truncates the viewport under
  the process. These and the next but one are all the causes of a panic of the
  terminal until a key hits a newline (`PanicsExplained`).
- A clear inside `scroll_down` of the interrupted process, or PageDown between its
  lines 181 and 182, leaves a window outside of the viewport
  (`WindowInViewport` excludes both).
- Output between typed characters, keys typed before `readln` has taken a line, and
  a typed line whose beginning has scrolled out of the viewport make `remove_char`
  blank other cells or go above the first line (`EchoMatchesInput` excludes them, up
  to the end of that line). So does a glyph width that is no power of two, where the
  mask of `align_down` may take more off the stride than the margin
  (`MaskKeepsCells`).
- `parse_tokens` does not advance past a slice without attributes (`ParserEnds`). The
  format at the top of `navitts.rs` has calls (`calle`) as values, for which
  `parse_value` has a `todo!`, as for a tuple without items (`FormatIsParsed` excludes
  both). Other values that are neither a byte nor a tuple, and the end of the tokens
  inside an attribute, panic too, but are not in the format.
- `cd` adds a `/` to a path that ends with a backslash, which leaves an empty
  component in `current_dir`: `ls` then panics, as it does after the current directory
  was replaced. Nothing else makes it panic (`LsSafe`).
- The second of two `..` in a row goes nowhere, as `reslove_path` remembers one inode
  (`ActsOnItsPath` leaves such paths out).
- If the MADT has no I/O APIC, `get_record_of_type` reads memory behind the table,
  and does not end if it takes a record of length 0 from there
  (`IOApicFound` is stated for tables that have one).
- A mapping's flags are compared for equality with those of a key: with CapsLock
  on, Enter, Backspace, Space and digits type nothing, and a letter with shift
  types nothing (`TypesCharacter` states what is typed).

Other differences between the code and its comments that the models contain but
no property is about, because one call shows them: `pkill` does not look at the
only process of a list of one; `pkillall` stops at the first match; `Entry::free`
of a mapped page takes the page for a table (`Panics` in `Paging`); ctrl + shift +
C does nothing when CapsLock is on; PrintScr is never decoded; a second read or
write through one descriptor panics; `mkdir` with a trailing slash makes a nameless directory; `nth(1)` and
`nth(2)` are the same record.

## Fairness

- Scheduler: weak fairness of the timer interrupt and of the loop of `switch`.
  The APIC timer is periodic and processes run with interrupts enabled; the
  loop runs with interrupts off and nothing in it waits (the heap lock is the
  subject of `HeapLock`).
- Heap: weak fairness of the steps of an operation that has begun.
- TerminalInput: weak fairness of kmain and of the shell, which is what
  `NoStarvation` of the scheduler gives them. Keys need not be pressed.
- Screen: none; its properties are invariants. The panic handler prints with
  `println`, which allocates: if the process that was interrupted holds the heap lock
  it spins for ever (`PanicBlocked`), so that it is not said to end.
- Readers: weak fairness of their loops, which nothing stops.

## What is proved

Eight modules hold theorems. An inductive invariant is proved with one lemma per
action, and the properties are drawn from it; keyboard and screen have two, the
second on top of the first. Those of the heap, of paging, of the keyboard, of
terminal input and of the screen were also checked by TLC on the instances of the
runs (for paging with the roles computed from the tables, instead of `\E lev`).

`SchedulerProofs`, for every `MaxPid >= 2` and every set of names
(`ConstantsAssumption`): type correctness, `RunnerNotFreed`, `CpuConsistent`,
`ListSorted`, `SwitchBounded`, `DeathIsFinal` and the refinement of
`ProcessTable`. `RunnerNotFreed` alone is not inductive: an iteration frees the
successor of `current_process`, which could be the process on the CPU if the walk
were behind it. The invariant adds that the list is sorted by pid, that
`current_process` is in it, that contexts belong to their process, and that while
the head is alive the walk is at or past the interrupted process
(`SwitchBounded`): the process it frees then has a higher pid than the one on the
CPU. The lemmas `BuryFacts` and `BuryKeepsList` say what an iteration does to the
list.

`FrameAllocatorProofs`, for every memory map with the boot loader's promises (a
usable entry, no empty ones, usable entries sorted and disjoint): `BitmapExact`,
`NothingOutOfReach` and the refinement of `FramePool`. The core is the lemma
`InitialBits`: the exclusive ors of `new` leave exactly the pool clear, because a
frame lies in at most one usable entry. The lemmas about `CHOOSE` (first, last
and best region) rest on the well-foundedness of the naturals.

`HeapProofs`, for every page size of at least a node, every number of pages per
extension, every set of layouts and every number of frames (`HeapAssumption`; the
initial heap is a multiple of an extension): `Sound`, `NeverPanics`,
`BlocksAligned`. `Sound` is not inductive: the extension adds a node behind
`heap_end`, so that nothing handed out may reach past it. The invariant adds this
bound (`Fits`; while nodes are being combined it is the end after the extension),
that `heap_end` is the beginning of a page and that requests are as large as a
node. `Sound` ends where `extend_heap` combines nodes; the other two do not.

`MappingProofs` and `PagingProofs`, for every number of entries of a table, every
size of memory, every heap whose pages lie under one level 4 entry of the higher
half (`PagingAssumption`) and identity mapped pages like those of the local APIC and
of the ACPI tables (`IdentityAssumption`: addresses of 32 bits, hence indices in
the lower half at levels 4 and 3; the APIC's level 2 index is in the upper half):
`NoDanglingTable`, `HeapShared`, `FramesExclusive`, `WritablePaths` and the action
property `FreeLeaksUpperHalf`. The invariants are not inductive: they speak about
walks from the pml4s in use, and a step keeps them only if nothing else leads to
the frames it changes. The invariant `Inv` says that frames can be given roles, a
table of level 4 to 1, a page, or neither, such that

- an entry of a table leads to a frame one level down (`Leveled`), and a frame has
  one entry that leads to it, or the same higher-half entry of several pml4s
  (`OneParent`; the identity mapped frames are excepted);
- all pml4s have the same higher half (`SharedHalf`);
- the entry above a writable entry is writable (`WritableAbove`);
- a frame with a role is used in the bitmap, unless the kernel has panicked (`Used`).

Besides, each page of the heap has a walk (`HeapWalks`); the level 4 entry of the
heap is in every pml4, so that a table added below it later is shared
(`HeapEntry`); and a path in the lower half of a pml4 that `PageTable::free` does
not follow leads to an identity mapped page (`LowerPaths`), from which
`FreeLeaksUpperHalf` follows. `map_to` is followed level by level: `Entry::map`
goes to the table that is there, or takes a free frame, which has no role yet, and
gives it one; when no frame is left, the tables entered so far stay and keep their
roles. Freeing a process takes the roles of all its private tables away, also of
those that `PageTable::free` does not visit, which stay used.

`KeyboardProofs`, for every length of the list and every table of scan codes of the
form of set 1: codes of at most eight bytes that do not end in the prefix, none of
which is the prefix without its top bit (`KeyboardAssumption`); the code of CapsLock
is one byte that no other code contains (`CapsLockAssumption`); the modifiers have
codes of one byte (`ModifierAssumption`); no key has as its code a part of another's
that the driver would decode by itself (`PartsAssumption`: only the four bytes of
PrintScr have such parts, E0 2A and E0 37, and neither is a key). The 80 codes of
`KeyCode` in `keyboard.rs` have these properties; `TypesCharacter` also needs that
the kinds of keys of the keymapper are disjoint (`KeyMapAssumption`). Proved are
`PrefixesConsumed`, `CapsLockToggles`, `HeldArePressed`, `ReleasedAreNotPressed` and
`TypesCharacter`. The first invariant speaks about the bytes on the wire: they fit
into the rest of the buffer and end with the byte of a key; CapsLock is in the list
at most once, and its state counts the make codes read, not those sent. The second,
`DriverInv`, relates wire, buffer and list to the keys. The wire holds the rest of
the code of one key, and the buffer the prefixes read of it (`Sent`). Until the list
has been full, it holds the decodable keys that are down, except that the key whose
code is on its way may be missing (`Making`); and a key that never repeated is in
it once, and only if it is down or its release is on its way (`Breaking`).
`TypesCharacter` follows from the flags of the key reported (`EventInv`) and a lemma
about which entry of a key's row `map_key` selects.

`TerminalInputProofs`, for any characters, keys and messages of kmain:
`ReaderListens`, `LossOnlyInWindow`, `ClearLeavesInit`. The invariant says which
mode each of the saved copies (`old_mode` in `write_slice` and `readln`) may hold
before kmain has halted (`BootInv`) and after a clear (`ClearInv`), and that the
buffer is what `readln` checked unless a key has come since (`WindowInv`).

`ScreenProofs`, for every stride, every size of frame buffer of at least a line,
whole lines or not, and every width and height of a glyph that fits into a line
(`ScreenAssumption`; of `align_down` it takes only that a mask makes no number
larger): `WindowInViewport`, `PanicsExplained`, `EchoMatchesInput` and
`PanicsNestOnce`. Window, viewport and cursor are kept in units of a line of text,
`Rows` being the lines that begin in the frame buffer: a line that begins in the
viewport ends in it too, unless it is the last and cut. The first invariant adds what
`scroll_down` has saved and how much room it has left at each of its steps
(`ScrollOk`), that a range that was computed is still in the viewport unless a clear
has come since (`EndOk`), that nobody types while a process prints, and that the panic
handler prints only under the flag (`HandlerInv`). The lemmas `...Good` say that an
operation keeps a screen good or fails for a reason that `Known` names; races are in
these lemmas too, where they say only that the types stay right. The second
invariant, `EchoInv`, adds that the cursor is at a cell (`Grid`), that a process is in
the middle of a character only while nothing is being typed or the line is torn, and
that the cursor is behind the typed line. The lemmas `...On` say by how many cells an
operation moves the cursor from the beginning of that line, across wraps and the
removal of the first line of the viewport: a glyph by one, `remove_char` by one back,
so that a backspace in a line in one piece does not get above the viewport. This is
what the last cause in `PanicsExplained` rests on; the others come from the first
invariant.

## What is only model-checked

- Liveness (`NoStarvation`, `EventuallyBuried`, `AllocReturns`, `LineReachesShell`,
  `ParserEnds`, `IOApicFound`), which the prover does not support.
- `LsSafe`, `ImplementsFileStore` and `ActsOnItsPath`: they depend on what a fold over a path
  computes, and on trees of any depth. This takes an induction over the path, which
  the installed provers cannot do.
- `ParsedIsRead` and `FormatIsParsed`: they compare the parser with a grammar that
  is a recursive definition over sequences of tokens.

Every other property of the passing runs is a theorem.

## Abstractions

A process's registers are the process they belong to. Operations of a process
on the scheduler's list are atomic; the walk of `switch` is not. Addresses count
frames in `FrameAllocator`, units of 8 bytes in `Heap` and pixels, or lines of text
where the code only ever moves by whole ones, in `Screen`. The content of a mapped page matters only to `Entry::free`: an ACPI
table is not all zeros. Characters, names and data are members of small sets, and
tokens are their kinds. What a command prints is any number of calls of
`write_slice`; what the panic handler prints is a number of lines of one
character. The screen model has one printing process; `TerminalInput` has two.

All glyphs have one width and `align_down` works on 16 bits, which is more than any
stride. The frame buffer has the size of width times height and may end inside of a
row of the stride, so that `Screen` takes any number of pixels for it. After a key
has hit the inside of a newline (`raced`) the model goes on, but allows no second such
race.

## Not modelled

The lexer of escape sequences (which cuts a string into tokens) and the choice of
colours; pixels; the descriptors of the file system used more than once, and
`mount` and `umount`, which nothing calls after boot; the splitting of command
lines, `echo` and `help`; the TLB; symbols of the ELF image, a read-only lookup
for stack traces; serial output; the ports written for power; the programming of
GDT, IDT and APIC (straight-line register writes at boot); the image builder.
Walks over the process list a node at a time, under the timer interrupt: the
shell is the only process that walks it, and the list then has no node that a tick
could free under it.

## Running

    tlc -config MCScheduler.cfg MCScheduler
    tlapm SchedulerProofs.tla

A proof module takes between half a minute and a few minutes, `KeyboardProofs` and
`ScreenProofs` ten to fifteen.
