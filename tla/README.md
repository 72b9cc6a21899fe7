# sandor_os: a verification project

TLA+ models of the sandor_os kernel (`src/kernel`): who owns which memory and where
it is mapped, what an interrupt finds, what waits in the keyboard buffer, what
stands on the screen, what a command line runs, what the disk driver transfers. TLC
checks small instances; TLAPS proves every safety property and every refinement that
the runs check, up to fairness, for every size. Liveness is left to TLC.

## The system

sandor_os is a 32-bit x86 kernel that GRUB starts. `kernel_main` (main.cpp)
initialises the memory manager, the GDT, interrupts and the console, switches to
the user address space and enters user mode. It runs on one processor.
`startup.asm` clears the interrupt flag and nothing in the kernel sets it;
`enter_usermode` sets it in the flags it returns to. The build does not optimise
(no `-O`), so globals are read and written where the source says.

| component | state | operations | depends on |
|---|---|---|---|
| physical page allocator (memory_manager.c:109-240) | free list inside the free pages, its head, page count | `alloc_phys_pages`, `free_phys_pages` | the TEMP_PAGE window |
| paging (84-107, 242-297) | page directory and tables | `map_pages`, `unmap_pages`, `get_physaddr`, `temp_map_page` | physical allocator |
| virtual block table (299-426) | sorted table of used address ranges | `add_virt_block`, `del_virt_block`, `alloc_virt_pages`, `free_virt_pages` | paging, physical allocator |
| kernel heap (428-510) | sorted table of live blocks | `kmalloc`, `kfree` | virtual block table (to grow its table) |
| address spaces (76-82, 512-556) | current space; descriptors copied from the kernel's | `clone_directory`, `change_address_space` | all of the above |
| keyboard buffer (tty.c:21-24, 146-174) | ring and two counters | `keyboard_int_handler` (interrupt), `in_scancode` | interrupts |
| console and line input (tty.c:31-92, 175-243) | cells, cursor, line buffer | `out_char`, `move_cursor`, `clear_screen`, `in_char`, `in_string` | heap, keyboard buffer |
| shell (shell.c) | command, argc, argv | `shell`, `pars_input`, `do_command` | console, heap |
| interrupts, PIC, PIT | IDT, wrappers on the heap, masks | `set_int_handler`, `init_PIC`, `enable_*` | heap |
| ATA driver (ATA.c) | device table | `send_command`, `read_ATA`, `write_ATA` | heap, the disk |
| string library (stdlib.c), list template (List.hpp) | none / a linked list | `memcpy`, `strcmp`, ... | heap |
| boot, GDT, TSS, user mode | descriptors, registers | straight-line set-up | paging |

What is hard here is mostly *sequences*: which branch of `free_phys_pages` or
`kmalloc` runs depends on all calls before, and a wrong link or entry shows up
many calls later. Three things really interleave: interrupts with the boot code and
with the reader of the keyboard buffer, the disk drives with the polling driver, and
the processor's translation cache with the code that changes page tables. Nothing is
persisted, so there is no crash recovery.

What makes each part correct: the allocators own every page or byte at most once,
lose none, and refuse only when they must; their walks end; the keyboard buffer is
a queue; the line editor returns what was typed less what was erased, and shows
it; the shell runs what was typed; a page table translates what was mapped, and no
stale translation is used; an interrupt that is taken finds its handler; a disk
command goes to a drive that is idle, and every call ends.
`PROJECT.json` lists the hazards line by line.

## Modules

| module | models | properties |
|---|---|---|
| `PhysMemory` (`MCPhysMemory` for TLC) | `alloc_phys_pages`, `free_phys_pages` | `TypeOK`, `FreeListSound`, `NoPageHandedOutTwice`, `CountIsExact`, `AllocFindsRoom`, `CallsReturn` |
| `PhysMemoryProofs` | | five theorems |
| `Heap` | `kmalloc`, `kfree` | `HandsOutUnheld`, `NoHoles`, `StoresInTable`, `FullMeansFull`, `FreedBlocksLeave` |
| `AddressSpaces` | `Heap` with the memory of its table, and the change to the user's space | `TableHoldsBlocks` |
| `HeapProofs` | | nine theorems, about `Heap` and `AddressSpaces` |
| `Paging` (`MCPaging`) | `map_pages`, `unmap_pages`, `get_physaddr`, `clone_directory`, `change_address_space`, `startup.asm`'s tables | `TablesApart`, `DoesWhatWasAsked`, `TlbCoherent`, `SharedAlike`, `OthersKept` |
| `PagingProofs` | | five theorems |
| `VirtMemory` (`MCVirtMemory`) | `add_virt_block`, `del_virt_block`, `alloc_virt_pages`, `free_virt_pages` | `InOrder`, `FramesAccounted`, `TableHoldsAll`, `FullMeansFull`, `LostOnlyBesideGap` |
| `VirtMemoryProofs` | | five theorems |
| `KeyQueue` | what the keyboard buffer promises | |
| `KeyBuffer` | `keyboard_int_handler`, `in_scancode` | `TypeOK`, `IsQueue` |
| `Interrupts` | `init_interrupts`, `set_int_handler`, the wrapper, `init_PIC`, `enable_*`, `enter_usermode` | `GateIsComplete`, `EndsOwnService`, `InterruptsAreTaken` |
| `Keyboard` | `KeyBuffer` and `Interrupts` composed | those of both |
| `KeyboardProofs` | | five theorems |
| `LineEditor` | what `in_string` promises | |
| `Console` | `out_char`, `move_cursor`, `clear_screen`, `in_string` | `TypeOK`, `OnScreen`, `IsLineEditor` |
| `KeyInput` (with `Console` in `MCConsole`) | `in_char`, over `KeyQueue` | `LettersAsTyped` |
| `ConsoleProofs` | | six theorems, about `Console`, `KeyInput` and `Shell` |
| `Shell` (instantiated in `MCShell`) | `shell`, `pars_input`, `do_command`, the arguments of `physdump` and `virtdump` | `RunsWhatWasTyped`, `StaleOnlyWhenBare`, `DumpTakesOneValue`, `FillsWhatItCounted` |
| `Ata` | the polling loops, `send_command`, `read_ATA`, `write_ATA`, `init_ATA_device` | `CommandsReachIdleDrive`, `AvailableIsThere`, `OnlyShortWritesAreDropped`, `CallsEnd` |
| `AtaProofs` | | three theorems |
| `StdLib` | `memcpy` | `CopiesAsOnePiece` |
| `Strings` | `memchr`, `memcmp`, `strlen`, `strchr`, `strcmp`, `strcpy`, `strncpy` | `ReadsStrings`, `CopiesStrings` |
| `ItemSequence`, `List` | what `List.hpp` promises; the template | `IsSequence` |
| `Library` (`MCLibrary`) | `StdLib`, `Strings` and `List`, one of which runs | those of the three |
| `LibraryProofs` | | six theorems |

Definitions whose comment begins with "Mutant of" are wrong on purpose: each is a
plausible bug, and substituting it for the definition it names breaks a property.
They are used by no specification.

### PhysMemory

The header `{next, prev, size}` of a free block lies in the block's first page, so
the model keeps three words for *every* page; `OwnerWrites` lets whoever owns a
page overwrite them. One action is one iteration of the `do ... while` loop of
`alloc_phys_pages` (`AllocWhole`, `AllocTop`, `AllocWalk`, `AllocFails`) or
`free_phys_pages` (`FreeInsert`, `FreeExtend`, `FreeClosesGap`, `FreeExtendDown`,
`FreeWalk`, `FreeDrops`); `AllocRefused`, `AllocCall`, `FreeFirst` and `FreeCall`
are what happens before the loop. Stores that may hit the same page (`next`, `prev`
and `cur_block` may coincide) are nested in the order of the code. The merge
inside `FreeExtend` (187-198) is modelled although no walk reaches it: a walk comes
from above and meets the upper neighbour first. Three history variables: `owned`, the pages callers
hold; `dropped`, the pages the free counted without linking them; `spliced`, set
when the block that grows downwards is the only one in the list.

Two behaviours of the code shape the properties. No comment or document promises
otherwise, so they are recorded here and as hazards, not as findings:

* A run that lies below all blocks and touches none falls out of the loop
  (235-236) unlinked but counted (239). `CountIsExact` therefore counts `dropped`,
  and `FreeListSound` leaves it out of what the list must hold.
* Extending a sole block downwards (221-232) reads `next` and `prev` from the old
  header, which point to that header, so the old block stays linked inside the new
  one. Properties other than `TypeOK` are stated up to that step.

### Heap

`blocks` is the table, in address order; its length is `block_count`. One action is
one call. `kmalloc` is split by the branch it takes: no room for a larger table, first
block, below the lowest block, behind block *i* (first fit), full. Whether
`alloc_virt_pages` finds room for a larger table is left open (`KmallocNoTable`).
`kfree` compares with entry 0 only, as its loop does. `written` is the last slot a
call stored into, to state that nothing is stored behind the table.

### AddressSpaces

`init_memory_manager` copies the kernel's descriptors to the user's by value, so both
spaces count entries of one table, each with its own `block_count`. `AddressSpaces`
extends `Heap`: the variables of `Heap` are those of the current space, and `table` is
the memory the entries lie in, stale ones included. The calls move entries by `memcpy`
as the code does, one too many where it does. `change_address_space` is
`kernel_main`'s only call: the user's count is 0, the table keeps what the kernel left
in it. It is taken while the table has not moved: the kernel allocates some 260 blocks
before, and one page takes 512. The user's heap then behaves as a fresh one, over
the kernel's memory: the first block it is handed out is where the kernel's first
interrupt wrapper lies. No document promises otherwise.

### Paging

Directories and tables are frames of one memory, reached through the TEMP_PAGE window;
a fresh table is any frame with any contents (`Junk`), since `map_pages` does not
clear it. One action is one iteration of a loop. The window matters within a step
only: `DirectoryWindow` is where it stands when `map_pages` stores the new table's
entry, after `alloc_phys_pages` has moved it. `tlb` is one translation the processor
may have cached at any moment; CR4.PGE is not set, so loading cr3 drops global pages
too. Callers map pages above region 0 only, as both spaces begin above it
(script.ld:5-8): `clone_directory` relies on the table of region 0 that `startup.asm`
made. `shared` are the regions that had a table when the directory was cloned: exactly
those are the same in both spaces. After that, `OthersKept` is the strongest statement
the code allows about pages the caller did not name.

### VirtMemory

Addresses are page numbers modulo `NPages`, so that sums wrap at the top of the
kernel's space as they do at 2^32. A call of `alloc_virt_pages` is up to three steps:
the call, `GrowTable`, `PlaceBlock`. Where the code goes on after something it did not
look at, the history variable `fault` names it and exploration stops: no space (the
NULL of `add_virt_block`), wrapped (the sum wrapped and the block is inserted over others
or at address 0), no frame (-1 is mapped as one), the table lost in its own
growth (the new place takes in the old one and maps it anew before the copy), a shrunk
table (`blocks + (table_size - 1) * PAGE_SIZE` counts entries, so the page that is
freed lies `Stride` times too far). The properties say what holds up to then,
`FullMeansFull` when a request is neither refused nor wrapped, and `LostOnlyBesideGap`
when the loss cannot happen. `beyond` is how far behind the table the last insertion
wrote, measured against the table in which it was made, the old one during growth. `cur_address_space` is chosen once:
the kernel's bounds, or the user's, which lie below all of the kernel's blocks.
Requests are smaller than what lies above the space's start: `start + size` of a
larger one would wrap in the comparison with the first block (305), and the new block
would overlap it. No caller makes one.

### KeyQueue and KeyBuffer

The handler runs in an interrupt gate and is one action; `in_scancode` is split at
each access to a shared counter, since it neither masks interrupts nor takes a lock.
(The call that unmasks the keyboard is commented out in `init_tty` at this commit.)
`Keyboard` shows that the handler really is one action: see below. `KeyQueue` is what a reader may rely on: order, no duplicates, no
invention, no loss before the buffer is full. `IsQueue` maps the ring to the queue:
equal counters mean empty, except to a reader that has already seen a code, to whom
they mean full.

### Interrupts and Keyboard

`Program` is what `kernel_main` does about interrupts, and `SetStep` is
`set_int_handler` store by store: the gate has its type before it has its address, and
the wrapper is a copy of a template that calls itself until its call is patched. Devices
raise their lines at any time, also before the controller is initialised. A gate's
entry clears the flag; every wrapper ends with an end of interrupt, whatever its
vector, and `iretd`. `Keyboard` composes this with `KeyBuffer`: the handler of the
keyboard runs when its wrapper calls it, the reader whenever no interrupt is handled.
The lines are unmasked by `enable_PIT` and `enable_keyboard`, which nothing calls at
this commit; the model lets the user program call them. Exceptions, whose error code
the wrapper does not remove, and the slave's lines, which stay masked, are left out.

### KeyInput

`in_char` over `KeyQueue`: a code sets or clears the local variable `shift`, becomes a
letter, or is skipped. Histories record which letter the typist pressed, and whether a
shift key was down then. Every call begins without shift, so a letter typed with a
shift key that went down before the call is not shifted: only one direction holds.

### LineEditor and Console

`Console` keeps the cells, the cursor, and the heap block in which `in_string`
collects a line, junk included. One action is one key. The cursor is an unsigned
number (`UIntRange`), so erasing at cell 0 wraps; the history variable `lost`
records it. Scrolling copies a whole screen from the second row on, and so reads one row
behind the screen (tty.c:85), past its page; what is read there is overwritten at once
(86), and the page behind is mapped (33), so the read is left out. `LineEditor` is what
the caller of `in_string` may rely on; `IsLineEditor` maps the block to the line before
`position`, and the answer to the C string a caller reads from the block.

### Shell

`pars_input` is its two scans: `Counted` are the words that are counted, `Copied`
those that are stored, which start at the command's *length* (220).
`ParseBare` is the early return, which sets neither `argc` nor `argv`. `physdump` and
`virtdump` read argv[0] from the right, four bits per digit, the shift taken modulo
the word size; a character that is no hex digit counts as its code (`Code`) less that
of '0'. A word without digits is read past its beginning. `argv_state` records whether
argv points to a live block. The printed dump is left out. Reading an argv that has been
freed, or a word without digits, gives the address `Garbage`. `RunsWhatWasTyped` compares
with definitions of its own: `Words`, the maximal runs of characters that are not blank,
and `HexValue`, the number from the left.
At this commit `kernel_main` does not call `shell`.

### Ata

One step is an access to a port or the transfer of a sector; a drive works on its own
time and may never answer. The status is polled at most `Polls` times, and the answer
to the last poll counts as a timeout. `read_ATA` and `write_ATA` do not look whether
`send_command` gave up; what is transferred then is left open, and `late` records it.
A transfer that is cut short this way may leave a sector pending in the drive;
`lagged` remembers that some call was late, and `CommandsReachIdleDrive` lets a command
meet a pending sector only then. Neither call looks whether its device is available: one
that was never found has port 0, where every poll reads anything and no drive is reached
(`req.wired` is false). `write_ATA` of 1 to 255 sectors returns at once, without writing
and without telling (64); the call is in the model, and `OnlyShortWritesAreDropped` says
that, of the calls for at most one command's sectors, only these are dropped without a
timeout. For more sectors than one
command takes both calls repeat the same command, with the same address, count and buffer
(ATA.c:65-85), and move `count` sectors although the command covers `count` modulo 256;
of these calls the property says nothing.
Nothing calls `init_ATA_devices` at this commit.

### StdLib, Strings, List

`memcpy` is modelled store by store, in words of four bytes and a rest, upwards or
downwards. `Strings` defines the other functions as operators on memory; `strcpy` and
`strncpy` are steps. `strcmp` puts the shorter of two strings above the longer one,
which is a total order all the same. `strncpy` with `max_count` 0 has no bound, since
the bound is unsigned, and stores no final 0 when it cuts. `List` keeps items on a heap that may
hand out a freed one at once. `remove` never takes the branch that moves the tail (96),
so after the last of several items has been removed the tail is a freed item, and what
is inserted next is lost; `ItemSequence` allows this and nothing else. Nothing
instantiates the template. `Library` puts the three side by side, for one run and one
module of proofs; they share no state.

## What the runs check

| run | bounds | shows |
|---|---|---|
| `phys_memory` | 5 pages, runs up to 5, one scribble | the free list, the count and every allocation are right, up to a splice, and every call returns |
| `heap` (`AddressSpaces`) | 6 units, 3 slots per page | memory is handed out once, inside the heap, in both spaces; the table is never overrun and loses no block; "full" is true |
| `heap_free` (violation) | 6 units, 2 slots per page | a freed block that is not the lowest stays in the table |
| `paging` | 6 frames, tables of 3 entries, runs up to 2 | tables stay apart, calls do what was asked and nothing else, no translation is stale, spaces agree where they share |
| `virt_memory` | 18 pages, 5 slots per page, 6 frames, requests up to 3 | the block table is sorted and accounts for every frame, in either space, up to a fault; the table is lost only beside a gap |
| `keyboard` | 4 slots, 2 codes, 3 vectors | interrupts find complete gates and are taken; the ring is a queue, and what waits is delivered |
| `console` | 2 x 3 cells, first block 2, lines up to 7, 2 glyphs; 3 slots, 2 letters, 1 other key, 2 shifts | the line editor returns and shows what was typed; `in_char` returns letters as typed |
| `shell` | 619 lines, 8-bit addresses | a line with arguments runs as typed |
| `shell_stale` (violation) | as `shell` | a dump command without arguments dumps |
| `shell_blanks` (violation) | as `shell` | more is stored than was counted |
| `ata` | 2 drives, 3 polls, 2 sectors per command, requests up to 3 | commands reach ready drives that are not busy; without a timeout the right sectors move, but for short writes, which move none; calls end |
| `library` | 15 bytes for `memcpy`; 5 characters of 3 values; 4 items of 2 values | `memcpy` copies as if in one piece; the string functions and the list do what they promise |

`console` and `library` check components that share no state in one run: the first
state chooses which of them runs.

Why the bounds are enough:

* *PhysMemory.* Five pages hold three separate blocks (a head, a middle and a lowest
  one), so that every branch meets a block with two different neighbours, with one
  neighbour on both sides, and alone; a run of up to five also frees and takes all
  of RAM. The scribble is a plausible block that links to page 0. The constraint
  `UntilSpliced` cuts off what no property speaks about. The liveness run needs
  runs only as long as a gap between blocks, hence 3.
* *Heap.* Six units allow six blocks; with three slots per page the table grows twice,
  is left with a spare slot and without one, and up to three entries of the kernel are
  left in it when the space changes.
* *Paging.* Three regions: one that is mapped from the start, one that needs a new
  table, the kernel's. Four of the six frames are taken at boot, so the allocator also
  runs out. Runs of two pages cross from one region into the next.
* *VirtMemory.* Five slots are two more than the first three blocks take, so the table
  fills, grows and shrinks, with gaps below, beside and above it.
* *Ata.* Three polls tell the first, a middle and the last one apart; two sectors per
  command give requests of less than one (a write that is dropped), of one, and of more.
* *Library.* Fifteen bytes hold two areas of up to three words and a rest, overlapping by
  any amount in either direction. Five characters hold three strings that overlap.
  Four items allow a removal at the head, inside and at the end, and a reuse of each.
* *KeyBuffer.* With four slots both counters wrap, the ring fills and overruns
  several times at every point of the reader; two codes tell order from disorder.
* *Console.* Lines of seven characters are longer than the six cells, so a line
  scrolls off the top, and with a first block of two it outgrows its block twice.
  Three slots hold a shift key's code, a letter and the key going up at once.
* *Shell.* Lines with and without a blank in front and at the end, no argument, one
  or two, each with or without `0x` and `h`, shorter and longer than eight bits, one
  without digits. The address width enters only as a modulus.

Deadlock is checked in every run but `virt_memory`, where exploration stops at a fault,
and `library`, where `memcpy` ends and a memory may hold no string.

Fairness. `PhysMemory` assumes weak fairness of the loop in progress: there is one
processor, the kernel runs with interrupts off, and a call that has begun keeps
executing. Nobody is obliged to make a call. `Ata` assumes weak fairness of the driver,
which keeps polling, and none of the drives. `Keyboard` assumes weak fairness of the
boot code and of the wrapper that runs, and strong fairness of the entry to each
interrupt and of the reader: the processor takes a pending interrupt once the flag is
set, and handlers are shorter than the time between two interrupts, so that neither the
other line nor the reader, which calls `in_scancode` in a loop, starves. Nobody is
obliged to press a key. The other specifications state none.

## Findings

* `heap_free`: `kfree` looks for the address in the lowest entry only
  (memory_manager.c:496-508), while the earlier version in the comment moves along
  the table (656). As a consequence holes never open (`NoHoles`), and the copy that
  moves one entry too many (472) never runs.
* `shell_stale`: the early return of `pars_input` (shell.c:204) leaves the previous
  line's `argc` and freed `argv`; `pd` alone, after `pd 1`, passes the check behind
  "physdump takes one value".
* `shell_blanks`: the copy starts at the command's length (220), so with blanks in
  front it starts inside the command and may store more than was counted.

Seen in the code, without a document to hold it against: the behaviours described with
the modules above; at boot a region that holds the kernel has its start moved up but
its length kept (memory_manager.c:34-38).

## What is proved

`PhysMemoryProofs`, for every number of pages (`NPages > 0`), every bound on the
runs (`MaxRun`) and every set of header words owners may write (`Scribble`):

* `TypeCorrect`: `TypeOK` always holds, after a splice too.
* `FreeListCorrect`, `NeverHandedOutTwice`, `CountCorrect`, `AllocSucceeds`:
  `FreeListSound`, `NoPageHandedOutTwice`, `CountIsExact`, `AllocFindsRoom`.

`FreeListSound` is not inductive: it does not say where a walk is. `IInv` adds, for
some set of blocks `B` that is a well-formed list covering the released pages, that
the cursor is on a block of `B` and what the blocks already passed have in common:
too small for the request, or beyond the run and not touching it (`WalkSound`). The
second is what makes inserting at the cursor keep the order, and returning empty
handed justified. There is one lemma per action (`AllocTopSound`, `FreeInsertSound`,
...) that names the new set of blocks, and lemmas about well-formed lists (a block
that is its own neighbour is alone; nothing lies between a block and its `prev`).
The branch that extends downwards needs a second block, which is why the invariant
is stated up to `spliced`. The count follows from the cardinality of disjoint runs.

`HeapProofs`, for every heap size and every number of slots per page (both
positive). About one space (`Heap`): `HeapTypeCorrect`, `HeapHasNoHoles`,
`HeapStoresInTable`, `HeapHandsOutUnheld`, `HeapFullMeansFull`. The invariant adds to
`NoHoles` that the entries are in order and inside the heap, that the table has a slot
for each, and that what callers hold is in it. About both spaces (`AddressSpaces`):
`SpacesTableHoldsBlocks`, `SpacesKeepHeap`, `SpacesHandOutUnheld`,
`SpacesFullMeansFull`. The change of the space is the one step that is none of
`Heap`'s; the invariant of `Heap` survives it because an empty table satisfies it.
`SpacesInv` adds what the memory behind the table needs: every block takes a unit, so
a heap has no more blocks than units and the copies that move an entry stay inside it.

`PagingProofs`, for every number of frames, size of a table, contents of fresh frames
and runs of pages: `PagingTablesApart`, `PagingDoesWhatWasAsked`, `PagingTlbCoherent`,
`PagingSharedAlike`, `PagingOthersKept`. `TablesApart` is silent while a directory is
being cloned; `Apart` says of every state that two entries which lead to the same table
are the same entry, or the same shared region of the two directories. `Sharing` says
that the clone's entries of those regions stay equal to the
kernel's, `Running` how far the run in progress has come, `LowRegion` and `CloneRun`
that `clone_directory` finds the directory where it has mapped it. A step that adds a
table is harmless because no directory led to it before; a step that changes an entry
of a table changes exactly the pages of that entry, in the spaces that share it.

`VirtMemoryProofs`, for every size of the space, of the table's pages and of the frame
set, and requests that do not wrap: `VirtInOrder`, `VirtFramesAccounted`,
`VirtTableHoldsAll`, `VirtFullMeansFull`, `VirtLostOnlyBesideGap`. `VirtInv` adds, up to
a fault, that the kernel's image and the TEMP_PAGE window keep their blocks
(`Anchored`), that the table's own block lies on frames of the allocator (`HasItself`),
and that there is a slot while a block is being placed (`Room`). The anchors are why
the table never becomes empty and why the sum for a larger table does not wrap. The
proof that a refused request has no gap (`AddRefuses`) follows the search through sums
that wrap at the top of the kernel's space. For the frames, one lemma (`Remap`) says
what mapping and unmapping a run of pages does to the account, whichever call does it.

`KeyboardProofs`, for every size of the ring and all codes: `KeyboardTypes`,
`KeyboardGateIsComplete`, `KeyboardEndsOwnService`, and `BufferIsQueue` and
`KeyboardIsQueue`, the initial states and steps of the refinement `IsQueue`. The
refinement mapping is computed with remainders; `HowMany` and `At` restate it without,
by the distance of the counters, and each access of the reader or the handler is then
a step of `KeyQueue` or none. For the gates, `GateInv` says which gates are finished at
which statement of the boot code, how far the current one is, and that no finished gate
uses the wrapper that is being patched; handlers do not nest because a gate clears the
flag, and so only one interrupt is in service.

`ConsoleProofs`, for every screen, first block, maximal line and alphabet: `ConsoleTypes`,
`ConsoleOnScreen`, `ConsoleIsLineEditor` (the refinement, which has no fairness). What
must be added is that the characters before `position` are no 0, or the caller's string
would end early. `InCharLettersAsTyped`, for every buffer and set of letters and keys:
the codes that wait must explain the letters still to come, so the invariant has, for
each waiting code, the shift keys that were down when it was sent (`held`), and for each
letter that is expected the place of its code (`place`).

`AtaProofs`, for every number of polls, sectors per command, length of a request and
first sector: `AtaCommandsReachIdleDrive`, `AtaAvailableIsThere`,
`AtaOnlyShortWritesAreDropped`. The invariant says what the polls before the command have
established and that it lasts, since a drive that is idle stays so until a command
(`FoundIdle`), that no drive owes a sector between calls as long as none was late
(`Settled`), and, for a request of one command with nothing late, how many sectors the
drive still owes (`Progress`).

`ShellStaleOnlyWhenBare` and `ShellRunsWhatWasTyped`, also in `ConsoleProofs`, for every
set of lines over every character set, and addresses of any number of whole hex digits.
`ConsoleProofs` extends `MCShell`, which instantiates `Shell` (`Sh`) and assumes
`LinesAreText` and `BitsMakeDigits` of its constants; TLC evaluates both on the run. The
invariant `ShellInv` says what `pars_input` has left while a line runs (`Parsed`), that
nothing is live at the prompt, and which word a dump has read (`Dumped`). Most of the
work is about the operators. `WordsFrom` is a recursion from left to right and `Words` a
count of the places where words begin: `Lists` says that the words a scan finds begin at
exactly the places in `Starts`, in order, and the number of places in front of the n-th
is n - 1 (`WordsAre`). From a blank on there are no more words than from further up
(`FewerBehind`), which is why no entry of argv is left unset. `ParseAddress` adds digits
from the right and `HexValue` from the left: what the first has still to add is what the
second had when it came there, times the weight of the place (`NumberIsRead`); a digit
whose weight does not fit an address is 0, or the number would not fit, so the shift that
wraps does no harm.

`LibraryProofs`, for every size and contents of memory, all arguments and every finite
set of items. `MemcpyInvariant`, `MemcpyReadsFirst` (no byte of the source is overwritten
before it is read) and `MemcpyCorrect` (`CopiesAsOnePiece`): the invariant `IInv` says
that exactly the bytes at the offsets in `Done` have been copied and all others are as
they were; `Done` is an interval that the running loop extends, and the loop runs away
from the overlap, which is why what it still has to read is untouched. `StringsAreRead`
(`ReadsStrings`): `strcmp` is decided at the first place where the strings differ or one
ends, and of two such places the earlier one decides the third comparison, which makes it
transitive. `StringsAreCopied` (`CopiesStrings`). `ListIsSequence` (`IsSequence`, the
refinement): `ListInv` names the items in the order of their links (`Chain`); following
links from the head then gives the item at a position, and each operation changes the
chain as `ItemSequence` changes its sequence. Until an insertion is lost the chain holds
all live items, and the tail is its end or a freed item (`Whole`).

Recursive functions are used in these proofs through lemmas that a recursion has a
solution and that the solution follows its rule (`Recursion`, `SplitExists`), and
properties of all numbers up to a bound through their least counterexample (`FirstNumber`,
`Upwards`), since the library's induction theorems cannot be instantiated.

Only model-checked: liveness (`CallsReturn`, `CallsEnd`, `InterruptsAreTaken`, and the
fairness part of `IsQueue`), since the prover does not handle fairness and ENABLED.

## What is not modelled

* GDT, TSS and the segments `enter_usermode` loads: straight-line set-up of formats the
  processor defines (`tss.c` is not even built). Of the boot code, only the page tables
  and the interrupt flag are modelled.
* `multiboot.h` and the memory map it describes: a third-party header, read once.
* Text attributes, `printf`, number formatting and the printed dump: output.
* `memset` and `memset_word` as functions of their own: plain fills.
* Requests of as many pages as lie above the start of the address space, which would
  wrap (see `VirtMemory`): no caller makes them.
* Requests of 0 bytes and requests beyond the heap (`kmalloc` hands out the first
  block unchecked): no caller makes them, apart from an empty argument list.
* What happens after `kmalloc` returns NULL to `in_string` or `pars_input`, which do
  not look.
* What the code does after a fault that it did not notice: a spliced free list, the
  faults of `VirtMemory`, the data of a disk command that was refused.
* The user's copy of the virtual block table's descriptor, as a second user of the
  kernel's table; `AddressSpaces` does this for the heap.

## Plan

Every safety property that a run checks is proved. What could follow: shorter proofs
where the lemmas about sequences, sorted tables and recursions, which several modules
state for themselves, can be shared; and, with a prover that has fairness, the four
liveness properties.
