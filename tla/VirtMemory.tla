----------------------------- MODULE VirtMemory -----------------------------
(***************************************************************************)
(* The table of virtual blocks of one address space in                     *)
(* kernel/memory_manager.c: add_virt_block, del_virt_block,                *)
(* alloc_virt_pages and free_virt_pages, with the growth and the shrinking *)
(* of the table.                                                           *)
(*                                                                         *)
(* Addresses are page numbers modulo NPages, as sums wrap in the code.     *)
(* map_pages, unmap_pages and the physical allocator are used as Paging    *)
(* and PhysMemory describe them: a page is mapped to a frame or to none,   *)
(* and a frame is free or not.  A call of alloc_virt_pages takes up to     *)
(* three steps: the call, the growth of the table, the new block.  What    *)
(* happens after a fault is left open: the kernel does not notice it.      *)
(***************************************************************************)
EXTENDS Integers, Sequences, FiniteSets, SequencesExt

CONSTANTS NPages,        \* pages of the virtual space
          Spaces,        \* start and end of the kernel's and the user's space
          KernelBase, KernelSize, TempPage,   \* where the kernel lies
          Slots,         \* entries of a table in one page, 512 in the code
          Stride,        \* pages that PAGE_SIZE entries take, 8 in the code
          Frames,        \* frames of the physical allocator
          Fixed,         \* any other frame: the kernel's or a device's
          MaxCount       \* bound: pages of one request

(* No request is as large as what lies above the start of its space: its   *)
(* end would wrap in the comparison with the first block (line 305).       *)
ASSUME SpaceAssumption ==
  /\ NPages \in Nat
  /\ \A s \in Spaces : /\ s.start \in 1 .. KernelBase
                       /\ s.end \in s.start .. NPages - 1
                       /\ s.start + MaxCount < NPages
  /\ KernelBase \in Nat /\ KernelSize \in Nat \ {0} /\ TempPage \in 1 .. NPages - 1
  /\ KernelBase + KernelSize < TempPage
  /\ Slots \in Nat /\ 3 < Slots
  /\ Stride \in Nat /\ MaxCount \in Nat \ {0}

Page == 0 .. NPages - 1
None == "none"
NULL == 0

ASSUME FrameAssumption == Fixed \notin Frames \cup {None} /\ None \notin Frames

VARIABLES cur_address_space,
          blocks, table, table_size,   \* its descriptor virt_memory
          pt,            \* the frame each page is mapped to
          free,          \* frames the physical allocator can hand out
          pc, count, paddr,
          beyond,        \* history: how far behind the table the last insertion wrote
          fault          \* history: what went wrong

descriptor == <<blocks, table, table_size>>
vars == <<cur_address_space, descriptor, pt, free, pc, count, paddr, beyond, fault>>

Start == cur_address_space.start
End == cur_address_space.end

Pages(base, n) == base .. base + n - 1
PagesOf(b) == Pages(b.base, b.size)
Used(bs) == UNION {PagesOf(bs[i]) : i \in 1 .. Len(bs)}

-----------------------------------------------------------------------------
(* add_virt_block and del_virt_block                                       *)

FitsFirst(bs, n) == bs[1].base >= (Start + n) % NPages

(* Mutant of EndBehind: the sum leaves out the size of the block.          *)
EndWithoutSize(b, n) == (b.base + n) % NPages

(* The end of n pages put behind block b.                                  *)
EndBehind(b, n) == (b.base + b.size + n) % NPages

(* Mutant of FitsBehind: a gap of exactly n pages is too small.            *)
FitsLoosely(b, next, n) == EndBehind(b, n) < next.base

FitsBehind(b, next, n) == EndBehind(b, n) <= next.base

(* The block behind which the search ends: the first one that ends too     *)
(* high, or with enough space behind it, or the last one.                  *)
Candidate(bs, n) ==
  CHOOSE i \in 1 .. Len(bs) :
    LET Stops(k) == \/ EndBehind(bs[k], n) > End
                    \/ k = Len(bs)
                    \/ FitsBehind(bs[k], bs[k + 1], n) IN
    Stops(i) /\ \A k \in 1 .. i - 1 : ~Stops(k)

(* The table with a new block of n pages, its base, and the number of      *)
(* slots written to: memcpy moves one entry more than there are, unless    *)
(* the block becomes the first or the last one.  wraps: the sum wrapped,   *)
(* was compared as if it had not, and the block lies over others or at 0.  *)
add_virt_block(bs, n) ==
  LET i == Candidate(bs, n)
      base == (bs[i].base + bs[i].size) % NPages
      new(b) == [base |-> b, size |-> n] IN
  CASE FitsFirst(bs, n) ->
         [blocks |-> <<new(Start)>> \o bs, base |-> Start,
          reach |-> Len(bs) + 1, wraps |-> FALSE]
    [] ~FitsFirst(bs, n) /\ EndBehind(bs[i], n) > End ->
         [blocks |-> bs, base |-> NULL, reach |-> 0, wraps |-> FALSE]
    [] OTHER ->
         [blocks |-> InsertAt(bs, i + 1, new(base)), base |-> base,
          reach |-> IF i = Len(bs) THEN Len(bs) + 1 ELSE Len(bs) + 2,
          wraps |-> \/ base = NULL \/ base + n > NPages
                    \/ base + n = NPages /\ i < Len(bs)]

IndexOf(bs, base) == CHOOSE i \in 1 .. Len(bs) : bs[i].base = base

del_virt_block(bs, base) ==
  IF \E i \in 1 .. Len(bs) : bs[i].base = base
  THEN RemoveAt(bs, IndexOf(bs, base)) ELSE bs

-----------------------------------------------------------------------------

Init ==
  /\ cur_address_space \in Spaces
  /\ blocks = << [base |-> KernelBase, size |-> KernelSize],
                 [base |-> KernelBase + KernelSize, size |-> 1],
                 [base |-> TempPage, size |-> 1] >>
  /\ table = KernelBase + KernelSize
  /\ table_size = 1
  /\ \E f \in Frames :
       /\ pt = [p \in Page |-> IF p = table THEN f
                               ELSE IF p \in Used(blocks) THEN Fixed ELSE None]
       /\ free = Frames \ {f}
  /\ pc = "idle" /\ count = 0 /\ paddr = None
  /\ beyond = 3 - Slots
  /\ fault = None

(* Mutant of TableFull: the new entry itself is not counted.               *)
TableOverfull == Len(blocks) > Slots * table_size

TableFull == Len(blocks) + 1 > Slots * table_size

(* alloc_virt_pages(NULL, p, n): p is -1 (None here) or the frame to map.  *)
AllocCall(n, p) ==
  /\ pc = "idle" /\ fault = None
  /\ pc' = IF TableFull THEN "grow" ELSE "place"
  /\ count' = n /\ paddr' = p
  /\ UNCHANGED <<descriptor, pt, free, beyond, fault>>

NoSpace(added) == added.base = NULL \/ added.wraps

(* The insertion is made in the table as it is before it moves.            *)
Beyond(added) == added.reach - Slots * table_size

(* The ways to give each page of a block a frame of its own.               *)
FrameChoices(pages) ==
  LET n == Cardinality(pages) IN
  {f \in [pages -> free] : Cardinality({f[p] : p \in pages}) = n}

(* Mutant of OldFrames: the table is moved before its frames are asked for.*)
OldFramesMoved(mapped, old, new) == {mapped[p] : p \in new}

(* The frames the old table gives back.                                    *)
OldFrames(mapped, old, new) == {mapped[p] : p \in old}

(* The table moves to a larger place, its pages are copied, and the old    *)
(* ones are freed and unmapped.  Where the new place overlaps the old one, *)
(* the old contents are lost when their page is mapped again.              *)
GrowTable ==
  LET rest == del_virt_block(blocks, table)
      added == add_virt_block(rest, table_size + 1)
      new == Pages(added.base, table_size + 1)
      old == Pages(table, table_size) IN
  /\ pc = "grow" /\ fault = None
  /\ ~NoSpace(added)
  /\ \E f \in FrameChoices(new) :
       LET mapped == [p \in Page |-> IF p \in new THEN f[p] ELSE pt[p]] IN
       /\ free' = (free \ {f[p] : p \in new}) \cup OldFrames(mapped, old, new)
       /\ pt' = [p \in Page |-> IF p \in old THEN None ELSE mapped[p]]
  /\ blocks' = added.blocks /\ table' = added.base /\ beyond' = Beyond(added)
  /\ table_size' = table_size + 1
  /\ fault' = IF old \cap new = {} THEN None ELSE "table lost"
  /\ pc' = "place"
  /\ UNCHANGED <<count, paddr>>

(* The new block is mapped to fresh frames, or to the frame asked for.     *)
PlaceBlock ==
  LET added == add_virt_block(blocks, count)
      new == Pages(added.base, count) IN
  /\ pc = "place" /\ fault = None
  /\ ~NoSpace(added)
  /\ \E f \in IF paddr = None THEN FrameChoices(new) ELSE [new -> {paddr}] :
       /\ pt' = [p \in Page |-> IF p \in new THEN f[p] ELSE pt[p]]
       /\ free' = free \ {f[p] : p \in new}
  /\ blocks' = added.blocks /\ beyond' = Beyond(added)
  /\ pc' = "idle"
  /\ UNCHANGED <<table, table_size, count, paddr, fault>>

(* What neither call looks at: that there was no space, that the new block *)
(* wrapped, and the -1 that alloc_phys_pages answers, which is mapped like *)
(* a frame.  The table has its new size and what add_virt_block put in it; *)
(* what is mapped next is left open.                                       *)
AllocFaults ==
  LET grows == pc = "grow"
      bs == IF grows THEN del_virt_block(blocks, table) ELSE blocks
      n == IF grows THEN table_size + 1 ELSE count
      added == add_virt_block(bs, n)
      fresh == grows \/ paddr = None IN
  /\ pc \in {"grow", "place"} /\ fault = None
  /\ \/ NoSpace(added) /\ fault' = IF added.wraps THEN "wrapped" ELSE "no space"
     \/ ~NoSpace(added) /\ fresh /\ Cardinality(free) < n /\ fault' = "no frame"
  /\ blocks' = added.blocks /\ beyond' = Beyond(added)
  /\ table_size' = IF grows THEN table_size + 1 ELSE table_size
  /\ UNCHANGED <<table, pt, free, pc, count, paddr>>

-----------------------------------------------------------------------------
(* free_virt_pages, and the two calls by which clone_directory gives up a  *)
(* page that it mapped to a frame of its own                               *)

Owned(b) == b.base # table /\ \A p \in PagesOf(b) : pt[p] \in Frames

(* A page of the table is not needed.                                      *)
TableLoose(bs) == Slots * table_size - Len(bs) >= Slots

FreeBlock(b) ==
  /\ pc = "idle" /\ fault = None /\ Owned(b)
  /\ ~TableLoose(del_virt_block(blocks, b.base))
  /\ blocks' = del_virt_block(blocks, b.base)
  /\ free' = free \cup {pt[p] : p \in PagesOf(b)}
  /\ pt' = [p \in Page |-> IF p \in PagesOf(b) THEN None ELSE pt[p]]
  /\ UNCHANGED <<table, table_size, pc, count, paddr, beyond, fault>>

(* A page of the table has become superfluous.  The page that is freed and *)
(* unmapped in its stead lies Stride times as far from the table's base,   *)
(* and the base of the block that is added again is not looked at.         *)
FreeShrinks(b) ==
  LET rest == del_virt_block(blocks, b.base)
      added == add_virt_block(del_virt_block(rest, table), table_size - 1)
      unmapped == [p \in Page |-> IF p \in PagesOf(b) THEN None ELSE pt[p]]
      wrong == (table + Stride * (table_size - 1)) % NPages IN
  /\ pc = "idle" /\ fault = None /\ Owned(b)
  /\ TableLoose(rest)
  /\ blocks' = added.blocks /\ beyond' = Beyond(added)
  /\ table_size' = table_size - 1
  /\ free' = free \cup {pt[p] : p \in PagesOf(b)} \cup ({unmapped[wrong]} \cap Frames)
  /\ pt' = [unmapped EXCEPT ![wrong] = None]
  /\ fault' = "shrunk"
  /\ UNCHANGED <<table, pc, count, paddr>>

DropBlock(b) ==
  /\ pc = "idle" /\ fault = None
  /\ b.size = 1 /\ b.base \notin {KernelBase, TempPage} /\ pt[b.base] = Fixed
  /\ blocks' = del_virt_block(blocks, b.base)
  /\ pt' = [pt EXCEPT ![b.base] = None]
  /\ UNCHANGED <<table, table_size, free, pc, count, paddr, beyond, fault>>

free_virt_pages(b) == FreeBlock(b) \/ FreeShrinks(b)

-----------------------------------------------------------------------------

Step ==
  \/ \E n \in 1 .. MaxCount : AllocCall(n, None)
  \/ AllocCall(1, Fixed)
  \/ GrowTable \/ PlaceBlock
  \/ AllocFaults
  \/ \E i \in 1 .. Len(blocks) : free_virt_pages(blocks[i]) \/ DropBlock(blocks[i])

Next == Step /\ UNCHANGED cur_address_space

Spec == Init /\ [][Next]_vars

-----------------------------------------------------------------------------
(* Properties                                                              *)

(* Every variable has its type, and a call is only under way before a      *)
(* fault (memory_manager.c:362-426).                                       *)
TypeOK ==
  /\ \A i \in 1 .. Len(blocks) : blocks[i] \in [base : Page, size : 1 .. NPages]
  /\ table \in Page /\ table_size \in 1 .. NPages
  /\ pt \in [Page -> Frames \cup {Fixed, None}]
  /\ free \subseteq Frames
  /\ pc \in {"idle", "grow", "place"}
  /\ count \in 0 .. MaxCount /\ paddr \in {None, Fixed}
  /\ fault \in {None, "no space", "wrapped", "no frame", "table lost", "shrunk"}

(* Types hold and, until a fault, the blocks are sorted, apart from each   *)
(* other and inside the space, and one of them is the table's own: first   *)
(* fit, the insertion by memcpy and the move of the table keep this (line  *)
(* 299-360, 365-384).                                                      *)
InOrder ==
  /\ TypeOK
  /\ fault = None =>
       /\ \A i \in 1 .. Len(blocks) :
            /\ Start <= blocks[i].base /\ blocks[i].base + blocks[i].size <= NPages
            /\ i < Len(blocks) => blocks[i].base + blocks[i].size <= blocks[i + 1].base
       /\ \E i \in 1 .. Len(blocks) : blocks[i] = [base |-> table, size |-> table_size]

(* Until a fault, the mapped pages are those of the blocks, and every      *)
(* frame of the allocator is either free or mapped at exactly one page:    *)
(* growing the table, allocating and freeing neither lose a frame nor map  *)
(* one twice (line 373-382, 389-395 and 408-413).                          *)
FramesAccounted ==
  LET mapped == {p \in Page : pt[p] \in Frames} IN
  fault = None =>
    /\ \A p \in Page : pt[p] # None <=> p \in Used(blocks)
    /\ \A p, q \in mapped : pt[p] = pt[q] => p = q
    /\ free = Frames \ {pt[p] : p \in mapped}

(* The table never holds more entries than it has slots, and an insertion, *)
(* the one that makes room for the larger table included, never writes     *)
(* further than one slot behind the table it is made in: the entry too     *)
(* many that memcpy moves (line 323, 365-372).                             *)
TableHoldsAll ==
  fault = None =>
    /\ Len(blocks) <= Slots * table_size
    /\ beyond <= 1

(* The top of the space: the last page where End is the end of memory.     *)
Limit == IF End = NPages - 1 THEN NPages ELSE End

(* A request finds no space, or is put where its end wraps, only when no   *)
(* gap of the space has its size, although the search stops at the first   *)
(* block whose end is too high or wraps (line 316-341).                    *)
FullMeansFull ==
  [][ fault' \in {"no space", "wrapped"} =>
        LET bs == IF pc = "grow" THEN del_virt_block(blocks, table) ELSE blocks
            n == IF pc = "grow" THEN table_size + 1 ELSE count IN
        \A b \in Start .. Limit - n : Pages(b, n) \cap Used(bs) # {} ]_vars

(* The table gets lost in its own growth only when a page next to it was   *)
(* free: the new place then takes in the old one (line 368-383).           *)
LostOnlyBesideGap ==
  [][ fault' = "table lost" =>
        {table - 1, table + table_size} \ Used(blocks) # {} ]_vars

=============================================================================
