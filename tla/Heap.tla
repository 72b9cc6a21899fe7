-------------------------------- MODULE Heap --------------------------------
(***************************************************************************)
(* The kernel heap of kernel/memory_manager.c: kmalloc and kfree over the  *)
(* table of live blocks of one address space (DynamicMemory).              *)
(*                                                                         *)
(* Addresses are offsets from the start of the heap, so NULL is a value of *)
(* its own.  Requests are at least one unit and at most the whole heap, as *)
(* every caller's are; the heap is ten pages, so no sum wraps.  A call     *)
(* runs to its end before the next one begins: one action is one call.     *)
(***************************************************************************)
EXTENDS Integers, Sequences

CONSTANTS HeapSize,       \* units in the heap (heap_size pages)
          SlotsPerPage    \* table entries in one page

ASSUME HeapSizeAssumption == HeapSize \in Nat \ {0}
ASSUME SlotsAssumption == SlotsPerPage \in Nat \ {0}

Null == -1

Request == 1 .. HeapSize

Block == [base : Nat, size : Request]

VARIABLES
  blocks,       \* the table, in address order; block_count is its length
  table_size,   \* pages of the table
  result,       \* what the last call returned
  written,      \* history: the last slot the call stored into (0: none)
  held          \* history: the blocks callers have not tried to free

vars == <<blocks, table_size, result, written, held>>

End(b) == b.base + b.size

Init ==
  /\ blocks = <<>>
  /\ table_size = 1
  /\ result = Null
  /\ written = 0
  /\ held = {}

-----------------------------------------------------------------------------
(* kmalloc                                                                 *)

(* Mutant of TableFull: off by one.                                        *)
TableOverfull == Len(blocks) > table_size * SlotsPerPage

(* One more entry does not fit in the table: it moves to one more page.    *)
TableFull == Len(blocks) + 1 > table_size * SlotsPerPage
TableGrows == table_size' = IF TableFull THEN table_size + 1 ELSE table_size

Returns(b) == result' = b.base /\ held' = held \cup {b}

(* alloc_virt_pages has no room for a larger table.                        *)
KmallocNoTable(n) ==
  /\ TableFull
  /\ result' = Null
  /\ written' = 0
  /\ UNCHANGED <<blocks, table_size, held>>

KmallocFirst(n) ==
  LET b == [base |-> 0, size |-> n] IN
  /\ blocks = <<>>
  /\ TableGrows
  /\ blocks' = <<b>>
  /\ written' = 1
  /\ Returns(b)

(* Mutant of BlockBelow: the new block at the lower end of the gap.        *)
BlockAtBottom(n) == [base |-> 0, size |-> n]

(* The gap below the lowest block takes the new one at its upper end; the  *)
(* whole table moves up by one slot.                                       *)
FitsBelow(n) == blocks[1].base >= n
BlockBelow(n) == [base |-> blocks[1].base - n, size |-> n]

KmallocBelow(n) ==
  /\ blocks # <<>>
  /\ FitsBelow(n)
  /\ TableGrows
  /\ blocks' = <<BlockBelow(n)>> \o blocks
  /\ written' = Len(blocks) + 1
  /\ Returns(BlockBelow(n))

(* Mutants of FitsBehind: the heap's end checked against the start of the  *)
(* new block, and a block that fits exactly turned away.                   *)
StartsBehind(i, n) ==
  IF i < Len(blocks)
  THEN End(blocks[i]) + n <= blocks[i + 1].base
  ELSE End(blocks[i]) < HeapSize

FitsLoosely(i, n) ==
  IF i < Len(blocks)
  THEN End(blocks[i]) + n < blocks[i + 1].base
  ELSE End(blocks[i]) + n < HeapSize

(* There is room behind block i, up to the next block or the heap's end.   *)
FitsBehind(i, n) ==
  IF i < Len(blocks)
  THEN End(blocks[i]) + n <= blocks[i + 1].base
  ELSE End(blocks[i]) + n <= HeapSize

FirstFit(i, n) == FitsBehind(i, n) /\ \A j \in 1 .. i - 1 : ~FitsBehind(j, n)

(* Making room between two blocks moves Len(blocks) - i + 1 entries up,    *)
(* one more than there are; behind the last block nothing moves.           *)
KmallocBehind(n) ==
  /\ blocks # <<>>
  /\ ~FitsBelow(n)
  /\ \E i \in 1 .. Len(blocks) :
       LET b == [base |-> End(blocks[i]), size |-> n] IN
       /\ FirstFit(i, n)
       /\ blocks' = SubSeq(blocks, 1, i) \o <<b>> \o SubSeq(blocks, i + 1, Len(blocks))
       /\ written' = IF i < Len(blocks) THEN Len(blocks) + 2 ELSE Len(blocks) + 1
       /\ Returns(b)
  /\ TableGrows

KmallocFull(n) ==
  /\ blocks # <<>>
  /\ ~FitsBelow(n)
  /\ \A i \in 1 .. Len(blocks) : ~FitsBehind(i, n)
  /\ TableGrows
  /\ result' = Null
  /\ written' = 0
  /\ UNCHANGED <<blocks, held>>

-----------------------------------------------------------------------------
(* kfree.  The loop counts i up but never moves cur_block off the first    *)
(* entry, so it looks for the address there and nowhere else.              *)

IsFound(p) == blocks # <<>> /\ blocks[1].base = p

KfreeFound(b) ==
  /\ IsFound(b.base)
  /\ blocks' = Tail(blocks)
  /\ result' = Null
  /\ written' = Len(blocks)
  /\ held' = held \ {b}
  /\ UNCHANGED table_size

KfreeMisses(b) ==
  /\ ~IsFound(b.base)
  /\ result' = Null
  /\ written' = 0
  /\ held' = held \ {b}
  /\ UNCHANGED <<blocks, table_size>>

-----------------------------------------------------------------------------

Kmalloc(n) ==
  \/ KmallocNoTable(n)
  \/ KmallocFirst(n)
  \/ KmallocBelow(n)
  \/ KmallocBehind(n)
  \/ KmallocFull(n)

(* A caller frees what it was given, and nothing twice.                    *)
Kfree(b) == KfreeFound(b) \/ KfreeMisses(b)

Next ==
  \/ \E n \in Request : Kmalloc(n)
  \/ \E b \in held : Kfree(b)

Spec == Init /\ [][Next]_vars

-----------------------------------------------------------------------------
(* Properties                                                              *)

(* The table holds blocks of one unit or more, none of them below the      *)
(* start of the heap (memory_manager.c:458-463).                           *)
TypeOK ==
  /\ blocks \in Seq(Block)
  /\ table_size \in Nat \ {0}
  /\ result \in Nat \cup {Null}
  /\ written \in Nat
  /\ held \subseteq Block

(* kmalloc hands out only units of the heap that no caller holds, however  *)
(* kmalloc and kfree have been mixed before (memory_manager.c:428-510).    *)
Apart(b, c) == End(b) <= c.base \/ End(c) <= b.base

HandsOutUnheld ==
  [][ \A n \in Request : Kmalloc(n) /\ result' # Null =>
        LET b == [base |-> result', size |-> n] IN
        End(b) <= HeapSize /\ \A c \in held : Apart(b, c) ]_vars

(* The table is one run without gaps: a hole between two blocks can never  *)
(* open, since kfree removes only the lowest entry (line 497-505).         *)
NoHoles ==
  \A i \in 1 .. Len(blocks) - 1 : End(blocks[i]) = blocks[i + 1].base

(* kmalloc never stores behind its table: the check before the insertion   *)
(* (line 432) leaves room for the new entry, and the copy that moves one   *)
(* entry too many (line 472) never runs.                                   *)
StoresInTable == written <= table_size * SlotsPerPage

(* kmalloc reports a full heap only when no gap of the table could take    *)
(* the request (line 457-483).                                             *)
Gap(p, n) ==
  /\ p + n <= HeapSize
  /\ \A i \in 1 .. Len(blocks) : p + n <= blocks[i].base \/ End(blocks[i]) <= p

FullMeansFull ==
  [][ \A n \in Request : KmallocFull(n) => \A p \in 0 .. HeapSize : ~Gap(p, n) ]_vars

(* The earlier kfree kept in the comment at line 650-686 moves cur_block   *)
(* along the table (line 656), so every block that is freed leaves it.     *)
FreedBlocksLeave == \A i \in 1 .. Len(blocks) : blocks[i] \in held

-----------------------------------------------------------------------------
(* The inductive invariant: the table is an unbroken run inside the heap,  *)
(* its entries are in address order, it has a slot for each of them, and   *)
(* what callers hold is in it.                                             *)
InOrder ==
  \A i, j \in 1 .. Len(blocks) : i < j => End(blocks[i]) <= blocks[j].base

IInv ==
  /\ TypeOK
  /\ NoHoles
  /\ InOrder
  /\ \A i \in 1 .. Len(blocks) : End(blocks[i]) <= HeapSize
  /\ Len(blocks) <= table_size * SlotsPerPage
  /\ StoresInTable
  /\ \A b \in held : \E i \in 1 .. Len(blocks) : blocks[i] = b

=============================================================================
