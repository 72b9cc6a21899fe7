--------------------------- MODULE AddressSpaces ---------------------------
(***************************************************************************)
(* The heap of the two address spaces of kernel/memory_manager.c, with the *)
(* memory its table of blocks lies in.                                     *)
(*                                                                         *)
(* init_memory_manager copies the kernel's descriptor of the heap to the   *)
(* user's: each space has its own block_count, but both count entries of   *)
(* the same table.  kernel_main allocates in the kernel's space, changes   *)
(* to the user's and never goes back.  The variables of Heap describe the  *)
(* current space; here its calls also move and store the entries, over     *)
(* whatever the table still holds.                                         *)
(***************************************************************************)
EXTENDS Heap

VARIABLES
  cur_address_space,
  table    \* the slots of the table, entries that nobody counts included

allvars == <<vars, cur_address_space, table>>

Slot == 1 .. HeapSize + 2 * SlotsPerPage
NoEntry == [base |-> 0, size |-> 0]

SpacesInit ==
  /\ Init
  /\ cur_address_space = "kernel"
  /\ table = [j \in Slot |-> NoEntry]

(* Mutant of Moved: the last entry is left behind.                         *)
MovedShort(from, to, count) ==
  [j \in Slot |-> IF j \in to .. to + count - 2 THEN table[j - to + from] ELSE table[j]]

(* memcpy of count entries, as StdLib shows: in one piece.                 *)
Moved(from, to, count) ==
  [j \in Slot |-> IF j \in to .. to + count - 1 THEN table[j - to + from] ELSE table[j]]

(* The new block's entry goes into slot j of what has been moved.          *)
Store(moved, j, n) ==
  table' = [moved EXCEPT ![j] = [base |-> result', size |-> n]]

(* A table that grows is copied whole, so the entries stay in their slots. *)
kmalloc(n) ==
  /\ \/ KmallocNoTable(n) /\ UNCHANGED table
     \/ KmallocFirst(n) /\ Store(table, 1, n)
     \/ KmallocBelow(n) /\ Store(Moved(1, 2, Len(blocks)), 1, n)
     \/ /\ KmallocBehind(n)
        /\ \E i \in 1 .. Len(blocks) :
             /\ FirstFit(i, n)
             /\ Store(IF i < Len(blocks) THEN Moved(i + 1, i + 2, Len(blocks) - i + 1)
                                         ELSE table, i + 1, n)
     \/ KmallocFull(n) /\ UNCHANGED table
  /\ UNCHANGED cur_address_space

(* One entry more is moved down than is left.                              *)
kfree(b) ==
  /\ \/ KfreeFound(b) /\ table' = Moved(2, 1, Len(blocks))
     \/ KfreeMisses(b) /\ UNCHANGED table
  /\ UNCHANGED cur_address_space

(* Before kernel_main makes this call, its only one, it allocates less     *)
(* than the blocks one page of the table takes: the table that the user's  *)
(* descriptor shows, without a block in it, is still the one in use.       *)
change_address_space ==
  /\ cur_address_space = "kernel" /\ table_size = 1
  /\ cur_address_space' = "user"
  /\ blocks' = <<>> /\ result' = Null /\ written' = 0 /\ held' = {}
  /\ UNCHANGED <<table_size, table>>

SpacesNext ==
  \/ \E n \in Request : kmalloc(n)
  \/ \E b \in held : kfree(b)
  \/ change_address_space

SpacesSpec == SpacesInit /\ [][SpacesNext]_allvars

-----------------------------------------------------------------------------
(* Properties, besides those of Heap, which hold before and after the      *)
(* change of the space                                                     *)

(* The first block_count slots of the table hold the blocks in order:      *)
(* moving entries over themselves, one too many at times, loses none, and  *)
(* no entry that the kernel left in the shared table comes back as one of  *)
(* the user's (memory_manager.c:80-81, 461-488, 503-504).                  *)
TableHoldsBlocks == \A i \in 1 .. Len(blocks) : table[i] = blocks[i]

=============================================================================
