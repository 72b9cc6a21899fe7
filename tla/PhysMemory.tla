----------------------------- MODULE PhysMemory -----------------------------
(***************************************************************************)
(* The physical page allocator of kernel/memory_manager.c:                 *)
(* alloc_phys_pages and free_phys_pages.                                   *)
(*                                                                         *)
(* Free memory is a circular doubly linked list of blocks.  The header     *)
(* {next, prev, size} of a block lies in the first words of the free page  *)
(* itself and is reached through the TEMP_PAGE window, so the model keeps  *)
(* the three header words of EVERY page, free or not: whoever owns a page  *)
(* may write them.  An address is a frame number (addresses are page       *)
(* aligned; runs lie in RAM, below 2^20 frames, so no sum wraps).          *)
(*                                                                         *)
(* Each call is a loop over the list.  One iteration is one action, and    *)
(* the writes of the branch the iteration takes are part of that action,   *)
(* in the order of the code (the EXCEPTs of one function are nested in     *)
(* that order, since next, prev and cur_block may be the same page).       *)
(***************************************************************************)
EXTENDS Integers, FiniteSets

CONSTANTS NPages,    \* number of page frames of RAM
          MaxRun,    \* bound: the longest run asked for or given back at once
          Scribble   \* header words the owner of a page may leave in it

Page == 0 .. NPages - 1

Header == [next : Page, prev : Page, size : Nat]

ASSUME NPagesAssumption == NPages \in Nat \ {0}
ASSUME MaxRunAssumption == MaxRun \in Nat
ASSUME ScribbleAssumption == Scribble \subseteq Header

NoBlock == -1        \* the address (physaddr)-1

VARIABLES
  free_phys_memory_pointer,   \* head of the free list, the walk starts here
  free_page_count,
  next, prev, size,           \* the PhysMemoryBlock words of every page
  pc,                         \* "idle", or the call in progress
  base, count, cur_block,     \* its arguments and loop variable (0, 0 and
                              \* NoBlock between calls)
  result,                     \* what alloc_phys_pages has just returned
  owned,     \* history: pages in the hands of callers (firmware, kernel)
  dropped,   \* history: pages given back that no block took in
  spliced    \* history: a sole block has been extended downwards

header == <<next, prev, size>>
call == <<base, count, cur_block>>
vars == <<free_phys_memory_pointer, free_page_count, header, pc, call,
          result, owned, dropped, spliced>>

Run(b, n) == b .. b + n - 1

(* The first address behind a block.                                       *)
EndOf(b) == b + size[b]

(* Mutant of HeadBecomes: the update of the head is forgotten.             *)
HeadStays(b) == free_phys_memory_pointer

(* The head of the list after the block under the cursor is replaced by b. *)
HeadBecomes(b) ==
  IF cur_block = free_phys_memory_pointer THEN b ELSE free_phys_memory_pointer

(* Pages given back by callers, taken in by the allocator and not yet      *)
(* handed out again.                                                       *)
InFlight == IF pc = "free" THEN Run(base, count) ELSE {}
Released == Page \ (owned \cup dropped \cup InFlight)

-----------------------------------------------------------------------------

(* The locals of a call end with it.                                       *)
EndCall == pc' = "idle" /\ base' = 0 /\ count' = 0 /\ cur_block' = NoBlock

(* Before init_memory_manager hands the regions of the memory map over,    *)
(* all RAM is the boot code's, and holds what it happens to hold.          *)
Init ==
  /\ free_phys_memory_pointer = NoBlock
  /\ free_page_count = 0
  /\ \E h \in Scribble : /\ next = [p \in Page |-> h.next]
                         /\ prev = [p \in Page |-> h.prev]
                         /\ size = [p \in Page |-> h.size]
  /\ pc = "idle"
  /\ base = 0 /\ count = 0 /\ cur_block = NoBlock
  /\ result = NoBlock
  /\ owned = Page
  /\ dropped = {}
  /\ spliced = FALSE

(* The owner of a page stores into its first words.                        *)
OwnerWrites(p, h) ==
  /\ pc = "idle"
  /\ p \in owned
  /\ next' = [next EXCEPT ![p] = h.next]
  /\ prev' = [prev EXCEPT ![p] = h.prev]
  /\ size' = [size EXCEPT ![p] = h.size]
  /\ result' = NoBlock
  /\ UNCHANGED <<free_phys_memory_pointer, free_page_count, pc, call, owned,
                 dropped, spliced>>

-----------------------------------------------------------------------------
(* alloc_phys_pages                                                        *)

(* The two ways to fail before the loop.                                   *)
Refuses(n) == free_page_count < n \/ free_phys_memory_pointer = NoBlock

AllocRefused(n) ==
  /\ pc = "idle"
  /\ Refuses(n)
  /\ result' = NoBlock
  /\ UNCHANGED <<free_phys_memory_pointer, free_page_count, header, pc, call,
                 owned, dropped, spliced>>

AllocCall(n) ==
  /\ pc = "idle"
  /\ ~Refuses(n)
  /\ pc' = "alloc"
  /\ count' = n
  /\ cur_block' = free_phys_memory_pointer
  /\ result' = NoBlock
  /\ UNCHANGED <<free_phys_memory_pointer, free_page_count, header, base,
                 owned, dropped, spliced>>

AllocReturns(r) ==
  /\ EndCall
  /\ result' = r
  /\ free_page_count' = free_page_count - count
  /\ owned' = owned \cup Run(r, count)
  /\ UNCHANGED <<dropped, spliced>>

(* Mutant of UnlinkedPrev: only the block below is relinked.               *)
KeptPrev == prev

(* Taking a whole block out of the list; the head falls back to the block  *)
(* below, or to nothing when the block was alone.                          *)
UnlinkedPrev == [prev EXCEPT ![next[cur_block]] = prev[cur_block]]
HeadAfterUnlink ==
  IF HeadBecomes(prev[cur_block]) = cur_block
  THEN NoBlock
  ELSE HeadBecomes(prev[cur_block])

AllocWhole ==
  /\ pc = "alloc"
  /\ size[cur_block] = count
  /\ prev' = UnlinkedPrev
  /\ next' = [next EXCEPT ![prev[cur_block]] = next[cur_block]]
  /\ free_phys_memory_pointer' = HeadAfterUnlink
  /\ AllocReturns(cur_block)
  /\ UNCHANGED size

(* Mutant of Shrunk: the block keeps the pages it hands out.               *)
KeptSize == size

(* Mutant of TooLarge: a plain else instead of the comparison.             *)
OtherSize == size[cur_block] # count

(* A larger block gives up its highest pages.                              *)
Shrunk == [size EXCEPT ![cur_block] = @ - count]
TooLarge == size[cur_block] > count

AllocTop ==
  /\ pc = "alloc"
  /\ TooLarge
  /\ size' = Shrunk
  /\ AllocReturns(EndOf(cur_block) - count)
  /\ UNCHANGED <<free_phys_memory_pointer, next, prev>>

(* The walk goes down the list and fails when it is back at the head.      *)
WalkEnds == prev[cur_block] = free_phys_memory_pointer

AllocWalk ==
  /\ pc = "alloc"
  /\ size[cur_block] < count
  /\ ~WalkEnds
  /\ cur_block' = prev[cur_block]
  /\ UNCHANGED <<free_phys_memory_pointer, free_page_count, header, pc, base,
                 count, result, owned, dropped, spliced>>

AllocFails ==
  /\ pc = "alloc"
  /\ size[cur_block] < count
  /\ WalkEnds
  /\ EndCall
  /\ result' = NoBlock
  /\ UNCHANGED <<free_phys_memory_pointer, free_page_count, header, owned,
                 dropped, spliced>>

-----------------------------------------------------------------------------
(* free_phys_pages                                                         *)

(* Mutant of Counted: the pages are not counted.                           *)
NotCounted == free_page_count

Counted == free_page_count + count

FreeReturns ==
  /\ EndCall
  /\ free_page_count' = Counted
  /\ UNCHANGED <<result, owned>>

(* The first block of an empty list links to itself.                       *)
FreeFirst(b, n) ==
  /\ pc = "idle"
  /\ free_phys_memory_pointer = NoBlock
  /\ Run(b, n) \subseteq owned
  /\ next' = [next EXCEPT ![b] = b]
  /\ prev' = [prev EXCEPT ![b] = b]
  /\ size' = [size EXCEPT ![b] = n]
  /\ free_phys_memory_pointer' = b
  /\ free_page_count' = free_page_count + n
  /\ owned' = owned \ Run(b, n)
  /\ result' = NoBlock
  /\ UNCHANGED <<pc, call, dropped, spliced>>

FreeCall(b, n) ==
  /\ pc = "idle"
  /\ free_phys_memory_pointer # NoBlock
  /\ Run(b, n) \subseteq owned
  /\ pc' = "free"
  /\ base' = b /\ count' = n
  /\ cur_block' = free_phys_memory_pointer
  /\ owned' = owned \ Run(b, n)
  /\ result' = NoBlock
  /\ UNCHANGED <<free_phys_memory_pointer, free_page_count, header, dropped,
                 spliced>>

(* Mutant of LiesAbove: off by one, so that neighbours are not merged.     *)
LiesAboveOrContinues == base >= EndOf(cur_block)

LiesAbove == base > EndOf(cur_block)
Continues == base = EndOf(cur_block)
LiesBelow == base + count = cur_block

(* A new block between cur_block and the block above it.                   *)
FreeInsert ==
  /\ pc = "free"
  /\ LiesAbove
  /\ next' = [[next EXCEPT ![cur_block] = base] EXCEPT ![base] = next[cur_block]]
  /\ prev' = [[prev EXCEPT ![next[cur_block]] = base] EXCEPT ![base] = cur_block]
  /\ size' = [size EXCEPT ![base] = count]
  /\ free_phys_memory_pointer' = HeadBecomes(base)
  /\ FreeReturns
  /\ UNCHANGED <<dropped, spliced>>

(* cur_block grows upwards, and swallows the block above it if the run     *)
(* reaches that block.                                                     *)
FreeExtend ==
  LET next1 == next[cur_block]
      grown == [size EXCEPT ![cur_block] = @ + count] IN
  /\ pc = "free"
  /\ Continues
  /\ IF next1 = base + count
     THEN /\ prev' = [prev EXCEPT ![next[next1]] = cur_block]
          /\ next' = [next EXCEPT ![cur_block] = next[next1]]
          /\ size' = [grown EXCEPT ![cur_block] = @ + grown[next1]]
     ELSE /\ size' = grown
          /\ UNCHANGED <<next, prev>>
  /\ FreeReturns
  /\ UNCHANGED <<free_phys_memory_pointer, dropped, spliced>>

(* The run closes the gap between cur_block and the block below it.        *)
FreeClosesGap ==
  LET below == prev[cur_block] IN
  /\ pc = "free"
  /\ ~LiesAbove /\ ~Continues /\ LiesBelow
  /\ EndOf(below) = base
  /\ next' = [next EXCEPT ![below] = next[cur_block]]
  /\ size' = [size EXCEPT ![below] = @ + size[cur_block] + count]
  /\ prev' = [prev EXCEPT ![next[cur_block]] = below]
  /\ free_phys_memory_pointer' = HeadBecomes(below)
  /\ FreeReturns
  /\ UNCHANGED <<dropped, spliced>>

(* cur_block grows downwards: its header moves to base.  The links of the  *)
(* new header are the ones cur_block had; when cur_block was the only      *)
(* block they lead back to cur_block itself, which stays in the list.      *)
FreeExtendDown ==
  LET below == prev[cur_block]
      above == next[cur_block] IN
  /\ pc = "free"
  /\ ~LiesAbove /\ ~Continues /\ LiesBelow
  /\ EndOf(below) # base
  /\ prev' = [[prev EXCEPT ![above] = base] EXCEPT ![base] = below]
  /\ next' = [[next EXCEPT ![below] = base] EXCEPT ![base] = above]
  /\ size' = [size EXCEPT ![base] = count + size[cur_block]]
  /\ free_phys_memory_pointer' = HeadBecomes(base)
  /\ spliced' = (spliced \/ below = cur_block)
  /\ FreeReturns
  /\ UNCHANGED dropped

(* The walk goes down the list.  Back at the head, the call returns: the   *)
(* pages are counted, but no block holds them.                             *)
FreeWalk ==
  /\ pc = "free"
  /\ ~LiesAbove /\ ~Continues /\ ~LiesBelow
  /\ ~WalkEnds
  /\ cur_block' = prev[cur_block]
  /\ UNCHANGED <<free_phys_memory_pointer, free_page_count, header, pc, base,
                 count, result, owned, dropped, spliced>>

FreeDrops ==
  /\ pc = "free"
  /\ ~LiesAbove /\ ~Continues /\ ~LiesBelow
  /\ WalkEnds
  /\ dropped' = dropped \cup Run(base, count)
  /\ FreeReturns
  /\ UNCHANGED <<free_phys_memory_pointer, header, spliced>>

-----------------------------------------------------------------------------

(* One iteration of the loop of the call in progress.                      *)
Iterate ==
  \/ AllocWhole \/ AllocTop \/ AllocWalk \/ AllocFails
  \/ FreeInsert \/ FreeExtend \/ FreeClosesGap \/ FreeExtendDown
  \/ FreeWalk \/ FreeDrops

Next ==
  \/ \E p \in Page, h \in Scribble : OwnerWrites(p, h)
  \/ \E n \in 1 .. MaxRun : AllocRefused(n) \/ AllocCall(n)
  \/ \E b \in Page, n \in 1 .. MaxRun : FreeFirst(b, n) \/ FreeCall(b, n)
  \/ Iterate

(* The kernel runs on one processor with interrupts off: a call that has   *)
(* begun keeps executing, so its loop is weakly fair.  Nothing obliges a   *)
(* caller to make a call.                                                  *)
Fairness == WF_vars(Iterate)

Safety == Init /\ [][Next]_vars
Spec == Safety /\ Fairness

-----------------------------------------------------------------------------
(* Properties                                                              *)

(* Every variable has its type, after a splice too: the head, the cursor   *)
(* and the links never leave RAM and no size or count goes below zero,     *)
(* where a size_t would wrap (memory_manager.c:109-240).                   *)
TypeOK ==
  /\ free_phys_memory_pointer \in Page \cup {NoBlock}
  /\ free_page_count \in Nat
  /\ next \in [Page -> Page]
  /\ prev \in [Page -> Page]
  /\ size \in [Page -> Nat]
  /\ pc \in {"idle", "alloc", "free"}
  /\ base \in Page
  /\ count \in Nat
  /\ cur_block \in Page \cup {NoBlock}
  /\ pc # "idle" => cur_block \in Page
  /\ result \in Nat \cup {NoBlock}
  /\ owned \subseteq Nat
  /\ dropped \subseteq Nat
  /\ spliced \in BOOLEAN

(* B is the set of blocks of a well-formed free list: the head is the      *)
(* highest block, next and prev lead to the neighbours in address order    *)
(* and round the ends, and between two blocks at least one page is missing *)
(* (neighbours have been merged).                                          *)
IsFreeList(B) ==
  /\ free_phys_memory_pointer = NoBlock <=> B = {}
  /\ B # {} => free_phys_memory_pointer \in B
  /\ \A b \in B :
       /\ b <= free_phys_memory_pointer
       /\ size[b] > 0
       /\ next[b] \in B
       /\ prev[next[b]] = b
       /\ prev[b] \in B
       /\ next[prev[b]] = b
       /\ IF b = free_phys_memory_pointer
          THEN \A c \in B : next[b] <= c
          ELSE b < next[b] /\ \A c \in B : c <= b \/ next[b] <= c
  /\ \A b, c \in B : b < c => EndOf(b) < c

Covered(B) == UNION {Run(b, size[b]) : b \in B}

(* Until free_phys_pages extends a sole block downwards (line 221-232),    *)
(* the list is well formed in every state, in the middle of a walk too,    *)
(* and its blocks hold exactly the pages given back and not handed out     *)
(* since: no branch of alloc_phys_pages or free_phys_pages loses a page,   *)
(* invents one or breaks a link, whatever the owners write in theirs.      *)
FreeListSound ==
  ~spliced => \E B \in SUBSET Page : IsFreeList(B) /\ Covered(B) = Released

(* Until then, alloc_phys_pages returns only pages that nobody holds       *)
(* (line 109-152).                                                         *)
NoPageHandedOutTwice ==
  [][ (pc = "alloc" /\ pc' = "idle" /\ result' # NoBlock /\ ~spliced)
      => Run(result', count) \subseteq Released ]_vars

(* Until then, free_page_count is the number of pages given back and not   *)
(* handed out; pages no block took in stay counted (line 148 and 239).     *)
CountIsExact ==
  ~spliced => free_page_count = Cardinality(Released \cup dropped)

(* Until then, alloc_phys_pages fails only when no run of that many        *)
(* consecutive pages is free: freed neighbours are always merged, and the  *)
(* walk passes no block over (line 111, 113 and 144-145).                  *)
HasRun(n) == \E b \in Page : Run(b, n) \subseteq Released

AllocFindsRoom ==
  ~spliced =>
    /\ pc = "idle" => \A n \in 1 .. MaxRun : Refuses(n) => ~HasRun(n)
    /\ pc = "alloc" /\ size[cur_block] < count /\ WalkEnds => ~HasRun(count)

(* Every call returns: the do-while loops at line 116 and 166 always get   *)
(* back to the head.                                                       *)
CallsReturn == (pc # "idle") ~> (pc = "idle" \/ spliced)

-----------------------------------------------------------------------------
(* The inductive invariant                                                 *)

(* What the loops know about the list B they walk: the cursor is on a      *)
(* block, and every block above it, already passed, was too small for the  *)
(* request or lies beyond the run, not touching it.                        *)
WalkSound(B) ==
  /\ pc = "alloc" =>
       /\ cur_block \in B
       /\ count > 0
       /\ \A b \in B : b > cur_block => size[b] < count
  /\ pc = "free" =>
       /\ cur_block \in B
       /\ count > 0
       /\ Run(base, count) \subseteq Page \ (owned \cup dropped)
       /\ \A b \in B : b > cur_block => base + count < b

ListInv(B) ==
  /\ IsFreeList(B)
  /\ Covered(B) = Released
  /\ WalkSound(B)

IInv ==
  /\ TypeOK
  /\ pc = "alloc" => count <= free_page_count
  /\ ~spliced => /\ owned \cup dropped \subseteq Page
                 /\ owned \cap dropped = {}
                 /\ \E B \in SUBSET Page : ListInv(B)

=============================================================================
