-------------------------- MODULE PhysMemoryProofs --------------------------
(* Proofs about the physical page allocator, for every number of pages,    *)
(* every bound on the runs and everything owners may write.                *)
EXTENDS PhysMemory, FiniteSetTheorems, TLAPS

(* What the proofs need of a frame number; Page itself stays folded.       *)
LEMMA PageFacts ==
  /\ Page \subseteq Nat
  /\ 0 \in Page
  /\ NoBlock \notin Page
  /\ \A p \in Page, q \in Nat : q <= p => q \in Page
BY NPagesAssumption DEF Page, NoBlock

(* Runs are not empty.                                                     *)
LEMMA RunLengthFacts == 1 .. MaxRun \subseteq Nat \ {0}
BY MaxRunAssumption

USE PageFacts, RunLengthFacts

(* The typing facts that are inductive by themselves.                      *)
TypeInv == TypeOK /\ (pc = "alloc" => count <= free_page_count)

(* The typing facts hold at the start.                                     *)
LEMMA TypeInit == Init => TypeInv
BY ScribbleAssumption DEF Init, TypeInv, TypeOK, Header

(* Every step keeps them.                                                  *)
LEMMA TypeStep == TypeInv /\ [Next]_vars => TypeInv'
<1> SUFFICES ASSUME TypeInv, [Next]_vars PROVE TypeInv'
  OBVIOUS
<1> USE DEF TypeInv, TypeOK, Run
<1>1. ASSUME NEW p \in Page, NEW h \in Scribble, OwnerWrites(p, h) PROVE TypeInv'
  BY <1>1, ScribbleAssumption DEF OwnerWrites, Header, call
<1>2. ASSUME NEW n \in 1 .. MaxRun, AllocRefused(n) PROVE TypeInv'
  BY <1>2 DEF AllocRefused, call, header
<1>3. ASSUME NEW n \in 1 .. MaxRun, AllocCall(n) PROVE TypeInv'
  BY <1>3 DEF AllocCall, Refuses, header
<1>4. ASSUME NEW b \in Page, NEW n \in 1 .. MaxRun, FreeFirst(b, n) PROVE TypeInv'
  BY <1>4 DEF FreeFirst, call
<1>5. ASSUME NEW b \in Page, NEW n \in 1 .. MaxRun, FreeCall(b, n) PROVE TypeInv'
  BY <1>5 DEF FreeCall, header
<1>6. CASE AllocWhole
  BY <1>6 DEF AllocWhole, AllocReturns, EndCall, UnlinkedPrev, HeadAfterUnlink, HeadBecomes
<1>7. CASE AllocTop
  <2> USE <1>7 DEF AllocTop, AllocReturns, EndCall, Shrunk, TooLarge, EndOf
  <2>1. size' \in [Page -> Nat]
    <3>1. size[cur_block] - count \in Nat
      OBVIOUS
    <3> QED
      BY <3>1
  <2>2. result' \in Nat /\ Run(result', count) \subseteq Nat
    OBVIOUS
  <2>3. free_page_count' \in Nat
    OBVIOUS
  <2> QED
    BY <2>1, <2>2, <2>3
<1>8. CASE AllocWalk \/ AllocFails
  BY <1>8 DEF AllocWalk, AllocFails, EndCall, header
<1>9. CASE FreeInsert
  BY <1>9 DEF FreeInsert, FreeReturns, EndCall, Counted, HeadBecomes
<1>10. CASE FreeExtend
  <2> DEFINE next1 == next[cur_block]
             grown == [size EXCEPT ![cur_block] = @ + count]
             both  == [grown EXCEPT ![cur_block] = @ + grown[next1]]
  <2>1. cur_block \in Page /\ next1 \in Page /\ next[next1] \in Page
    BY <1>10 DEF FreeExtend
  <2>2. grown \in [Page -> Nat]
    BY <2>1
  <2>3. both \in [Page -> Nat]
    <3> HIDE DEF grown
    <3>1. grown[cur_block] \in Nat /\ grown[next1] \in Nat
      BY <2>1, <2>2
    <3>2. grown[cur_block] + grown[next1] \in Nat
      BY <3>1
    <3> QED
      BY <2>2, <3>2
  <2>4. /\ size' = grown \/ size' = both
        /\ next' = next \/ next' = [next EXCEPT ![cur_block] = next[next1]]
        /\ prev' = prev \/ prev' = [prev EXCEPT ![next[next1]] = cur_block]
        /\ UNCHANGED <<free_phys_memory_pointer, dropped, spliced>>
        /\ FreeReturns
    BY <1>10 DEF FreeExtend
  <2>5. /\ size' \in [Page -> Nat]
        /\ next' \in [Page -> Page]
        /\ prev' \in [Page -> Page]
    BY <2>1, <2>2, <2>3, <2>4
  <2> QED
    BY <2>4, <2>5 DEF FreeReturns, EndCall, Counted
<1>11. CASE FreeClosesGap
  <2>1. size' \in [Page -> Nat]
    <3>1. cur_block \in Page /\ prev[cur_block] \in Page
      BY <1>11 DEF FreeClosesGap
    <3>2. size[prev[cur_block]] \in Nat /\ size[cur_block] \in Nat /\ count \in Nat
      BY <3>1
    <3>3. size[prev[cur_block]] + size[cur_block] + count \in Nat
      BY <3>2
    <3>4. size' = [size EXCEPT ![prev[cur_block]] = @ + size[cur_block] + count]
      BY <1>11 DEF FreeClosesGap
    <3> QED
      BY <3>1, <3>3, <3>4
  <2> QED
    BY <1>11, <2>1 DEF FreeClosesGap, FreeReturns, EndCall, Counted, HeadBecomes
<1>12. CASE FreeExtendDown
  BY <1>12 DEF FreeExtendDown, FreeReturns, EndCall, Counted, HeadBecomes
<1>13. CASE FreeWalk
  BY <1>13 DEF FreeWalk, header
<1>14. CASE FreeDrops
  BY <1>14 DEF FreeDrops, FreeReturns, EndCall, Counted, header
<1>15. CASE UNCHANGED vars
  BY <1>15 DEF vars, header, call
<1> QED
  BY <1>1, <1>2, <1>3, <1>4, <1>5, <1>6, <1>7, <1>8, <1>9, <1>10, <1>11, <1>12,
     <1>13, <1>14, <1>15 DEF Next, Iterate

(* Type correctness of the allocator: the walks of alloc_phys_pages and    *)
(* free_phys_pages stay on pages of RAM and never underflow a counter.     *)
THEOREM TypeCorrect == Safety => []TypeOK
<1>1. TypeInv => TypeOK
  BY DEF TypeInv
<1> QED
  BY TypeInit, TypeStep, <1>1, PTL DEF Safety

-----------------------------------------------------------------------------
(* Lemmas about well-formed free lists                                     *)

(* The pages of a set of blocks, before and after a step.                  *)
LEMMA CoveredMembers ==
  ASSUME TypeOK, NEW B \in SUBSET Page, NEW p
  PROVE  p \in Covered(B) <=> p \in Nat /\ \E b \in B : b <= p /\ p < EndOf(b)
<1>1. \A b \in B : p \in Run(b, size[b]) <=> p \in Nat /\ b <= p /\ p < EndOf(b)
  BY DEF TypeOK, Run, EndOf
<1> QED
  BY <1>1 DEF Covered

(* The same after a step.                                                  *)
LEMMA CoveredMembersNext ==
  ASSUME TypeOK', NEW B \in SUBSET Page, NEW p
  PROVE  p \in Covered(B)' <=> p \in Nat /\ \E b \in B : b <= p /\ p < EndOf(b)'
<1>1. \A b \in B : p \in Run(b, size'[b]) <=> p \in Nat /\ b <= p /\ p < EndOf(b)'
  BY DEF TypeOK, Run, EndOf
<1>2. Covered(B)' = UNION {Run(b, size'[b]) : b \in B}
  BY DEF Covered, Run
<1> QED
  BY <1>1, <1>2

(* When a step adds the pages S to the ones its list holds, or takes them. *)
GrowsBy(B, C, S) ==
  \A p \in Nat : (\E b \in C : b <= p /\ p < EndOf(b)') <=>
                   \/ \E b \in B : b <= p /\ p < EndOf(b)
                   \/ p \in S

ShrinksBy(B, C, S) ==
  \A p \in Nat : (\E b \in C : b <= p /\ p < EndOf(b)') <=>
                   /\ \E b \in B : b <= p /\ p < EndOf(b)
                   /\ p \notin S

(* The pages of the list grow by S when the blocks do.                     *)
LEMMA CoverGrows ==
  ASSUME TypeOK, TypeOK', NEW B \in SUBSET Page, NEW C \in SUBSET Page,
         NEW S \in SUBSET Nat, GrowsBy(B, C, S)
  PROVE  Covered(C)' = Covered(B) \cup S
BY CoveredMembers, CoveredMembersNext DEF GrowsBy

(* They shrink by S when the blocks do.                                    *)
LEMMA CoverShrinks ==
  ASSUME TypeOK, TypeOK', NEW B \in SUBSET Page, NEW C \in SUBSET Page,
         NEW S \in SUBSET Nat, ShrinksBy(B, C, S)
  PROVE  Covered(C)' = Covered(B) \ S
BY CoveredMembers, CoveredMembersNext DEF ShrinksBy

(* A block holds its own first page.                                       *)
LEMMA BlocksAreCovered ==
  ASSUME TypeOK, NEW B \in SUBSET Page, IsFreeList(B)
  PROVE  B \subseteq Covered(B)
<1>1. \A b \in B : b \in Nat /\ b <= b /\ b < EndOf(b)
  BY DEF TypeOK, IsFreeList, EndOf
<1> QED
  BY <1>1, CoveredMembers

(* A block that is its own neighbour is alone.                             *)
LEMMA SelfLinkedIsSole ==
  ASSUME TypeOK, NEW B \in SUBSET Page, IsFreeList(B),
         NEW b \in B, prev[b] = b \/ next[b] = b
  PROVE  B = {b} /\ free_phys_memory_pointer = b /\ prev[b] = b /\ next[b] = b
<1>1. prev[b] = b /\ next[b] = b
  BY DEF IsFreeList
<1>2. b = free_phys_memory_pointer
  BY <1>1 DEF IsFreeList, TypeOK
<1>3. \A c \in B : c = b
  BY <1>1, <1>2 DEF IsFreeList, TypeOK
<1> QED
  BY <1>1, <1>2, <1>3

(* Below a block that is not the lowest, the next block down is its prev.  *)
LEMMA NothingBetween ==
  ASSUME TypeOK, NEW B \in SUBSET Page, IsFreeList(B),
         NEW b \in B, prev[b] # free_phys_memory_pointer
  PROVE  prev[b] < b /\ \A c \in B : c > prev[b] => c >= b
<1>1. prev[b] \in B /\ next[prev[b]] = b
  BY DEF IsFreeList
<1>2. prev[b] < next[prev[b]]
      /\ \A c \in B : c <= prev[b] \/ next[prev[b]] <= c
  BY <1>1 DEF IsFreeList
<1>3. \A c \in B : c \in Nat
  OBVIOUS
<1>4. ASSUME NEW c \in B, c > prev[b] PROVE c >= b
  <2>1. c <= prev[b] \/ b <= c
    BY <1>1, <1>2
  <2>2. c \in Nat /\ b \in Nat /\ prev[b] \in Nat
    BY <1>1, <1>3
  <2>3. c > prev[b]
    BY <1>4
  <2> QED
    BY <2>1, <2>2, <2>3
<1> QED
  BY <1>1, <1>2, <1>4

(* The block whose prev is the head is the lowest one.                     *)
LEMMA LowestLinksToHead ==
  ASSUME TypeOK, NEW B \in SUBSET Page, IsFreeList(B),
         NEW b \in B, prev[b] = free_phys_memory_pointer
  PROVE  \A c \in B : b <= c
BY DEF IsFreeList, TypeOK

(* A list whose blocks and head a step leaves alone stays well formed.     *)
LEMMA ListFrame ==
  ASSUME TypeOK, NEW B \in SUBSET Page, IsFreeList(B),
         free_phys_memory_pointer' = free_phys_memory_pointer,
         \A b \in B : next'[b] = next[b] /\ prev'[b] = prev[b] /\ size'[b] = size[b]
  PROVE  IsFreeList(B)' /\ Covered(B)' = Covered(B)
<1>1. \A b \in B : EndOf(b)' = EndOf(b)
  BY DEF EndOf
<1>2. Covered(B)' = Covered(B)
  BY DEF Covered, Run
<1>3. \A b \in B : /\ (b <= free_phys_memory_pointer)'
                   /\ (size[b] > 0)'
                   /\ (next[b] \in B)'
                   /\ (prev[next[b]] = b)'
                   /\ (prev[b] \in B)'
                   /\ (next[prev[b]] = b)'
  <2> SUFFICES ASSUME NEW b \in B
               PROVE  /\ (b <= free_phys_memory_pointer)'
                      /\ (size[b] > 0)'
                      /\ (next[b] \in B)'
                      /\ (prev[next[b]] = b)'
                      /\ (prev[b] \in B)'
                      /\ (next[prev[b]] = b)'
    OBVIOUS
  <2>1. /\ b <= free_phys_memory_pointer /\ size[b] > 0
        /\ next[b] \in B /\ prev[next[b]] = b
        /\ prev[b] \in B /\ next[prev[b]] = b
    BY DEF IsFreeList
  <2> QED
    BY <2>1
<1>4. \A b \in B : (IF b = free_phys_memory_pointer
                    THEN \A c \in B : next[b] <= c
                    ELSE b < next[b] /\ \A c \in B : c <= b \/ next[b] <= c)'
  BY DEF IsFreeList
<1>5. \A b, c \in B : b < c => EndOf(b)' < c
  BY <1>1 DEF IsFreeList
<1>6. IsFreeList(B)'
  BY <1>3, <1>4, <1>5 DEF IsFreeList
<1> QED
  BY <1>2, <1>6

(* A page belongs to one block.                                            *)
LEMMA BlocksAreDisjoint ==
  ASSUME TypeOK, NEW B \in SUBSET Page, IsFreeList(B),
         NEW b \in B, NEW c \in B, NEW p \in Nat,
         b <= p, p < EndOf(b), c <= p, p < EndOf(c)
  PROVE  b = c
<1>1. b \in Nat /\ c \in Nat /\ p \in Nat /\ EndOf(b) \in Nat /\ EndOf(c) \in Nat
  BY DEF TypeOK, EndOf
<1>2. (b < c => EndOf(b) < c) /\ (c < b => EndOf(c) < b)
  BY DEF IsFreeList
<1> QED
  BY <1>1, <1>2

(* What the invariant says about one page.                                 *)
LEMMA CoverPointwise ==
  ASSUME TypeOK, NEW B \in SUBSET Page, Covered(B) = Released, NEW p \in Page
  PROVE  (\E b \in B : b <= p /\ p < EndOf(b))
           <=> (p \notin owned /\ p \notin dropped /\ p \notin InFlight)
BY CoveredMembers DEF Released

-----------------------------------------------------------------------------
(* Each action keeps the list sound                                        *)

(* The state in which an action is taken, with its list.                   *)
Sound(B) ==
  /\ TypeOK
  /\ B \in SUBSET Page
  /\ ListInv(B)
  /\ owned \cup dropped \subseteq Page
  /\ owned \cap dropped = {}

(* An owner that writes into its page leaves the list alone.               *)
LEMMA OwnerWritesSound ==
  ASSUME NEW B, Sound(B), NEW p \in Page, NEW h \in Scribble, OwnerWrites(p, h)
  PROVE  ListInv(B)'
<1> USE DEF Sound, ListInv
<1>1. p \notin B
  <2>1. B \subseteq Covered(B)
    BY BlocksAreCovered
  <2> QED
    BY <2>1 DEF OwnerWrites, Released
<1>2. \A b \in B : next'[b] = next[b] /\ prev'[b] = prev[b] /\ size'[b] = size[b]
  BY <1>1 DEF OwnerWrites, TypeOK
<1>3. IsFreeList(B)' /\ Covered(B)' = Covered(B)
  BY <1>2, ListFrame DEF OwnerWrites
<1>4. Released' = Released
  BY DEF OwnerWrites, Released, InFlight, call
<1>5. WalkSound(B)'
  BY DEF OwnerWrites, WalkSound
<1> QED
  BY <1>3, <1>4, <1>5

(* The walk of an allocation starts at the head, with no block passed.     *)
LEMMA AllocCallSound ==
  ASSUME NEW B, Sound(B), NEW n \in 1 .. MaxRun, AllocRefused(n) \/ AllocCall(n)
  PROVE  ListInv(B)'
<1> USE DEF Sound, ListInv
<1>1. UNCHANGED <<free_phys_memory_pointer, next, prev, size>>
  BY DEF AllocRefused, AllocCall, header
<1>2. IsFreeList(B)' /\ Covered(B)' = Covered(B)
  BY <1>1, ListFrame
<1>3. Released' = Released
  BY DEF AllocRefused, AllocCall, Released, InFlight, call
<1>4. WalkSound(B)'
  <2>1. CASE AllocRefused(n)
    BY <2>1 DEF AllocRefused, WalkSound
  <2>2. CASE AllocCall(n)
    <3>1. free_phys_memory_pointer \in B /\ \A b \in B : b <= free_phys_memory_pointer
      BY <2>2 DEF AllocCall, Refuses, IsFreeList
    <3>2. pc' = "alloc" /\ cur_block' \in B /\ count' > 0
      BY <2>2, <3>1 DEF AllocCall
    <3>3. \A b \in B : ~(b > cur_block')
      BY <2>2, <3>1 DEF AllocCall
    <3> QED
      BY <3>2, <3>3 DEF WalkSound
  <2> QED
    BY <2>1, <2>2
<1> QED
  BY <1>2, <1>3, <1>4

(* Going on to the next block down adds a block that was too small to      *)
(* those passed.                                                           *)
LEMMA AllocWalkSound ==
  ASSUME NEW B, Sound(B), AllocWalk \/ AllocFails
  PROVE  ListInv(B)'
<1> USE DEF Sound, ListInv
<1>1. UNCHANGED <<free_phys_memory_pointer, next, prev, size>>
  BY DEF AllocWalk, AllocFails, header
<1>2. IsFreeList(B)' /\ Covered(B)' = Covered(B)
  BY <1>1, ListFrame
<1>3. Released' = Released
  BY DEF AllocWalk, AllocFails, EndCall, Released, InFlight
<1>4. WalkSound(B)'
  <2>1. CASE AllocFails
    BY <2>1 DEF AllocFails, EndCall, WalkSound
  <2>2. CASE AllocWalk
    <3>1. /\ pc = "alloc" /\ cur_block \in B /\ prev[cur_block] \in B
          /\ size[cur_block] < count /\ count > 0
          /\ prev[cur_block] # free_phys_memory_pointer
      BY <2>2 DEF AllocWalk, WalkEnds, WalkSound, IsFreeList
    <3>2. \A c \in B : c > prev[cur_block] => c >= cur_block
      BY <3>1, NothingBetween
    <3>3. \A b \in B : b > prev[cur_block] => size[b] < count
      BY <3>1, <3>2 DEF WalkSound
    <3> QED
      BY <2>2, <3>1, <3>3 DEF AllocWalk, WalkSound, header
  <2> QED
    BY <2>1, <2>2
<1> QED
  BY <1>2, <1>3, <1>4

(* Both ways to serve a request take the pages r .. r + count - 1.         *)
LEMMA AllocReleased ==
  ASSUME NEW r, pc = "alloc", AllocReturns(r)
  PROVE  Released' = Released \ Run(r, count)
BY DEF AllocReturns, EndCall, Released, InFlight

(* A block that gives up its highest pages stays in a sound list.          *)
LEMMA AllocTopSound ==
  ASSUME NEW B, Sound(B), TypeOK', AllocTop
  PROVE  ListInv(B)'
<1> USE DEF Sound, ListInv
<1>1. cur_block \in B /\ count > 0 /\ size[cur_block] > count
  BY DEF AllocTop, TooLarge, WalkSound
<1>2. /\ UNCHANGED <<free_phys_memory_pointer, next, prev>>
      /\ size' = [size EXCEPT ![cur_block] = @ - count]
  BY DEF AllocTop, Shrunk
<1>3. \A b \in B : /\ b \in Nat
                   /\ EndOf(b) \in Nat
                   /\ EndOf(b)' = IF b = cur_block THEN EndOf(b) - count ELSE EndOf(b)
  BY <1>1, <1>2 DEF TypeOK, EndOf
<1>4. IsFreeList(B)'
  <2>1. \A b \in B : size'[b] > 0
    BY <1>1, <1>2 DEF TypeOK, IsFreeList
  <2>2. \A b, c \in B : b < c => EndOf(b)' < c
    <3> SUFFICES ASSUME NEW b \in B, NEW c \in B, b < c PROVE EndOf(b)' < c
      OBVIOUS
    <3>1. EndOf(b) < c
      BY DEF IsFreeList
    <3>2. count \in Nat
      BY DEF TypeOK
    <3> QED
      BY <1>1, <1>3, <3>1, <3>2
  <2> QED
    BY <1>2, <2>1, <2>2 DEF IsFreeList
<1>5. Covered(B)' = Covered(B) \ Run(EndOf(cur_block) - count, count)
  <2> DEFINE S == Run(EndOf(cur_block) - count, count)
  <2>0. S \in SUBSET Nat
    BY <1>1, <1>3 DEF TypeOK, Run, EndOf
  <2> SUFFICES ShrinksBy(B, B, S)
    BY <2>0, CoverShrinks
  <2> SUFFICES ASSUME NEW p \in Nat
               PROVE  (\E b \in B : b <= p /\ p < EndOf(b)') <=>
                        /\ \E b \in B : b <= p /\ p < EndOf(b)
                        /\ p \notin S
    BY DEF ShrinksBy
  <2>1. count \in Nat /\ p \in Nat /\ EndOf(cur_block) \in Nat
    BY <1>1, <1>3 DEF TypeOK
  <2>2. ASSUME NEW b \in B, b <= p, p < EndOf(b)'
        PROVE  p < EndOf(b) /\ p \notin S
    <3>1. p < EndOf(b)
      BY <1>3, <2>1, <2>2
    <3>2. p \in Run(EndOf(cur_block) - count, count) => b = cur_block
      <4> SUFFICES ASSUME p \in Run(EndOf(cur_block) - count, count) PROVE b = cur_block
        OBVIOUS
      <4>1. cur_block <= p /\ p < EndOf(cur_block)
        BY <1>1, <2>1 DEF Run, EndOf, TypeOK
      <4> QED
        BY <1>1, <2>2, <3>1, <4>1, BlocksAreDisjoint
    <3>3. p \notin Run(EndOf(cur_block) - count, count)
      BY <1>3, <2>1, <2>2, <3>2 DEF Run
    <3> QED
      BY <2>2, <3>1, <3>3
  <2>3. ASSUME NEW b \in B, b <= p, p < EndOf(b), p \notin S
        PROVE  p < EndOf(b)'
    BY <1>3, <2>1, <2>3 DEF Run
  <2> QED
    BY <2>2, <2>3
<1>6. Released' = Released \ Run(EndOf(cur_block) - count, count)
  BY AllocReleased DEF AllocTop
<1>7. WalkSound(B)'
  BY DEF AllocTop, AllocReturns, EndCall, WalkSound
<1> QED
  BY <1>4, <1>5, <1>6, <1>7

(* Taking a block that is not alone out of the list, by linking its        *)
(* neighbours to each other, leaves a well-formed list.                    *)
LEMMA UnlinkedList ==
  ASSUME TypeOK, NEW B \in SUBSET Page, IsFreeList(B),
         NEW C, C = B \ {cur_block}, cur_block \in B,
         prev[cur_block] # cur_block,
         next' = [next EXCEPT ![prev[cur_block]] = next[cur_block]],
         prev' = [prev EXCEPT ![next[cur_block]] = prev[cur_block]],
         free_phys_memory_pointer' = HeadBecomes(prev[cur_block]),
         \A b \in C : size'[b] > 0,
         \A b, c \in C : b < c => EndOf(b)' < c
  PROVE  IsFreeList(C)'
<1> DEFINE up == next[cur_block]
           down == prev[cur_block]
<1>0. down # cur_block
  OBVIOUS
<1>1. /\ cur_block \in B /\ up \in B /\ down \in B
      /\ next[down] = cur_block /\ prev[up] = cur_block
  BY DEF IsFreeList
<1>2. /\ next' = [next EXCEPT ![down] = up]
      /\ prev' = [prev EXCEPT ![up] = down]
      /\ free_phys_memory_pointer' =
           IF cur_block = free_phys_memory_pointer
           THEN down
           ELSE free_phys_memory_pointer
  BY DEF HeadBecomes
<1>3. \A b \in B : b \in Nat
  OBVIOUS
<1>4. down \in C /\ up \in C
  BY <1>1, <1>0, SelfLinkedIsSole
<1>5. /\ free_phys_memory_pointer' \in C
      /\ \A b \in C : b <= free_phys_memory_pointer'
  <2>1. CASE cur_block = free_phys_memory_pointer
    <3>1. \A c \in B : c > down => c >= cur_block
      BY <1>1, <1>0, <2>1, NothingBetween
    <3>2. \A b \in B : b <= cur_block
      BY <2>1 DEF IsFreeList
    <3>3. free_phys_memory_pointer' = down
      BY <1>2, <1>0, <2>1
    <3>4. ASSUME NEW b \in C PROVE b <= down
      <4>1. b \in Nat /\ down \in Nat /\ cur_block \in Nat /\ b # cur_block
        BY <1>1, <1>3
      <4>2. (b > down => b >= cur_block) /\ b <= cur_block
        BY <3>1, <3>2
      <4> QED
        BY <4>1, <4>2
    <3> QED
      BY <1>4, <3>3, <3>4
  <2>2. CASE cur_block # free_phys_memory_pointer
    BY <1>1, <1>2, <2>2 DEF IsFreeList
  <2> QED
    BY <2>1, <2>2
<1>6. \A b \in C : /\ next'[b] = (IF b = down THEN up ELSE next[b])
                   /\ prev'[b] = (IF b = up THEN down ELSE prev[b])
  BY <1>1, <1>2 DEF TypeOK
<1>7. \A b \in C : /\ next'[b] \in C
                   /\ prev'[next'[b]] = b
                   /\ prev'[b] \in C
                   /\ next'[prev'[b]] = b
  <2> SUFFICES ASSUME NEW b \in C
               PROVE  /\ next'[b] \in C
                      /\ prev'[next'[b]] = b
                      /\ prev'[b] \in C
                      /\ next'[prev'[b]] = b
    OBVIOUS
  <2>1. /\ next[b] \in B /\ prev[next[b]] = b
        /\ prev[b] \in B /\ next[prev[b]] = b
    BY DEF IsFreeList
  <2>2. b # down => next[b] # cur_block /\ next[b] # up
    BY <1>1, <2>1
  <2>3. b # up => prev[b] # cur_block /\ prev[b] # down
    BY <1>1, <2>1
  <2> QED
    BY <1>4, <1>6, <2>1, <2>2, <2>3
<1>8. \A b \in C : IF b = free_phys_memory_pointer'
                   THEN \A c \in C : next'[b] <= c
                   ELSE b < next'[b] /\ \A c \in C : c <= b \/ next'[b] <= c
  <2>1. ASSUME NEW b \in C, b # down
        PROVE IF b = free_phys_memory_pointer'
              THEN \A c \in C : next'[b] <= c
              ELSE b < next'[b] /\ \A c \in C : c <= b \/ next'[b] <= c
    <3>1. next'[b] = next[b]
      BY <1>6, <2>1
    <3>2. b = free_phys_memory_pointer' <=> b = free_phys_memory_pointer
      <4>1. CASE cur_block = free_phys_memory_pointer
        BY <1>2, <1>0, <2>1, <4>1
      <4>2. CASE cur_block # free_phys_memory_pointer
        BY <1>2, <4>2
      <4> QED
        BY <4>1, <4>2
    <3> QED
      BY <3>1, <3>2 DEF IsFreeList
  <2>2. next'[down] = up
    BY <1>4, <1>6
  <2>3. CASE cur_block = free_phys_memory_pointer
    <3>1. free_phys_memory_pointer' = down
      BY <1>2, <1>0, <2>3
    <3>2. \A c \in C : up <= c
      BY <1>1, <2>3 DEF IsFreeList
    <3> QED
      BY <2>1, <2>2, <3>1, <3>2
  <2>4. CASE down = free_phys_memory_pointer
    <3>1. free_phys_memory_pointer' = down
      BY <1>2, <1>0, <2>4
    <3>2. \A c \in B : cur_block <= c
      BY <1>1, <2>4, LowestLinksToHead
    <3>3. \A c \in B : c <= cur_block \/ up <= c
      BY <1>1, <1>0, <2>4 DEF IsFreeList
    <3>4. \A c \in C : up <= c
      BY <1>1, <1>3, <3>2, <3>3
    <3> QED
      BY <2>1, <2>2, <3>1, <3>4
  <2>5. CASE cur_block # free_phys_memory_pointer /\ down # free_phys_memory_pointer
    <3>1. free_phys_memory_pointer' # down
      BY <1>2, <2>5
    <3>2. down < cur_block /\ \A c \in B : c > down => c >= cur_block
      BY <1>1, <2>5, NothingBetween
    <3>3. cur_block < up /\ \A c \in B : c <= cur_block \/ up <= c
      BY <1>1, <2>5 DEF IsFreeList
    <3>4. down < up
      <4>1. down \in Nat /\ up \in Nat /\ cur_block \in Nat
        BY <1>1, <1>3
      <4> QED
        BY <3>2, <3>3, <4>1
    <3>5. ASSUME NEW c \in C PROVE c <= down \/ up <= c
      <4>1. c \in Nat /\ down \in Nat /\ up \in Nat /\ cur_block \in Nat /\ c # cur_block
        BY <1>1, <1>3
      <4>2. (c > down => c >= cur_block) /\ (c <= cur_block \/ up <= c)
        BY <3>2, <3>3
      <4> QED
        BY <4>1, <4>2
    <3> QED
      BY <2>1, <2>2, <3>1, <3>4, <3>5
  <2> QED
    BY <2>3, <2>4, <2>5
<1>9. free_phys_memory_pointer' # NoBlock
  BY <1>5
<1> QED
  BY <1>5, <1>7, <1>8, <1>9 DEF IsFreeList

(* Taking a whole block, the last one too, leaves a sound list.            *)
LEMMA AllocWholeSound ==
  ASSUME NEW B, Sound(B), TypeOK', AllocWhole, NEW C, C = B \ {cur_block}
  PROVE  ListInv(C)'
<1> USE DEF Sound, ListInv
<1> DEFINE up == next[cur_block]
           down == prev[cur_block]
<1>1. /\ cur_block \in B /\ up \in B /\ down \in B
      /\ size[cur_block] = count /\ count > 0
      /\ next[down] = cur_block /\ prev[up] = cur_block
  BY DEF AllocWhole, WalkSound, IsFreeList
<1>2. /\ next' = [next EXCEPT ![down] = up]
      /\ prev' = [prev EXCEPT ![up] = down]
      /\ size' = size
      /\ free_phys_memory_pointer' =
           IF cur_block = free_phys_memory_pointer
           THEN IF down = cur_block THEN NoBlock ELSE down
           ELSE free_phys_memory_pointer
  BY <1>1 DEF AllocWhole, UnlinkedPrev, HeadAfterUnlink, HeadBecomes
<1>3. \A b \in B : EndOf(b)' = EndOf(b) /\ b \in Nat /\ EndOf(b) \in Nat
  BY <1>2 DEF EndOf, TypeOK
<1>4. IsFreeList(C)'
  <2>1. CASE down = cur_block
    <3>1. B = {cur_block} /\ free_phys_memory_pointer = cur_block
      BY <1>1, <2>1, SelfLinkedIsSole
    <3>2. C = {} /\ free_phys_memory_pointer' = NoBlock
      BY <1>2, <2>1, <3>1
    <3> QED
      BY <3>2 DEF IsFreeList
  <2>2. CASE down # cur_block
    <3>1. \A b, c \in C : b < c => EndOf(b)' < c
      BY <1>3 DEF IsFreeList
    <3>2. \A b \in C : size'[b] > 0
      BY <1>2 DEF IsFreeList
    <3>3. free_phys_memory_pointer' = HeadBecomes(down)
      BY <1>2, <2>2 DEF HeadBecomes
    <3> QED
      BY <1>1, <1>2, <2>2, <3>1, <3>2, <3>3, UnlinkedList
  <2> QED
    BY <2>1, <2>2
<1>5. Covered(C)' = Covered(B) \ Run(cur_block, count)
  <2>0. Run(cur_block, count) \in SUBSET Nat /\ C \in SUBSET Page
    <3>1. cur_block \in Nat /\ count \in Nat
      BY <1>1 DEF TypeOK
    <3>2. Run(cur_block, count) \subseteq Nat
      BY <3>1 DEF Run
    <3> QED
      BY <3>2
  <2> SUFFICES ShrinksBy(B, C, Run(cur_block, count))
    BY <2>0, CoverShrinks
  <2> SUFFICES ASSUME NEW p \in Nat
               PROVE  (\E b \in C : b <= p /\ p < EndOf(b)') <=>
                        /\ \E b \in B : b <= p /\ p < EndOf(b)
                        /\ p \notin Run(cur_block, count)
    BY DEF ShrinksBy
  <2>1. p \in Run(cur_block, count) <=> cur_block <= p /\ p < EndOf(cur_block)
    BY <1>1, <1>3 DEF Run, EndOf, TypeOK
  <2>2. ASSUME NEW b \in C, b <= p, p < EndOf(b)'
        PROVE  p < EndOf(b) /\ p \notin Run(cur_block, count)
    <3>1. p < EndOf(b)
      BY <1>3, <2>2
    <3> QED
      BY <1>1, <2>1, <2>2, <3>1, BlocksAreDisjoint
  <2>3. ASSUME NEW b \in B, b <= p, p < EndOf(b), p \notin Run(cur_block, count)
        PROVE  b \in C /\ p < EndOf(b)'
    BY <1>3, <2>1, <2>3
  <2> QED
    BY <2>2, <2>3
<1>6. Released' = Released \ Run(cur_block, count)
  BY AllocReleased DEF AllocWhole
<1>7. WalkSound(C)'
  BY DEF AllocWhole, AllocReturns, EndCall, WalkSound
<1> QED
  BY <1>4, <1>5, <1>6, <1>7

(* The run being given back and a block never overlap.                     *)
LEMMA RunOutsideBlock ==
  ASSUME NEW B, Sound(B), pc = "free", NEW b \in B
  PROVE  /\ base \in Nat /\ count \in Nat /\ b \in Nat /\ EndOf(b) \in Nat
         /\ count > 0 /\ b < EndOf(b)
         /\ EndOf(b) <= base \/ base + count <= b
<1> USE DEF Sound, ListInv
<1>1. /\ base \in Nat /\ count \in Nat /\ b \in Nat /\ EndOf(b) \in Nat
      /\ count > 0 /\ b < EndOf(b) /\ base \in Page /\ b \in Page
  BY DEF WalkSound, TypeOK, IsFreeList, EndOf
<1>2. \A p \in Page : p \in Run(base, count) => ~(b <= p /\ p < EndOf(b))
  BY CoverPointwise DEF InFlight
<1>3. base \in Run(base, count)
  BY <1>1 DEF Run
<1>4. b \in Run(base, count) <=> base <= b /\ b < base + count
  BY <1>1 DEF Run
<1>5. ~(b <= base /\ base < EndOf(b)) /\ ~(base <= b /\ b < base + count)
  BY <1>1, <1>2, <1>3, <1>4
<1> QED
  BY <1>1, <1>5

(* The pages of a run.                                                     *)
LEMMA RunMembership ==
  ASSUME NEW b \in Nat, NEW n \in Nat, NEW p \in Nat
  PROVE  p \in Run(b, n) <=> b <= p /\ p < b + n
BY DEF Run

(* The first block makes a list of one.                                    *)
LEMMA FreeFirstSound ==
  ASSUME NEW B, Sound(B), NEW b \in Page, NEW n \in 1 .. MaxRun, FreeFirst(b, n),
         TypeOK', NEW C, C = {b}
  PROVE  ListInv(C)'
<1> USE DEF Sound, ListInv
<1>1. B = {} /\ Covered(B) = {}
  BY DEF FreeFirst, IsFreeList, Covered, Run
<1>2. /\ free_phys_memory_pointer' = b /\ next'[b] = b /\ prev'[b] = b /\ size'[b] = n
      /\ EndOf(b)' = b + n /\ b \in Nat /\ n \in Nat /\ n > 0 /\ b # NoBlock
  BY DEF FreeFirst, TypeOK, EndOf
<1>3. IsFreeList(C)'
  BY <1>2 DEF IsFreeList
<1>4. Run(b, n) \subseteq Page
  BY DEF FreeFirst
<1>5. Covered(C)' = Run(b, n)
  <2>1. \A p \in Nat : p \in Covered(C)' <=> b <= p /\ p < b + n
    BY <1>2, CoveredMembersNext
  <2>2. \A p \in Nat : p \in Run(b, n) <=> b <= p /\ p < b + n
    BY <1>2, RunMembership
  <2>3. Covered(C)' \subseteq Nat
    BY CoveredMembersNext
  <2> QED
    BY <1>4, <2>1, <2>2, <2>3
<1>6. Released' = Released \cup Run(b, n)
  BY <1>4 DEF FreeFirst, Released, InFlight, call
<1>7. WalkSound(C)'
  BY DEF FreeFirst, WalkSound
<1> QED
  BY <1>1, <1>3, <1>5, <1>6, <1>7

(* The walk of a free starts at the head, with no block passed.            *)
LEMMA FreeCallSound ==
  ASSUME NEW B, Sound(B), NEW b \in Page, NEW n \in 1 .. MaxRun, FreeCall(b, n)
  PROVE  ListInv(B)'
<1> USE DEF Sound, ListInv
<1>1. UNCHANGED <<free_phys_memory_pointer, next, prev, size>>
  BY DEF FreeCall, header
<1>2. IsFreeList(B)' /\ Covered(B)' = Covered(B)
  BY <1>1, ListFrame
<1>3. Released' = Released
  BY DEF FreeCall, Released, InFlight
<1>4. WalkSound(B)'
  <2>1. free_phys_memory_pointer \in B /\ \A c \in B : c <= free_phys_memory_pointer
    BY DEF FreeCall, IsFreeList
  <2>2. \A c \in B : ~(c > cur_block')
    BY <2>1 DEF FreeCall
  <2>3. /\ pc' = "free" /\ cur_block' \in B /\ count' > 0
        /\ Run(base', count') \subseteq Page \ (owned' \cup dropped')
    BY <2>1 DEF FreeCall
  <2> QED
    BY <2>2, <2>3 DEF WalkSound
<1> QED
  BY <1>2, <1>3, <1>4

(* Going on to the next block down adds a block beyond the run to those    *)
(* passed.                                                                 *)
LEMMA FreeWalkSound ==
  ASSUME NEW B, Sound(B), FreeWalk \/ FreeDrops
  PROVE  ListInv(B)'
<1> USE DEF Sound, ListInv
<1>1. UNCHANGED <<free_phys_memory_pointer, next, prev, size>>
  BY DEF FreeWalk, FreeDrops, header
<1>2. IsFreeList(B)' /\ Covered(B)' = Covered(B)
  BY <1>1, ListFrame
<1>3. Released' = Released
  BY DEF FreeWalk, FreeDrops, FreeReturns, EndCall, Released, InFlight
<1>4. WalkSound(B)'
  <2>1. CASE FreeDrops
    BY <2>1 DEF FreeDrops, FreeReturns, EndCall, WalkSound
  <2>2. CASE FreeWalk
    <3>1. /\ pc = "free" /\ cur_block \in B /\ prev[cur_block] \in B
          /\ ~LiesAbove /\ ~Continues /\ ~LiesBelow
          /\ prev[cur_block] # free_phys_memory_pointer
      BY <2>2 DEF FreeWalk, WalkEnds, WalkSound, IsFreeList
    <3>2. \A c \in B : c > prev[cur_block] => c >= cur_block
      BY <3>1, NothingBetween
    <3>3. base + count < cur_block
      <4>1. /\ base \in Nat /\ count \in Nat /\ cur_block \in Nat
            /\ EndOf(cur_block) \in Nat
            /\ EndOf(cur_block) <= base \/ base + count <= cur_block
        BY <3>1, RunOutsideBlock
      <4> QED
        BY <3>1, <4>1 DEF LiesAbove, Continues, LiesBelow
    <3>4. ASSUME NEW c \in B, c > prev[cur_block] PROVE base + count < c
      <4>1. c > cur_block => base + count < c
        BY <3>1 DEF WalkSound
      <4>2. c >= cur_block /\ c \in Nat /\ cur_block \in Nat
        BY <3>1, <3>2, <3>4
      <4> QED
        BY <3>3, <4>1, <4>2
    <3>5. /\ cur_block' = prev[cur_block]
          /\ UNCHANGED <<pc, base, count, owned, dropped>>
      BY <2>2 DEF FreeWalk
    <3> QED
      BY <3>1, <3>4, <3>5 DEF WalkSound
  <2> QED
    BY <2>1, <2>2
<1> QED
  BY <1>2, <1>3, <1>4

(* Every branch that links the run in makes its pages free.                *)
LEMMA FreeReleased ==
  ASSUME NEW B, Sound(B), pc = "free", FreeReturns, dropped' = dropped
  PROVE  Released' = Released \cup Run(base, count)
BY DEF Sound, ListInv, WalkSound, FreeReturns, EndCall, Released, InFlight

(* Growing or adding a block adds the pages of the run to the cover.       *)
LEMMA RunPages ==
  ASSUME NEW B, Sound(B), pc = "free"
  PROVE  /\ Run(base, count) \subseteq Page
         /\ \A p \in Nat : p \in Run(base, count) <=> base <= p /\ p < base + count
<1>1. Run(base, count) \subseteq Page
  BY DEF Sound, ListInv, WalkSound
<1>2. base \in Nat /\ count \in Nat
  BY DEF Sound, TypeOK
<1> QED
  BY <1>1, <1>2, RunMembership

(* A block that grows upwards stays in a sound list.                       *)
LEMMA FreeExtendSound ==
  ASSUME NEW B, Sound(B), TypeOK', FreeExtend
  PROVE  ListInv(B)'
<1> USE DEF Sound, ListInv
<1>1. /\ pc = "free" /\ cur_block \in B /\ next[cur_block] \in B
      /\ base = EndOf(cur_block)
      /\ \A b \in B : b > cur_block => base + count < b
  BY DEF FreeExtend, Continues, WalkSound, IsFreeList
<1>2. \A b \in B : /\ base \in Nat /\ count \in Nat /\ b \in Nat /\ EndOf(b) \in Nat
                   /\ count > 0 /\ b < EndOf(b)
  BY <1>1, RunOutsideBlock
<1>3. next[cur_block] # base + count
  <2>1. next[cur_block] \in Nat /\ cur_block \in Nat /\ base \in Nat /\ count \in Nat
        /\ cur_block < base
    BY <1>1, <1>2
  <2>2. next[cur_block] > cur_block => base + count < next[cur_block]
    BY <1>1
  <2> QED
    BY <2>1, <2>2
<1>4. /\ UNCHANGED <<free_phys_memory_pointer, next, prev>>
      /\ size' = [size EXCEPT ![cur_block] = @ + count]
      /\ FreeReturns /\ dropped' = dropped
  BY <1>3 DEF FreeExtend
<1>5. \A b \in B : EndOf(b)' = IF b = cur_block THEN EndOf(b) + count ELSE EndOf(b)
  BY <1>1, <1>4 DEF TypeOK, EndOf
<1>6. IsFreeList(B)'
  <2>1. \A b \in B : size'[b] > 0
    BY <1>1, <1>2, <1>4 DEF TypeOK, IsFreeList
  <2>2. \A b, c \in B : b < c => EndOf(b)' < c
    <3> SUFFICES ASSUME NEW b \in B, NEW c \in B, b < c PROVE EndOf(b)' < c
      OBVIOUS
    <3>1. EndOf(b) < c
      BY DEF IsFreeList
    <3> QED
      BY <1>1, <1>5, <3>1
  <2> QED
    BY <1>4, <2>1, <2>2 DEF IsFreeList
<1>7. Covered(B)' = Covered(B) \cup Run(base, count)
  <2>0. /\ Run(base, count) \in SUBSET Nat /\ B \in SUBSET Page
        /\ TypeOK /\ TypeOK'
    <3>1. Run(base, count) \subseteq Page
      BY <1>1, RunPages
    <3>2. TypeOK /\ TypeOK'
      OBVIOUS
    <3> QED
      BY <3>1, <3>2
  <2> SUFFICES GrowsBy(B, B, Run(base, count))
    BY <2>0, CoverGrows
  <2> SUFFICES ASSUME NEW p \in Nat
               PROVE  (\E b \in B : b <= p /\ p < EndOf(b)') <=>
                        \/ \E b \in B : b <= p /\ p < EndOf(b)
                        \/ p \in Run(base, count)
    BY DEF GrowsBy
  <2>1. p \in Nat /\ (p \in Run(base, count) <=> base <= p /\ p < base + count)
    BY <1>1, RunPages
  <2>2. ASSUME NEW b \in B, b <= p, p < EndOf(b)'
        PROVE  p < EndOf(b) \/ p \in Run(base, count)
    BY <1>1, <1>2, <1>5, <2>1, <2>2
  <2>3. ASSUME NEW b \in B, b <= p, p < EndOf(b)
        PROVE  p < EndOf(b)'
    BY <1>2, <1>5, <2>1, <2>3
  <2>4. ASSUME p \in Run(base, count)
        PROVE  \E b \in B : b <= p /\ p < EndOf(b)'
    <3>1. PICK b \in B : b = cur_block
      BY <1>1
    <3>2. /\ base \in Nat /\ count \in Nat /\ b \in Nat
          /\ b < base /\ EndOf(b)' = base + count
      BY <1>1, <1>2, <1>5, <3>1
    <3>3. b <= p /\ p < EndOf(b)'
      BY <2>1, <2>4, <3>2
    <3> QED
      BY <3>3
  <2>5. (\E b \in B : b <= p /\ p < EndOf(b)') =>
          (\E b \in B : b <= p /\ p < EndOf(b)) \/ p \in Run(base, count)
    BY <2>2
  <2>6. (\E b \in B : b <= p /\ p < EndOf(b)) => \E b \in B : b <= p /\ p < EndOf(b)'
    BY <2>3
  <2>7. p \in Run(base, count) => \E b \in B : b <= p /\ p < EndOf(b)'
    BY <2>4
  <2> QED
    BY <2>5, <2>6, <2>7
<1>8. Released' = Released \cup Run(base, count)
  BY <1>1, <1>4, FreeReleased
<1>9. WalkSound(B)'
  BY <1>4 DEF FreeReturns, EndCall, WalkSound
<1> QED
  BY <1>6, <1>7, <1>8, <1>9

(* A run that joins two blocks leaves a sound list.                        *)
LEMMA FreeClosesGapSound ==
  ASSUME NEW B, Sound(B), TypeOK', FreeClosesGap, NEW C, C = B \ {cur_block}
  PROVE  ListInv(C)'
<1> USE DEF Sound, ListInv
<1>0. PICK cur \in B : cur = cur_block
  BY DEF FreeClosesGap, WalkSound
<1>1. PICK down \in B : down = prev[cur]
  BY <1>0 DEF IsFreeList
<1>2. /\ pc = "free" /\ base + count = cur /\ EndOf(down) = base
      /\ size' = [size EXCEPT ![down] = @ + size[cur] + count]
      /\ next' = [next EXCEPT ![down] = next[cur]]
      /\ prev' = [prev EXCEPT ![next[cur]] = down]
      /\ free_phys_memory_pointer' = HeadBecomes(down)
      /\ FreeReturns /\ dropped' = dropped
  BY <1>0, <1>1 DEF FreeClosesGap, LiesBelow
<1>3. /\ base \in Nat /\ count \in Nat /\ count > 0
      /\ \A b \in B : b \in Nat /\ EndOf(b) \in Nat /\ b < EndOf(b)
  BY <1>2, RunOutsideBlock
<1>4. down < cur /\ down # cur
  BY <1>2, <1>3
<1>5. \A b \in C : EndOf(b)' = IF b = down THEN EndOf(cur) ELSE EndOf(b)
  <2> SUFFICES ASSUME NEW b \in C
               PROVE  EndOf(b)' = IF b = down THEN EndOf(cur) ELSE EndOf(b)
    OBVIOUS
  <2>1. size[b] \in Nat /\ size[cur] \in Nat /\ b \in Page
    BY DEF TypeOK
  <2>2. b # down => size'[b] = size[b]
    BY <1>2, <2>1 DEF TypeOK
  <2>3. b = down => size'[b] = size[b] + size[cur] + count
    BY <1>2, <2>1 DEF TypeOK
  <2>4. CASE b = down
    <3>1. b + size[b] = base /\ base + count = cur
      BY <1>2, <2>4 DEF EndOf
    <3>2. b + (size[b] + size[cur] + count) = cur + size[cur]
      BY <1>3, <2>1, <3>1
    <3> QED
      BY <2>3, <2>4, <3>2 DEF EndOf
  <2> QED
    BY <2>2, <2>4 DEF EndOf
<1>6. IsFreeList(C)'
  <2>1. \A b \in C : size'[b] > 0
    <3> SUFFICES ASSUME NEW b \in C PROVE size'[b] > 0
      OBVIOUS
    <3>1. size[b] \in Nat /\ size[cur] \in Nat /\ b \in Page /\ size[b] > 0
      BY DEF TypeOK, IsFreeList
    <3>2. size'[b] = IF b = down THEN size[b] + size[cur] + count ELSE size[b]
      BY <1>2, <3>1 DEF TypeOK
    <3> QED
      BY <1>3, <3>1, <3>2
  <2>2. \A b, c \in C : b < c => EndOf(b)' < c
    <3> SUFFICES ASSUME NEW b \in C, NEW c \in C, b < c PROVE EndOf(b)' < c
      OBVIOUS
    <3>1. EndOf(b) < c
      BY DEF IsFreeList
    <3>2. b = down => EndOf(cur) < c
      <4> SUFFICES ASSUME b = down PROVE EndOf(cur) < c
        OBVIOUS
      <4>1. prev[cur] # free_phys_memory_pointer
        BY <1>0, <1>1, <1>3, <1>4, LowestLinksToHead DEF IsFreeList
      <4>2. c >= cur
        BY <1>1, <4>1, NothingBetween
      <4>3. c # cur /\ c \in Nat /\ cur \in Nat
        BY <1>0, <1>3
      <4>4. cur < c
        BY <4>2, <4>3
      <4> QED
        BY <4>4 DEF IsFreeList
    <3> QED
      BY <1>5, <3>1, <3>2
  <2> QED
    BY <1>0, <1>1, <1>2, <1>4, <2>1, <2>2, UnlinkedList
<1>7. Covered(C)' = Covered(B) \cup Run(base, count)
  <2>0. /\ Run(base, count) \in SUBSET Nat /\ B \in SUBSET Page /\ C \in SUBSET Page
        /\ TypeOK /\ TypeOK'
    <3>1. Run(base, count) \subseteq Page
      BY <1>2, RunPages
    <3>2. B \subseteq Page /\ TypeOK /\ TypeOK'
      OBVIOUS
    <3>3. C \subseteq Page
      BY <1>1, <3>2
    <3> QED
      BY <3>1, <3>2, <3>3
  <2> SUFFICES GrowsBy(B, C, Run(base, count))
    BY <2>0, CoverGrows
  <2> SUFFICES ASSUME NEW p \in Nat
               PROVE  (\E b \in C : b <= p /\ p < EndOf(b)') <=>
                        \/ \E b \in B : b <= p /\ p < EndOf(b)
                        \/ p \in Run(base, count)
    BY DEF GrowsBy
  <2>1. p \in Nat /\ (p \in Run(base, count) <=> base <= p /\ p < base + count)
    BY <1>2, RunPages
  <2>2. /\ down \in C /\ EndOf(down)' = EndOf(cur)
        /\ \A b \in C : b # down => EndOf(b)' = EndOf(b)
    BY <1>0, <1>4, <1>5
  <2>3. down <= p /\ p < EndOf(cur) <=>
          \/ down <= p /\ p < EndOf(down)
          \/ p \in Run(base, count)
          \/ cur <= p /\ p < EndOf(cur)
    <3>1. /\ down \in Nat /\ cur \in Nat /\ EndOf(down) \in Nat /\ EndOf(cur) \in Nat
          /\ down < EndOf(down) /\ cur < EndOf(cur)
      BY <1>3
    <3> QED
      BY <1>2, <1>3, <2>1, <3>1
  <2> QED
    BY <1>0, <2>2, <2>3
<1>8. Released' = Released \cup Run(base, count)
  BY <1>2, FreeReleased
<1>9. WalkSound(C)'
  BY <1>2 DEF FreeReturns, EndCall, WalkSound
<1> QED
  BY <1>6, <1>7, <1>8, <1>9

(* A step that links the block new in between the cursor and the block up  *)
(* above it.                                                               *)
LinksIn(B, cur, up, new) ==
  /\ cur = cur_block
  /\ up = next[cur]
  /\ \A b \in B : IF b > cur THEN new < b ELSE b < new
  /\ next'[new] = up /\ prev'[new] = cur /\ next'[cur] = new /\ prev'[up] = new
  /\ \A b \in B : b # cur => next'[b] = next[b]
  /\ \A b \in B : b # up => prev'[b] = prev[b]
  /\ free_phys_memory_pointer' = HeadBecomes(new)

(* What a step has to leave behind for sizes to fit a list of blocks C.    *)
SizesFit(C) ==
  /\ \A b \in C : size'[b] > 0
  /\ \A b, c \in C : b < c => EndOf(b)' < c

(* A new block between two neighbours makes a well-formed list.            *)
LEMMA InsertedList ==
  ASSUME TypeOK, NEW B \in SUBSET Page, IsFreeList(B),
         NEW cur \in B, NEW up \in B, NEW new \in Page, LinksIn(B, cur, up, new),
         NEW C, C = B \cup {new}, SizesFit(C)
  PROVE  IsFreeList(C)'
<1> USE DEF LinksIn
<1> DEFINE head == free_phys_memory_pointer
<1>1. up = next[cur] /\ prev[up] = cur
  BY DEF IsFreeList
<1>2. /\ cur \in Nat /\ new \in Nat /\ up \in Nat
      /\ \A b \in B : b \in Nat /\ b # new
  <2>1. \A b \in B : b \in Nat
    OBVIOUS
  <2> QED
    BY <2>1
<1>3. cur < new
  BY <1>2
<1>4. head' = IF cur = head THEN new ELSE head
  BY DEF HeadBecomes
<1>5. head' \in C /\ \A b \in C : b <= head'
  <2>1. head \in B /\ \A b \in B : b <= head
    BY DEF IsFreeList
  <2>2. CASE cur = head
    BY <1>2, <1>3, <1>4, <2>1, <2>2
  <2>3. CASE cur # head
    <3>1. head \in Nat /\ cur <= head /\ head > cur
      BY <1>2, <2>1, <2>3
    <3>2. new < head
      BY <2>1, <3>1
    <3> QED
      BY <1>2, <1>4, <2>1, <2>3, <3>2
  <2> QED
    BY <2>2, <2>3
<1>6. /\ next'[new] = up /\ prev'[new] = cur /\ next'[cur] = new /\ prev'[up] = new
      /\ \A b \in B : b # cur => next'[b] = next[b]
      /\ \A b \in B : b # up => prev'[b] = prev[b]
  OBVIOUS
<1>7. \A b \in C : /\ next'[b] \in C
                   /\ prev'[next'[b]] = b
                   /\ prev'[b] \in C
                   /\ next'[prev'[b]] = b
  <2>1. ASSUME NEW b \in B
        PROVE  /\ next'[b] \in C /\ prev'[next'[b]] = b
               /\ prev'[b] \in C /\ next'[prev'[b]] = b
    <3>1. /\ next[b] \in B /\ prev[next[b]] = b
          /\ prev[b] \in B /\ next[prev[b]] = b
      BY DEF IsFreeList
    <3>2. b # cur => next[b] # up
      BY <1>1, <3>1
    <3>3. b # up => prev[b] # cur
      BY <1>1, <3>1
    <3>4. next'[b] \in C /\ prev'[next'[b]] = b
      BY <1>6, <3>1, <3>2
    <3>5. prev'[b] \in C /\ next'[prev'[b]] = b
      BY <1>6, <3>1, <3>3
    <3> QED
      BY <3>4, <3>5
  <2>2. /\ next'[new] \in C /\ prev'[next'[new]] = new
        /\ prev'[new] \in C /\ next'[prev'[new]] = new
    BY <1>1, <1>6
  <2>3. \A b \in C : b \in B \/ b = new
    OBVIOUS
  <2> QED
    BY <2>1, <2>2, <2>3
<1>8. \A b \in C : IF b = head'
                   THEN \A c \in C : next'[b] <= c
                   ELSE b < next'[b] /\ \A c \in C : c <= b \/ next'[b] <= c
  <2>1. ASSUME NEW b \in B, b # cur
        PROVE IF b = head'
              THEN \A c \in C : next'[b] <= c
              ELSE b < next'[b] /\ \A c \in C : c <= b \/ next'[b] <= c
    <3>1. PICK n \in B : n = next[b] /\ next'[b] = n
      BY <1>6, <2>1 DEF IsFreeList
    <3>2. b = head' <=> b = head
      BY <1>2, <1>4, <2>1
    <3>3. b \in Nat /\ n \in Nat
      BY <1>2
    <3>4. CASE b = head
      <4>1. (\A c \in B : n <= c) /\ n <= cur
        BY <3>1, <3>4 DEF IsFreeList
      <4>2. n <= new
        BY <1>2, <1>3, <3>3, <4>1
      <4> QED
        BY <3>1, <3>2, <3>4, <4>1, <4>2
    <3>5. CASE b # head
      <4>1. b < n /\ (\A c \in B : c <= b \/ n <= c) /\ (cur <= b \/ n <= cur)
        BY <3>1, <3>5 DEF IsFreeList
      <4>2. b > cur => new < b
        OBVIOUS
      <4>3. new <= b \/ n <= new
        BY <1>2, <1>3, <2>1, <3>3, <4>1, <4>2
      <4> QED
        BY <3>1, <3>2, <3>5, <4>1, <4>3
    <3> QED
      BY <3>4, <3>5
  <2>2. /\ cur # head'
        /\ cur < next'[cur]
        /\ \A c \in C : c <= cur \/ next'[cur] <= c
    <3>1. cur # head'
      BY <1>2, <1>3, <1>4
    <3>2. ASSUME NEW c \in B PROVE c <= cur \/ new <= c
      <4>1. c > cur => new < c
        OBVIOUS
      <4> QED
        BY <1>2, <4>1
    <3>3. cur < new /\ \A c \in C : c <= cur \/ new <= c
      BY <1>2, <1>3, <3>2
    <3> QED
      BY <1>6, <3>1, <3>3
  <2>3. IF new = head'
        THEN \A c \in C : next'[new] <= c
        ELSE new < next'[new] /\ \A c \in C : c <= new \/ next'[new] <= c
    <3>1. CASE cur = head
      <4>1. (\A c \in B : up <= c) /\ up <= cur
        BY <1>1, <3>1 DEF IsFreeList
      <4>2. up <= new
        BY <1>2, <1>3, <4>1
      <4> QED
        BY <1>4, <1>6, <3>1, <4>1, <4>2
    <3>2. CASE cur # head
      <4>1. cur < up /\ \A c \in B : c <= cur \/ up <= c
        BY <1>1, <3>2 DEF IsFreeList
      <4>2. new < up
        BY <1>2, <4>1
      <4>3. new # head'
        <5>1. head \in B
          BY DEF IsFreeList
        <5> QED
          BY <1>2, <1>4, <3>2, <5>1
      <4>4. ASSUME NEW c \in B PROVE c <= new \/ up <= c
        <5>1. c <= cur \/ up <= c
          BY <4>1
        <5> QED
          BY <1>2, <1>3, <5>1
      <4>5. \A c \in C : c <= new \/ up <= c
        BY <1>2, <4>4
      <4> QED
        BY <1>6, <4>2, <4>3, <4>5
    <3> QED
      BY <3>1, <3>2
  <2> QED
    BY <2>1, <2>2, <2>3
<1>9. head' # NoBlock
  BY <1>5
<1> QED
  BY <1>5, <1>7, <1>8, <1>9 DEF IsFreeList, SizesFit

(* A run linked in as a block of its own leaves a sound list.              *)
LEMMA FreeInsertSound ==
  ASSUME NEW B, Sound(B), TypeOK', FreeInsert, NEW C, C = B \cup {base}
  PROVE  ListInv(C)'
<1> USE DEF Sound, ListInv
<1>0. PICK cur \in B : cur = cur_block
  BY DEF FreeInsert, WalkSound
<1>1. PICK new \in Page : new = base
  BY DEF TypeOK
<1>2. /\ pc = "free" /\ base > EndOf(cur)
      /\ size' = [size EXCEPT ![new] = count]
      /\ next' = [[next EXCEPT ![cur] = new] EXCEPT ![new] = next[cur]]
      /\ prev' = [[prev EXCEPT ![next[cur]] = new] EXCEPT ![new] = cur]
      /\ free_phys_memory_pointer' = HeadBecomes(new)
      /\ FreeReturns /\ dropped' = dropped
      /\ \A b \in B : b > cur => new + count < b
  BY <1>0, <1>1 DEF FreeInsert, LiesAbove, WalkSound
<1>3. /\ new \in Nat /\ count \in Nat /\ count > 0
      /\ \A b \in B : b \in Nat /\ EndOf(b) \in Nat /\ b < EndOf(b)
  BY <1>1, <1>2, RunOutsideBlock
<1>4. ASSUME NEW b \in B, ~(b > cur) PROVE EndOf(b) < new
  <2>1. b < cur => EndOf(b) < cur
    BY DEF IsFreeList
  <2>2. EndOf(cur) < new /\ cur < EndOf(cur) /\ b \in Nat /\ cur \in Nat
        /\ EndOf(cur) \in Nat /\ EndOf(b) \in Nat
    BY <1>1, <1>2, <1>3
  <2> QED
    BY <1>3, <1>4, <2>1, <2>2
<1>5. \A b \in B : IF b > cur THEN new < b ELSE b < new
  <2> SUFFICES ASSUME NEW b \in B PROVE IF b > cur THEN new < b ELSE b < new
    OBVIOUS
  <2>1. b > cur => new + count < b
    BY <1>2
  <2>2. ~(b > cur) => EndOf(b) < new
    BY <1>4
  <2>3. b \in Nat /\ EndOf(b) \in Nat /\ b < EndOf(b)
    BY <1>3
  <2> QED
    BY <1>3, <2>1, <2>2, <2>3
<1>6. /\ EndOf(new)' = new + count
      /\ \A b \in B : b # new /\ EndOf(b)' = EndOf(b)
  <2>1. \A b \in B : b # new
    BY <1>3, <1>5
  <2>2. size'[new] = count /\ \A b \in B : size'[b] = size[b]
    BY <1>2, <2>1 DEF TypeOK
  <2> QED
    BY <2>1, <2>2 DEF EndOf
<1>7. IsFreeList(C)'
  <2>1. \A b \in C : size'[b] > 0
    BY <1>1, <1>2, <1>3, <1>6 DEF TypeOK, IsFreeList
  <2>2. ASSUME NEW b \in C, NEW c \in C, b < c PROVE EndOf(b)' < c
    <3>1. CASE b \in B /\ c \in B
      BY <1>6, <2>2, <3>1 DEF IsFreeList
    <3>2. CASE b = new /\ c \in B
      <4>1. c > cur
        BY <1>3, <1>5, <2>2, <3>2
      <4> QED
        BY <1>2, <1>6, <3>2, <4>1
    <3>3. CASE b \in B /\ c = new
      <4>1. ~(b > cur)
        BY <1>3, <1>5, <2>2, <3>3
      <4> QED
        BY <1>4, <1>6, <3>3, <4>1
    <3>4. ~(b = new /\ c = new)
      BY <1>3, <2>2
    <3> QED
      BY <1>1, <3>1, <3>2, <3>3, <3>4
  <2>3. C = B \cup {new} /\ B \in SUBSET Page
    BY <1>1
  <2>4. \A b, c \in C : b < c => EndOf(b)' < c
    BY <2>2
  <2>5. PICK up \in B : up = next[cur]
    BY DEF IsFreeList
  <2>6. /\ next'[new] = up /\ prev'[new] = cur /\ next'[cur] = new /\ prev'[up] = new
        /\ \A b \in B : b # cur => next'[b] = next[b]
        /\ \A b \in B : b # up => prev'[b] = prev[b]
    <3>1. cur \in Page /\ up \in Page /\ cur # new /\ up # new /\ B \subseteq Page
      BY <1>6
    <3> QED
      BY <1>2, <1>6, <2>5, <3>1 DEF TypeOK
  <2>7. LinksIn(B, cur, up, new)
    BY <1>0, <1>2, <1>5, <2>5, <2>6 DEF LinksIn
  <2>8. SizesFit(C)
    BY <2>1, <2>4 DEF SizesFit
  <2> QED
    BY <2>3, <2>7, <2>8, InsertedList
<1>8. Covered(C)' = Covered(B) \cup Run(base, count)
  <2>0. /\ Run(base, count) \in SUBSET Nat /\ B \in SUBSET Page /\ C \in SUBSET Page
        /\ TypeOK /\ TypeOK'
    <3>1. Run(base, count) \subseteq Page
      BY <1>2, RunPages
    <3>2. B \subseteq Page /\ TypeOK /\ TypeOK'
      OBVIOUS
    <3>3. C \subseteq Page
      BY <1>1, <3>2
    <3> QED
      BY <3>1, <3>2, <3>3
  <2> SUFFICES GrowsBy(B, C, Run(base, count))
    BY <2>0, CoverGrows
  <2> SUFFICES ASSUME NEW p \in Nat
               PROVE  (\E b \in C : b <= p /\ p < EndOf(b)') <=>
                        \/ \E b \in B : b <= p /\ p < EndOf(b)
                        \/ p \in Run(base, count)
    BY DEF GrowsBy
  <2>1. p \in Run(base, count) <=> new <= p /\ p < new + count
    BY <1>1, <1>2, RunPages
  <2> QED
    BY <1>1, <1>6, <2>1
<1>9. Released' = Released \cup Run(base, count)
  BY <1>2, FreeReleased
<1>10. WalkSound(C)'
  BY <1>2 DEF FreeReturns, EndCall, WalkSound
<1> QED
  BY <1>7, <1>8, <1>9, <1>10

(* A step that puts the block new in the place of the cursor, between the  *)
(* blocks down and up (which may be the same).                             *)
Replaces(B, cur, up, down, new) ==
  /\ cur = cur_block
  /\ up = next[cur] /\ down = prev[cur] /\ down # cur
  /\ new < cur
  /\ \A b \in B : b < cur => b < new
  /\ next'[new] = up /\ prev'[new] = down /\ next'[down] = new /\ prev'[up] = new
  /\ \A b \in B : b # down => next'[b] = next[b]
  /\ \A b \in B : b # up => prev'[b] = prev[b]
  /\ free_phys_memory_pointer' = HeadBecomes(new)

(* Replacing a block by one whose header lies elsewhere between its        *)
(* neighbours makes a well-formed list.                                    *)
LEMMA ReplacedList ==
  ASSUME TypeOK, NEW B \in SUBSET Page, IsFreeList(B),
         NEW cur \in B, NEW up \in B, NEW down \in B, NEW new \in Page,
         Replaces(B, cur, up, down, new),
         NEW C, C = (B \ {cur}) \cup {new}, SizesFit(C)
  PROVE  IsFreeList(C)'
<1> USE DEF Replaces
<1> DEFINE head == free_phys_memory_pointer
<1>1. up # cur /\ prev[up] = cur /\ next[down] = cur
  BY SelfLinkedIsSole DEF IsFreeList
<1>2. /\ cur \in Nat /\ new \in Nat /\ up \in Nat /\ down \in Nat
      /\ \A b \in B : b \in Nat /\ b # new
  <2>1. \A b \in B : b \in Nat
    OBVIOUS
  <2>2. ASSUME NEW b \in B PROVE b # new
    <3>1. b < cur => b < new
      OBVIOUS
    <3> QED
      BY <2>1, <3>1
  <2> QED
    BY <2>1, <2>2
<1>3. \A b \in C : (b \in B /\ b # cur) \/ b = new
  OBVIOUS
<1>4. head' = IF cur = head THEN new ELSE head
  BY DEF HeadBecomes
<1>5. ASSUME NEW b \in B, b # cur
      PROVE  /\ b < cur => b < new
             /\ cur < b => new < b
             /\ b < cur \/ cur < b
  BY <1>2, <1>5
<1>6. head' \in C /\ \A b \in C : b <= head'
  <2>1. head \in B /\ \A b \in B : b <= head
    BY DEF IsFreeList
  <2>2. CASE cur = head
    <3>1. ASSUME NEW b \in B, b # cur PROVE b <= new
      <4>1. b <= cur /\ b \in Nat
        BY <1>2, <2>1, <2>2
      <4> QED
        BY <1>2, <1>5, <3>1, <4>1
    <3> QED
      BY <1>2, <1>3, <1>4, <2>2, <3>1
  <2>3. CASE cur # head
    <3>1. cur < head /\ head \in Nat
      BY <1>2, <2>1, <2>3
    <3>2. new <= head
      BY <1>2, <3>1
    <3> QED
      BY <1>3, <1>4, <2>1, <2>3, <3>2
  <2> QED
    BY <2>2, <2>3
<1>7. \A b \in C : /\ next'[b] \in C
                   /\ prev'[next'[b]] = b
                   /\ prev'[b] \in C
                   /\ next'[prev'[b]] = b
  <2>1. ASSUME NEW b \in B, b # cur
        PROVE  /\ next'[b] \in C /\ prev'[next'[b]] = b
               /\ prev'[b] \in C /\ next'[prev'[b]] = b
    <3>1. /\ next[b] \in B /\ prev[next[b]] = b
          /\ prev[b] \in B /\ next[prev[b]] = b
      BY DEF IsFreeList
    <3>2. b # down => next[b] # cur /\ next[b] # up
      BY <1>1, <2>1, <3>1
    <3>3. b # up => prev[b] # cur /\ prev[b] # down
      BY <1>1, <2>1, <3>1
    <3>4. next'[b] \in C /\ prev'[next'[b]] = b
      BY <2>1, <3>1, <3>2
    <3>5. prev'[b] \in C /\ next'[prev'[b]] = b
      BY <2>1, <3>1, <3>3
    <3> QED
      BY <3>4, <3>5
  <2>2. /\ next'[new] \in C /\ prev'[next'[new]] = new
        /\ prev'[new] \in C /\ next'[prev'[new]] = new
    BY <1>1
  <2> QED
    BY <1>3, <2>1, <2>2
<1>8. \A b \in C : IF b = head'
                   THEN \A c \in C : next'[b] <= c
                   ELSE b < next'[b] /\ \A c \in C : c <= b \/ next'[b] <= c
  <2>1. ASSUME NEW b \in B, b # cur, b # down
        PROVE IF b = head'
              THEN \A c \in C : next'[b] <= c
              ELSE b < next'[b] /\ \A c \in C : c <= b \/ next'[b] <= c
    <3>1. PICK n \in B : n = next[b] /\ next'[b] = n
      BY <2>1 DEF IsFreeList
    <3>2. n # cur
      BY <2>1, <3>1 DEF IsFreeList
    <3>3. b = head' <=> b = head
      BY <1>2, <1>4, <2>1
    <3>4. b \in Nat /\ n \in Nat
      BY <1>2
    <3>5. CASE b = head
      <4>1. (\A c \in B : n <= c) /\ n <= cur
        BY <3>1, <3>5 DEF IsFreeList
      <4>2. n <= new
        BY <1>2, <1>5, <3>2, <3>4, <4>1
      <4>3. \A c \in C : n <= c
        BY <1>3, <4>1, <4>2
      <4> QED
        BY <3>1, <3>3, <3>5, <4>3
    <3>6. CASE b # head
      <4>1. b < n /\ (\A c \in B : c <= b \/ n <= c) /\ (cur <= b \/ n <= cur)
        BY <3>1, <3>6 DEF IsFreeList
      <4>2. new <= b \/ n <= new
        <5>1. cur < b \/ n < cur
          BY <1>2, <2>1, <3>2, <3>4, <4>1
        <5>2. (cur < b => new < b) /\ (n < cur => n < new)
          BY <1>5, <2>1, <3>2
        <5> QED
          BY <1>2, <3>4, <5>1, <5>2
      <4>3. \A c \in C : c <= b \/ n <= c
        BY <1>3, <4>1, <4>2
      <4> QED
        BY <3>1, <3>3, <3>6, <4>1, <4>3
    <3> QED
      BY <3>5, <3>6
  <2>2. IF down = head'
        THEN \A c \in C : next'[down] <= c
        ELSE down < next'[down] /\ \A c \in C : c <= down \/ next'[down] <= c
    <3>1. down = head' <=> down = head
      BY <1>2, <1>4
    <3>2. CASE down = head
      <4>1. \A c \in B : cur <= c
        BY <3>2, LowestLinksToHead
      <4>2. \A c \in C : new <= c
        BY <1>2, <1>3, <4>1
      <4> QED
        BY <3>1, <3>2, <4>2
    <3>3. CASE down # head
      <4>1. down < cur /\ \A c \in B : c > down => c >= cur
        BY <3>3, NothingBetween
      <4>2. down < new
        BY <4>1
      <4>3. ASSUME NEW c \in C PROVE c <= down \/ new <= c
        <5>1. CASE c = new
          BY <1>2, <5>1
        <5>2. CASE c \in B
          <6>1. c > down => c >= cur
            BY <4>1, <5>2
          <6>2. c \in Nat
            BY <1>2, <5>2
          <6> QED
            BY <1>2, <6>1, <6>2
        <5> QED
          BY <1>3, <5>1, <5>2
      <4> QED
        BY <3>1, <3>3, <4>2, <4>3
    <3> QED
      BY <3>2, <3>3
  <2>3. IF new = head'
        THEN \A c \in C : next'[new] <= c
        ELSE new < next'[new] /\ \A c \in C : c <= new \/ next'[new] <= c
    <3>1. CASE cur = head
      <4>1. (\A c \in B : up <= c) /\ up <= cur
        BY <3>1 DEF IsFreeList
      <4>2. up <= new
        BY <1>1, <1>2, <1>5, <4>1
      <4>3. \A c \in C : up <= c
        BY <1>3, <4>1, <4>2
      <4> QED
        BY <1>4, <3>1, <4>3
    <3>2. CASE cur # head
      <4>1. cur < up /\ \A c \in B : c <= cur \/ up <= c
        BY <3>2 DEF IsFreeList
      <4>2. new < up
        BY <1>2, <4>1
      <4>3. new # head'
        <5>1. head \in B
          BY DEF IsFreeList
        <5> QED
          BY <1>2, <1>4, <3>2, <5>1
      <4>4. ASSUME NEW c \in C PROVE c <= new \/ up <= c
        <5>1. CASE c = new
          BY <1>2, <5>1
        <5>2. CASE c \in B /\ c # cur
          <6>1. c <= cur \/ up <= c
            BY <4>1, <5>2
          <6>2. c < cur => c < new
            BY <5>2
          <6>3. c \in Nat
            BY <1>2, <5>2
          <6> QED
            BY <1>2, <5>2, <6>1, <6>2, <6>3
        <5> QED
          BY <1>3, <5>1, <5>2
      <4> QED
        BY <4>2, <4>3, <4>4
    <3> QED
      BY <3>1, <3>2
  <2> QED
    BY <1>3, <2>1, <2>2, <2>3
<1>9. head' # NoBlock
  BY <1>6
<1> QED
  BY <1>6, <1>7, <1>8, <1>9 DEF IsFreeList, SizesFit

(* A block that grows downwards stays in a sound list, if it was not       *)
(* alone.                                                                  *)
LEMMA FreeExtendDownSound ==
  ASSUME NEW B, Sound(B), TypeOK', FreeExtendDown, prev[cur_block] # cur_block,
         NEW C, C = (B \ {cur_block}) \cup {base}
  PROVE  ListInv(C)'
<1> USE DEF Sound, ListInv
<1>0. PICK cur \in B : cur = cur_block
  BY DEF FreeExtendDown, WalkSound
<1>1. PICK new \in Page : new = base
  BY DEF TypeOK
<1>2. PICK up \in B, down \in B : up = next[cur] /\ down = prev[cur]
  BY DEF IsFreeList
<1>3. /\ pc = "free" /\ new + count = cur /\ EndOf(down) # new
      /\ prev' = [[prev EXCEPT ![up] = new] EXCEPT ![new] = down]
      /\ next' = [[next EXCEPT ![down] = new] EXCEPT ![new] = up]
      /\ size' = [size EXCEPT ![new] = count + size[cur]]
      /\ free_phys_memory_pointer' = HeadBecomes(new)
      /\ FreeReturns /\ dropped' = dropped
  BY <1>0, <1>1, <1>2 DEF FreeExtendDown, LiesBelow
<1>4. /\ new \in Nat /\ count \in Nat /\ count > 0
      /\ \A b \in B : /\ b \in Nat /\ EndOf(b) \in Nat /\ b < EndOf(b)
                      /\ EndOf(b) <= new \/ new + count <= b
  BY <1>1, <1>3, RunOutsideBlock
<1>5. new < cur
  BY <1>3, <1>4
<1>6. ASSUME NEW b \in B, b < cur PROVE EndOf(b) < new
  <2>1. down # free_phys_memory_pointer
    <3> SUFFICES ASSUME down = free_phys_memory_pointer PROVE FALSE
      OBVIOUS
    <3>1. cur <= b
      BY <1>2, LowestLinksToHead
    <3> QED
      BY <1>4, <1>6, <3>1
  <2>2. down < cur /\ (b > down => b >= cur)
    BY <1>2, <2>1, NothingBetween
  <2>3. /\ down \in Nat /\ EndOf(down) \in Nat /\ b \in Nat /\ EndOf(b) \in Nat
        /\ cur \in Nat /\ down < EndOf(down)
        /\ EndOf(down) <= new \/ new + count <= down
    BY <1>4
  <2>4. EndOf(down) < new
    BY <1>3, <1>4, <2>2, <2>3
  <2>5. b < down => EndOf(b) < down
    BY DEF IsFreeList
  <2>6. b = down \/ b < down
    BY <1>6, <2>2, <2>3
  <2> QED
    BY <1>4, <2>3, <2>4, <2>5, <2>6
<1>7. \A b \in B : b < cur => b < new
  <2> SUFFICES ASSUME NEW b \in B, b < cur PROVE b < new
    OBVIOUS
  <2>1. EndOf(b) < new /\ b < EndOf(b) /\ b \in Nat /\ EndOf(b) \in Nat
    BY <1>4, <1>6
  <2> QED
    BY <1>4, <2>1
<1>8. \A b \in B : b # new
  <2> SUFFICES ASSUME NEW b \in B, b = new PROVE FALSE
    OBVIOUS
  <2>1. b < cur
    BY <1>5
  <2> QED
    BY <1>4, <1>7, <2>1
<1>9. EndOf(new)' = EndOf(cur) /\ \A b \in B : EndOf(b)' = EndOf(b)
  <2>1. size'[new] = count + size[cur] /\ \A b \in B : size'[b] = size[b]
    BY <1>3, <1>8 DEF TypeOK
  <2>2. size[cur] \in Nat /\ cur \in Nat
    BY <1>4 DEF TypeOK
  <2>3. new + (count + size[cur]) = cur + size[cur]
    BY <1>3, <1>4, <2>2
  <2> QED
    BY <2>1, <2>3 DEF EndOf
<1>10. C = (B \ {cur}) \cup {new} /\ B \in SUBSET Page
  BY <1>0, <1>1
<1>11. SizesFit(C)
  <2>1. \A b \in C : size'[b] > 0
    <3>1. size[cur] \in Nat
      BY DEF TypeOK
    <3>2. size'[new] > 0
      BY <1>3, <1>4, <3>1 DEF TypeOK
    <3>3. \A b \in B : size'[b] > 0
      BY <1>3, <1>8 DEF TypeOK, IsFreeList
    <3> QED
      BY <1>10, <3>2, <3>3
  <2>2. ASSUME NEW b \in C, NEW c \in C, b < c PROVE EndOf(b)' < c
    <3>1. CASE b \in B /\ c \in B
      BY <1>9, <2>2, <3>1 DEF IsFreeList
    <3>2. CASE b = new /\ c \in B /\ c # cur
      <4>1. cur < c
        <5>1. c \in Nat /\ cur \in Nat /\ (c < cur => c < new)
          BY <1>4, <1>7, <3>2
        <5> QED
          BY <1>4, <2>2, <3>2, <5>1
      <4>2. EndOf(cur) < c
        BY <3>2, <4>1 DEF IsFreeList
      <4> QED
        BY <1>9, <3>2, <4>2
    <3>3. CASE b \in B /\ c = new
      <4>1. b < cur
        BY <1>4, <1>5, <2>2, <3>3
      <4> QED
        BY <1>6, <1>9, <3>3, <4>1
    <3>4. ~(b = new /\ c = new)
      BY <1>4, <2>2
    <3> QED
      BY <1>10, <3>1, <3>2, <3>3, <3>4
  <2> QED
    BY <2>1, <2>2 DEF SizesFit
<1>12. Replaces(B, cur, up, down, new)
  <2>1. /\ next'[new] = up /\ prev'[new] = down /\ next'[down] = new /\ prev'[up] = new
        /\ \A b \in B : b # down => next'[b] = next[b]
        /\ \A b \in B : b # up => prev'[b] = prev[b]
    <3>1. up \in Page /\ down \in Page /\ up # new /\ down # new /\ B \subseteq Page
      BY <1>8
    <3> QED
      BY <1>3, <1>8, <3>1 DEF TypeOK
  <2> QED
    BY <1>0, <1>2, <1>3, <1>5, <1>7, <2>1 DEF Replaces
<1>13. IsFreeList(C)'
  BY <1>10, <1>11, <1>12, ReplacedList
<1>14. Covered(C)' = Covered(B) \cup Run(base, count)
  <2>0. /\ Run(base, count) \in SUBSET Nat /\ B \in SUBSET Page /\ C \in SUBSET Page
        /\ TypeOK /\ TypeOK'
    <3>1. Run(base, count) \subseteq Page
      BY <1>3, RunPages
    <3>2. B \subseteq Page /\ TypeOK /\ TypeOK'
      OBVIOUS
    <3>3. C \subseteq Page
      BY <1>1, <3>2
    <3> QED
      BY <3>1, <3>2, <3>3
  <2> SUFFICES GrowsBy(B, C, Run(base, count))
    BY <2>0, CoverGrows
  <2> SUFFICES ASSUME NEW p \in Nat
               PROVE  (\E b \in C : b <= p /\ p < EndOf(b)') <=>
                        \/ \E b \in B : b <= p /\ p < EndOf(b)
                        \/ p \in Run(base, count)
    BY DEF GrowsBy
  <2>1. p \in Nat /\ (p \in Run(base, count) <=> new <= p /\ p < new + count)
    BY <1>1, <1>3, RunPages
  <2>2. new <= p /\ p < EndOf(new)' <=>
          p \in Run(base, count) \/ (cur <= p /\ p < EndOf(cur))
    <3>1. cur \in Nat /\ EndOf(cur) \in Nat /\ cur < EndOf(cur)
      BY <1>4
    <3> QED
      BY <1>3, <1>4, <1>9, <2>1, <3>1
  <2>3. \A b \in B : EndOf(b)' = EndOf(b)
    BY <1>9
  <2> QED
    BY <1>10, <2>2, <2>3
<1>15. Released' = Released \cup Run(base, count)
  BY <1>3, FreeReleased
<1>16. WalkSound(C)'
  BY <1>3 DEF FreeReturns, EndCall, WalkSound
<1> QED
  BY <1>13, <1>14, <1>15, <1>16

-----------------------------------------------------------------------------
(* The invariant and its consequences                                      *)

(* Both ways to serve a request take pages of the block under the cursor.  *)
LEMMA AllocTakesFreePages ==
  ASSUME NEW B, Sound(B), pc = "alloc", NEW r \in Nat, NEW b \in B, b <= r,
         r + count <= EndOf(b)
  PROVE  Run(r, count) \subseteq Released
<1>1. count \in Nat /\ b \in Nat /\ EndOf(b) \in Nat
  BY DEF Sound, TypeOK, EndOf
<1>2. \A p \in Run(r, count) : p \in Nat /\ b <= p /\ p < EndOf(b)
  BY <1>1 DEF Run
<1>3. Run(r, count) \subseteq Covered(B)
  BY <1>2, CoveredMembers DEF Sound
<1> QED
  BY <1>3 DEF Sound, ListInv

(* A request is served from the pages that are free.                       *)
LEMMA AllocTakesFree ==
  ASSUME NEW B, Sound(B), AllocWhole \/ AllocTop
  PROVE  /\ result' # NoBlock /\ pc = "alloc" /\ pc' = "idle"
         /\ Run(result', count) \subseteq Released
         /\ owned' = owned \cup Run(result', count) /\ dropped' = dropped
<1>1. PICK b \in B : b = cur_block
  BY DEF AllocWhole, AllocTop, Sound, ListInv, WalkSound
<1>2. count \in Nat /\ b \in Nat /\ EndOf(b) \in Nat /\ size[b] \in Nat
  BY DEF Sound, TypeOK, EndOf
<1>3. CASE AllocWhole
  <2>1. size[b] = count /\ result' = b /\ pc = "alloc"
    BY <1>1, <1>3 DEF AllocWhole, AllocReturns
  <2>2. b <= b /\ b + count <= EndOf(b)
    BY <1>2, <2>1 DEF EndOf
  <2>3. Run(b, count) \subseteq Released
    BY <1>2, <2>1, <2>2, AllocTakesFreePages
  <2> QED
    BY <1>2, <1>3, <2>1, <2>3 DEF AllocWhole, AllocReturns, EndCall, NoBlock
<1>4. CASE AllocTop
  <2>1. size[b] > count /\ result' = EndOf(b) - count /\ pc = "alloc"
    BY <1>1, <1>4 DEF AllocTop, TooLarge, AllocReturns
  <2>2. result' \in Nat /\ b <= result' /\ result' + count <= EndOf(b)
    BY <1>2, <2>1 DEF EndOf
  <2>3. Run(result', count) \subseteq Released
    BY <2>1, <2>2, AllocTakesFreePages
  <2> QED
    BY <1>4, <2>1, <2>2, <2>3 DEF AllocTop, AllocReturns, EndCall, NoBlock
<1> QED
  BY <1>3, <1>4

(* The invariant holds at the start.                                       *)
LEMMA InvInit == Init => IInv
<1> SUFFICES ASSUME Init PROVE IInv
  OBVIOUS
<1>1. TypeOK /\ pc = "idle"
  BY TypeInit DEF TypeInv, Init
<1>2. owned \cup dropped \subseteq Page /\ owned \cap dropped = {}
  BY DEF Init
<1>3. IsFreeList({})
  BY DEF Init, IsFreeList
<1>4. Covered({}) = Released
  BY DEF Init, Covered, Released
<1>5. WalkSound({})
  BY <1>1 DEF WalkSound
<1>6. {} \in SUBSET Page /\ ListInv({})
  BY <1>3, <1>4, <1>5 DEF ListInv
<1> QED
  BY <1>1, <1>2, <1>6 DEF IInv

(* What a step has to establish while the list is not spliced.             *)
SoundNext ==
  /\ (owned \cup dropped \subseteq Page)' /\ (owned \cap dropped = {})'
  /\ \E C \in SUBSET Page : ListInv(C)'

(* Every step that does not splice keeps the list sound.                   *)
LEMMA SoundStep ==
  ASSUME NEW B, Sound(B), TypeOK', Next, ~spliced'
  PROVE  SoundNext
<1> USE DEF Sound
<1>1. ASSUME NEW p \in Page, NEW h \in Scribble, OwnerWrites(p, h) PROVE SoundNext
  BY <1>1, OwnerWritesSound DEF OwnerWrites, SoundNext
<1>2. ASSUME NEW n \in 1 .. MaxRun, AllocRefused(n) \/ AllocCall(n) PROVE SoundNext
  BY <1>2, AllocCallSound DEF AllocRefused, AllocCall, SoundNext
<1>3. ASSUME NEW b \in Page, NEW n \in 1 .. MaxRun, FreeFirst(b, n) PROVE SoundNext
  <2>1. PICK C : C = {b}
    OBVIOUS
  <2>2. ListInv(C)'
    BY <1>3, <2>1, FreeFirstSound
  <2> QED
    BY <1>3, <2>1, <2>2 DEF FreeFirst, SoundNext
<1>4. ASSUME NEW b \in Page, NEW n \in 1 .. MaxRun, FreeCall(b, n) PROVE SoundNext
  BY <1>4, FreeCallSound DEF FreeCall, SoundNext
<1>5. CASE AllocWhole
  <2>1. PICK C : C = B \ {cur_block}
    OBVIOUS
  <2>2. ListInv(C)'
    BY <1>5, <2>1, AllocWholeSound
  <2> QED
    BY <1>5, <2>1, <2>2, AllocTakesFree DEF SoundNext, Released
<1>6. CASE AllocTop
  BY <1>6, AllocTopSound, AllocTakesFree DEF SoundNext, Released
<1>7. CASE AllocWalk \/ AllocFails
  BY <1>7, AllocWalkSound DEF AllocWalk, AllocFails, SoundNext
<1>8. CASE FreeInsert
  <2>1. PICK C : C = B \cup {base}
    OBVIOUS
  <2>2. ListInv(C)' /\ C \in SUBSET Page
    BY <1>8, <2>1, FreeInsertSound DEF TypeOK
  <2> QED
    BY <1>8, <2>2 DEF FreeInsert, FreeReturns, SoundNext
<1>9. CASE FreeExtend
  BY <1>9, FreeExtendSound DEF FreeExtend, FreeReturns, SoundNext
<1>10. CASE FreeClosesGap
  <2>1. PICK C : C = B \ {cur_block}
    OBVIOUS
  <2>2. ListInv(C)'
    BY <1>10, <2>1, FreeClosesGapSound
  <2> QED
    BY <1>10, <2>1, <2>2 DEF FreeClosesGap, FreeReturns, SoundNext
<1>11. CASE FreeExtendDown
  <2>1. prev[cur_block] # cur_block
    BY <1>11 DEF FreeExtendDown
  <2>2. PICK C : C = (B \ {cur_block}) \cup {base}
    OBVIOUS
  <2>3. ListInv(C)' /\ C \in SUBSET Page
    BY <1>11, <2>1, <2>2, FreeExtendDownSound DEF TypeOK
  <2> QED
    BY <1>11, <2>3 DEF FreeExtendDown, FreeReturns, SoundNext
<1>12. CASE FreeWalk
  BY <1>12, FreeWalkSound DEF FreeWalk, SoundNext
<1>13. CASE FreeDrops
  <2>1. Run(base, count) \subseteq Page \ (owned \cup dropped)
    BY <1>13 DEF FreeDrops, ListInv, WalkSound
  <2> QED
    BY <1>13, <2>1, FreeWalkSound DEF FreeDrops, FreeReturns, SoundNext
<1> QED
  BY <1>1, <1>2, <1>3, <1>4, <1>5, <1>6, <1>7, <1>8, <1>9, <1>10, <1>11, <1>12,
     <1>13 DEF Next, Iterate

(* A splice is for ever.                                                   *)
LEMMA SplicedStays ==
  ASSUME TypeOK, Next, ~spliced'
  PROVE  ~spliced
BY DEF Next, Iterate, OwnerWrites, AllocRefused, AllocCall, FreeFirst, FreeCall,
  AllocWhole, AllocTop, AllocReturns, AllocWalk, AllocFails, FreeInsert, FreeExtend,
  FreeClosesGap, FreeExtendDown, FreeWalk, FreeDrops, TypeOK

(* Every step keeps the invariant.                                         *)
LEMMA InvStep == IInv /\ [Next]_vars => IInv'
<1> SUFFICES ASSUME IInv, [Next]_vars PROVE IInv'
  OBVIOUS
<1>1. TypeOK /\ TypeOK' /\ (pc = "alloc" => count <= free_page_count)'
  BY TypeStep DEF IInv, TypeInv
<1>2. CASE Next
  <2>1. ASSUME ~spliced' PROVE SoundNext
    <3>1. ~spliced
      BY <1>1, <1>2, <2>1, SplicedStays
    <3>2. PICK B : Sound(B)
      BY <3>1 DEF IInv, Sound
    <3> QED
      BY <1>1, <1>2, <2>1, <3>2, SoundStep
  <2> QED
    BY <1>1, <2>1 DEF IInv, SoundNext
<1>3. CASE UNCHANGED vars
  <2> USE <1>3 DEF vars, header, call
  <2>1. ASSUME ~spliced' PROVE SoundNext
    <3>1. PICK B : Sound(B)
      BY <2>1 DEF IInv, Sound
    <3>2. IsFreeList(B)' /\ Covered(B)' = Covered(B)
      BY <3>1, ListFrame DEF Sound, ListInv
    <3>3. Released' = Released
      BY DEF Released, InFlight
    <3>4. WalkSound(B)'
      BY <3>1 DEF Sound, ListInv, WalkSound
    <3> QED
      BY <3>1, <3>2, <3>3, <3>4 DEF SoundNext, Sound, ListInv
  <2> QED
    BY <1>1, <2>1 DEF IInv, SoundNext
<1> QED
  BY <1>2, <1>3

(* Until a sole block is extended downwards, the free list that            *)
(* alloc_phys_pages and free_phys_pages keep is well formed in every       *)
(* state and holds exactly the free pages.                                 *)
THEOREM FreeListCorrect == Safety => []FreeListSound
<1>1. IInv => FreeListSound
  BY DEF IInv, ListInv, FreeListSound
<1> QED
  BY InvInit, InvStep, <1>1, PTL DEF Safety

(* Until then, alloc_phys_pages never hands out a page somebody holds.     *)
THEOREM NeverHandedOutTwice == Safety => NoPageHandedOutTwice
<1> DEFINE Act == (pc = "alloc" /\ pc' = "idle" /\ result' # NoBlock /\ ~spliced)
                     => Run(result', count) \subseteq Released
<1>1. IInv /\ [Next]_vars => [Act]_vars
  <2> SUFFICES ASSUME IInv, Next, pc = "alloc", pc' = "idle", result' # NoBlock, ~spliced
               PROVE  Run(result', count) \subseteq Released
    OBVIOUS
  <2>1. PICK B : Sound(B)
    BY DEF IInv, Sound
  <2>2. AllocWhole \/ AllocTop \/ AllocFails
    <3>1. Iterate
      BY DEF Next, OwnerWrites, AllocRefused, AllocCall, FreeFirst, FreeCall
    <3>2. ~(FreeInsert \/ FreeExtend \/ FreeClosesGap \/ FreeExtendDown \/ FreeWalk \/ FreeDrops)
      BY DEF FreeInsert, FreeExtend, FreeClosesGap, FreeExtendDown, FreeWalk, FreeDrops
    <3>3. ~AllocWalk
      BY DEF AllocWalk
    <3> QED
      BY <3>1, <3>2, <3>3 DEF Iterate
  <2> QED
    BY <2>1, <2>2, AllocTakesFree DEF AllocFails
<1> QED
  BY InvInit, InvStep, <1>1, PTL DEF Safety, NoPageHandedOutTwice

-----------------------------------------------------------------------------
(* Counting                                                                *)

(* Sets of pages are finite.                                               *)
LEMMA PageIsFinite == \A S \in SUBSET Page : IsFiniteSet(S) /\ Cardinality(S) \in Nat
<1>1. IsFiniteSet(Page)
  <2>1. 0 \in Int /\ NPages - 1 \in Int
    BY NPagesAssumption
  <2>2. IsFiniteSet(0 .. NPages - 1)
    BY <2>1, FS_Interval
  <2> QED
    BY <2>2 DEF Page
<1> QED
  BY <1>1, FS_Subset, FS_CardinalityType

(* A run of n has n pages.                                                 *)
LEMMA RunIsFinite ==
  ASSUME NEW b \in Nat, NEW n \in Nat
  PROVE  IsFiniteSet(Run(b, n)) /\ Cardinality(Run(b, n)) = n
<1>1. b + n - 1 \in Int /\ b \in Int /\ (b > b + n - 1 <=> n = 0)
      /\ b + n - 1 - b + 1 = n
  OBVIOUS
<1>2. /\ IsFiniteSet(b .. b + n - 1)
      /\ Cardinality(b .. b + n - 1)
           = IF b > b + n - 1 THEN 0 ELSE b + n - 1 - b + 1
  BY <1>1, FS_Interval
<1> QED
  BY <1>1, <1>2 DEF Run

(* Taking a run of n pages out of a set leaves n fewer.                    *)
LEMMA RunTaken ==
  ASSUME NEW S \in SUBSET Page, NEW b \in Nat, NEW n \in Nat, Run(b, n) \subseteq S
  PROVE  Cardinality(S \ Run(b, n)) = Cardinality(S) - n
<1>1. S \cap Run(b, n) = Run(b, n)
  OBVIOUS
<1>2. IsFiniteSet(S)
  BY PageIsFinite
<1>3. Cardinality(S \ Run(b, n)) = Cardinality(S) - Cardinality(S \cap Run(b, n))
  BY <1>2, FS_Difference
<1>4. Cardinality(Run(b, n)) = n
  BY RunIsFinite
<1> QED
  BY <1>1, <1>3, <1>4

(* Adding one to a set of other pages makes n more.                        *)
LEMMA RunAdded ==
  ASSUME NEW S \in SUBSET Page, NEW b \in Nat, NEW n \in Nat, Run(b, n) \cap S = {}
  PROVE  Cardinality(S \cup Run(b, n)) = Cardinality(S) + n
<1>1. S \cap Run(b, n) = {} /\ Cardinality({}) = 0
  BY FS_EmptySet
<1>2. IsFiniteSet(S) /\ Cardinality(S) \in Nat
  BY PageIsFinite
<1>3. IsFiniteSet(Run(b, n)) /\ Cardinality(Run(b, n)) = n
  BY RunIsFinite
<1>4. Cardinality(S \cup Run(b, n))
        = Cardinality(S) + Cardinality(Run(b, n)) - Cardinality(S \cap Run(b, n))
  BY <1>2, <1>3, FS_Union
<1>5. Cardinality(S \cup Run(b, n)) = Cardinality(S) + n - 0
  BY <1>1, <1>3, <1>4
<1> QED
  BY <1>2, <1>5

(* The pages free_page_count stands for.                                   *)
Counting == Page \ (owned \cup InFlight)

CountInv == ~spliced => free_page_count = Cardinality(Counting)

(* The count is right at the start.                                        *)
LEMMA CountInit == Init => CountInv
<1> SUFFICES ASSUME Init PROVE CountInv
  OBVIOUS
<1>1. Counting = {} /\ free_page_count = 0
  BY DEF Init, Counting
<1> QED
  BY <1>1, FS_EmptySet DEF CountInv

(* Every step of a sound list keeps it right.                              *)
LEMMA CountStep ==
  ASSUME NEW B, Sound(B), TypeOK', Next, free_page_count = Cardinality(Counting)
  PROVE  free_page_count' = Cardinality(Counting')
<1> USE DEF Sound
<1>1. CASE UNCHANGED <<Counting, free_page_count>>
  BY <1>1
<1>2. ASSUME NEW p \in Page, NEW h \in Scribble, OwnerWrites(p, h)
      PROVE  UNCHANGED <<Counting, free_page_count>>
  BY <1>2 DEF OwnerWrites, Counting, InFlight, call
<1>3. ASSUME NEW n \in 1 .. MaxRun, AllocRefused(n) \/ AllocCall(n)
      PROVE  UNCHANGED <<Counting, free_page_count>>
  BY <1>3 DEF AllocRefused, AllocCall, Counting, InFlight, call
<1>4. ASSUME NEW b \in Page, NEW n \in 1 .. MaxRun, FreeFirst(b, n)
      PROVE  free_page_count' = Cardinality(Counting')
  <2>1. Counting' = Counting \cup Run(b, n) /\ Run(b, n) \cap Counting = {}
        /\ Counting \in SUBSET Page /\ b \in Nat /\ n \in Nat
        /\ free_page_count' = free_page_count + n
    BY <1>4 DEF FreeFirst, Counting, InFlight, call
  <2> QED
    BY <2>1, RunAdded
<1>5. ASSUME NEW b \in Page, NEW n \in 1 .. MaxRun, FreeCall(b, n)
      PROVE  UNCHANGED <<Counting, free_page_count>>
  BY <1>5 DEF FreeCall, Counting, InFlight
<1>6. CASE AllocWhole \/ AllocTop
  <2>1. /\ Run(result', count) \subseteq Released /\ owned' = owned \cup Run(result', count)
        /\ pc = "alloc" /\ pc' = "idle" /\ result' # NoBlock
    BY <1>6, AllocTakesFree
  <2>2. /\ Counting' = Counting \ Run(result', count)
        /\ Run(result', count) \subseteq Counting /\ Counting \in SUBSET Page
    BY <2>1 DEF Counting, InFlight, Released
  <2>3. result' \in Nat /\ count \in Nat /\ free_page_count' = free_page_count - count
    BY <1>6, <2>1 DEF TypeOK, AllocWhole, AllocTop, AllocReturns
  <2> QED
    BY <2>2, <2>3, RunTaken
<1>7. CASE AllocWalk \/ AllocFails \/ FreeWalk
  BY <1>1, <1>7 DEF AllocWalk, AllocFails, FreeWalk, EndCall, Counting, InFlight
<1>8. CASE FreeInsert \/ FreeExtend \/ FreeClosesGap \/ FreeExtendDown \/ FreeDrops
  <2>1. pc = "free" /\ FreeReturns
    BY <1>8 DEF FreeInsert, FreeExtend, FreeClosesGap, FreeExtendDown, FreeDrops
  <2>2. Run(base, count) \subseteq Page \ (owned \cup dropped)
    BY <2>1 DEF ListInv, WalkSound
  <2>3. /\ Counting' = Counting \cup Run(base, count)
        /\ Run(base, count) \cap Counting = {} /\ Counting \in SUBSET Page
        /\ base \in Nat /\ count \in Nat
        /\ free_page_count' = free_page_count + count
    BY <2>1, <2>2 DEF FreeReturns, EndCall, Counted, Counting, InFlight, TypeOK
  <2> QED
    BY <2>3, RunAdded
<1> QED
  BY <1>1, <1>2, <1>3, <1>4, <1>5, <1>6, <1>7, <1>8 DEF Next, Iterate

(* So does every step of the specification, up to a splice.                *)
LEMMA CountInvStep == IInv /\ IInv' /\ CountInv /\ [Next]_vars => CountInv'
<1> SUFFICES ASSUME IInv, IInv', CountInv, [Next]_vars, ~spliced'
             PROVE  free_page_count' = Cardinality(Counting')
  BY DEF CountInv
<1>1. CASE Next
  <2>1. ~spliced /\ TypeOK'
    BY <1>1, SplicedStays DEF IInv
  <2>2. PICK B : Sound(B)
    BY <2>1 DEF IInv, Sound
  <2> QED
    BY <1>1, <2>1, <2>2, CountStep DEF CountInv
<1>2. CASE UNCHANGED vars
  BY <1>2 DEF vars, call, CountInv, Counting, InFlight
<1> QED
  BY <1>1, <1>2

(* While no block is spliced, no page in flight or owned is a dropped one. *)
LEMMA CountingIs ==
  ASSUME NEW B, Sound(B)
  PROVE  Counting = Released \cup dropped
<1>1. InFlight \cap dropped = {}
  BY DEF Sound, ListInv, WalkSound, InFlight
<1> QED
  BY <1>1 DEF Sound, Counting, Released

(* Until a sole block is extended downwards, free_page_count is the number *)
(* of pages given back and not handed out again, the lost ones included.   *)
THEOREM CountCorrect == Safety => []CountIsExact
<1>1. IInv /\ CountInv => CountIsExact
  <2> SUFFICES ASSUME IInv, CountInv, ~spliced
               PROVE  free_page_count = Cardinality(Released \cup dropped)
    BY DEF CountIsExact
  <2>1. PICK B : Sound(B)
    BY DEF IInv, Sound
  <2> QED
    BY <2>1, CountingIs DEF CountInv
<1> QED
  BY InvInit, InvStep, CountInit, CountInvStep, <1>1, PTL DEF Safety

-----------------------------------------------------------------------------
(* Allocation fails only for want of room                                  *)

(* Freed neighbours have been merged, so a run of free pages lies in one   *)
(* block.                                                                  *)
LEMMA RunInOneBlock ==
  ASSUME NEW B, Sound(B), NEW b \in Nat, NEW n \in Nat \ {0}, Run(b, n) \subseteq Released
  PROVE  \E c \in B : size[c] >= n
<1> USE DEF Sound
<1>1. Run(b, n) \subseteq Covered(B)
  BY DEF ListInv
<1>2. \A p \in Nat : p \in Run(b, n) <=> b <= p /\ p < b + n
  BY RunMembership
<1>3. PICK c \in B : c <= b /\ b < EndOf(c)
  BY <1>1, <1>2, CoveredMembers
<1>4. c \in Nat /\ EndOf(c) \in Nat /\ size[c] \in Nat /\ EndOf(c) = c + size[c]
  BY DEF TypeOK, EndOf
<1>5. CASE b + n <= EndOf(c)
  <2>1. size[c] >= n
    BY <1>3, <1>4, <1>5
  <2> QED
    BY <2>1
<1>6. CASE EndOf(c) < b + n
  <2>1. EndOf(c) \in Run(b, n)
    BY <1>2, <1>3, <1>4, <1>6
  <2>2. PICK d \in B : d <= EndOf(c) /\ EndOf(c) < EndOf(d)
    BY <1>1, <2>1, CoveredMembers
  <2>3. (c < d => EndOf(c) < d) /\ (d < c => EndOf(d) < c)
    BY DEF ListInv, IsFreeList
  <2>4. d \in Nat /\ EndOf(d) \in Nat
    BY DEF TypeOK, EndOf
  <2> QED
    BY <1>3, <1>4, <2>2, <2>3, <2>4
<1> QED
  BY <1>4, <1>5, <1>6

(* Until a sole block is extended downwards, alloc_phys_pages fails only   *)
(* when no run of the size asked for is free: the count that is compared   *)
(* first, the empty list and the exhausted walk all mean what they say.    *)
THEOREM AllocSucceeds == Safety => []AllocFindsRoom
<1>1. IInv /\ CountInv => AllocFindsRoom
  <2> SUFFICES ASSUME IInv, CountInv, ~spliced
               PROVE  /\ \A n \in 1 .. MaxRun : pc = "idle" /\ Refuses(n) => ~HasRun(n)
                      /\ pc = "alloc" /\ size[cur_block] < count /\ WalkEnds => ~HasRun(count)
    BY DEF AllocFindsRoom
  <2>1. PICK B : Sound(B)
    BY DEF IInv, Sound
  <2> USE DEF Sound
  <2>2. ASSUME NEW n \in 1 .. MaxRun, pc = "idle", Refuses(n), HasRun(n) PROVE FALSE
    <3>1. PICK b \in Page : Run(b, n) \subseteq Released
      BY <2>2 DEF HasRun
    <3>2. b \in Nat /\ n \in Nat \ {0}
      OBVIOUS
    <3>3. CASE free_phys_memory_pointer = NoBlock
      BY <2>1, <3>1, <3>2, <3>3, RunInOneBlock DEF ListInv, IsFreeList
    <3>4. CASE free_page_count < n
      <4>1. Run(b, n) \subseteq Counting /\ Counting \in SUBSET Page
        BY <3>1 DEF Released, Counting
      <4>2. Cardinality(Run(b, n)) = n
        BY <3>2, RunIsFinite
      <4>3. Cardinality(Run(b, n)) <= Cardinality(Counting)
        BY <4>1, PageIsFinite, FS_Subset
      <4>4. Cardinality(Counting) \in Nat /\ free_page_count = Cardinality(Counting)
        BY <4>1, PageIsFinite DEF CountInv
      <4> QED
        BY <3>2, <3>4, <4>2, <4>3, <4>4
    <3> QED
      BY <2>2, <3>3, <3>4 DEF Refuses
  <2>3. ASSUME pc = "alloc", size[cur_block] < count, WalkEnds, HasRun(count) PROVE FALSE
    <3>1. PICK b \in Page : Run(b, count) \subseteq Released
      BY <2>3 DEF HasRun
    <3>2. /\ cur_block \in B /\ count \in Nat \ {0} /\ b \in Nat
          /\ \A c \in B : c > cur_block => size[c] < count
      BY <2>1, <2>3 DEF ListInv, WalkSound, TypeOK
    <3>3. PICK c \in B : size[c] >= count
      BY <2>1, <3>1, <3>2, RunInOneBlock
    <3>4. cur_block <= c
      BY <2>1, <2>3, <3>2, LowestLinksToHead DEF ListInv, WalkEnds
    <3>5. c \in Nat /\ cur_block \in Nat /\ size[c] \in Nat /\ size[cur_block] \in Nat
      BY <2>1, <3>2 DEF TypeOK
    <3> QED
      BY <2>3, <3>2, <3>3, <3>4, <3>5
  <2> QED
    BY <2>2, <2>3
<1> QED
  BY InvInit, InvStep, CountInit, CountInvStep, <1>1, PTL DEF Safety

=============================================================================
