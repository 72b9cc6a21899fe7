-------------------------- MODULE VirtMemoryProofs --------------------------
(* Proofs about the table of virtual blocks, for every size of the virtual *)
(* space, of its table's pages and of the requests.                        *)
EXTENDS VirtMemory, SequenceTheorems, FiniteSetTheorems, WellFoundedInduction, TLAPS

-----------------------------------------------------------------------------
(* The inductive invariant                                                 *)

Block == [base : Page, size : 1 .. NPages]
EndOf(b) == b.base + b.size
BlocksOf(bs) == {bs[i] : i \in 1 .. Len(bs)}

(* The blocks lie one behind the other, inside the space.                  *)
Sorted(bs) ==
  /\ bs \in Seq(Block)
  /\ \A i \in 1 .. Len(bs) : Start <= bs[i].base /\ EndOf(bs[i]) <= NPages
  /\ \A i, j \in 1 .. Len(bs) : i < j => EndOf(bs[i]) <= bs[j].base

(* Two blocks that no call takes away.                                     *)
Anchors == {KernelBase, TempPage}
Anchored ==
  \A a \in Anchors : pt[a] = Fixed /\ \E b \in BlocksOf(blocks) : b.base = a

(* The table's own block, on frames of the allocator.                      *)
TableBlock == [base |-> table, size |-> table_size]
HasItself ==
  /\ TableBlock \in BlocksOf(blocks)
  /\ \A p \in PagesOf(TableBlock) : pt[p] \in Frames

(* While a block is being placed there is a slot for it.                   *)
Room ==
  /\ pc # "idle" => count > 0
  /\ pc = "place" => Len(blocks) + 1 <= Slots * table_size

VirtInv ==
  /\ TypeOK /\ cur_address_space \in Spaces
  /\ fault = None => /\ Sorted(blocks) /\ Anchored /\ HasItself /\ Room
                     /\ FramesAccounted /\ TableHoldsAll

-----------------------------------------------------------------------------
(* Numbers and sequences                                                   *)

(* The bounds of the current space.                                        *)
LEMMA Bounds ==
  ASSUME cur_address_space \in Spaces
  PROVE  /\ NPages \in Nat /\ 1 < NPages /\ Slots \in Nat /\ 3 < Slots
         /\ KernelBase \in Nat /\ KernelSize \in Nat \ {0} /\ TempPage \in Nat
         /\ TempPage < NPages /\ KernelBase + KernelSize < TempPage /\ Stride \in Nat
         /\ Start \in Nat /\ End \in Nat /\ 0 < Start /\ Start <= KernelBase
         /\ End < NPages /\ MaxCount \in Nat /\ Start + MaxCount < NPages
BY SpaceAssumption DEF Start, End

(* A sum that passes the top of the space once.                            *)
LEMMA WrapsOnce ==
  ASSUME NPages \in Nat \ {0}, NEW x \in Nat, x < 2 * NPages
  PROVE  x % NPages = IF x < NPages THEN x ELSE x - NPages
<1>1. CASE x < NPages
  BY <1>1
<1>2. CASE ~(x < NPages)
  <2>1. x - NPages \in Nat /\ x - NPages < NPages
    BY <1>2
  <2>2. (x - NPages) % NPages = x - NPages
    BY <2>1
  <2>3. x % NPages = (x - NPages) % NPages
    <3>1. (x - NPages + 1 * NPages) % NPages = (x - NPages) % NPages
      BY <2>1
    <3> QED
      BY <2>1, <3>1
  <2> QED
    BY <1>2, <2>2, <2>3
<1> QED
  BY <1>1, <1>2

(* The numbers of a block.                                                 *)
LEMMA BlockNumbers ==
  ASSUME NPages \in Nat, NEW b \in Block
  PROVE  /\ b.base \in Nat /\ b.base < NPages /\ b.size \in Nat /\ 0 < b.size
         /\ EndOf(b) \in Nat /\ EndOf(b) = b.base + b.size /\ b.base < EndOf(b)
         /\ b.base \in Page /\ b = [base |-> b.base, size |-> b.size]
<1>1. /\ b.base \in Nat /\ b.base < NPages /\ b.size \in Nat /\ 0 < b.size /\ b.base \in Page
      /\ b = [base |-> b.base, size |-> b.size]
  BY DEF Block, Page
<1> QED
  BY <1>1 DEF EndOf

(* A table read as a function of its slots.                                *)
LEMMA TableSlots ==
  ASSUME NEW bs \in Seq(Block)
  PROVE  Len(bs) \in Nat /\ \A i \in 1 .. Len(bs) : bs[i] \in Block /\ bs[i] \in BlocksOf(bs)
BY LenProperties, ElementOfSeq DEF BlocksOf

(* r is bs with e put at slot i.                                           *)
Inserted(bs, i, e, r) ==
  /\ r \in Seq(Block) /\ Len(r) = Len(bs) + 1
  /\ \A k \in 1 .. Len(r) : r[k] = IF k < i THEN bs[k] ELSE IF k = i THEN e ELSE bs[k - 1]

(* r is bs without slot i.                                                 *)
Removed(bs, i, r) ==
  /\ r \in Seq(Block) /\ Len(r) = Len(bs) - 1
  /\ \A k \in 1 .. Len(r) : r[k] = IF k < i THEN bs[k] ELSE bs[k + 1]

(* What the library's operators on sequences do.                           *)
LEMMA InsertAtInserts ==
  ASSUME NEW bs \in Seq(Block), NEW i \in 1 .. Len(bs) + 1, NEW e \in Block
  PROVE  Inserted(bs, i, e, InsertAt(bs, i, e))
<1> DEFINE n == Len(bs)
           a == SubSeq(bs, 1, i - 1)
           c == SubSeq(bs, i, n)
<1>1. n \in Nat /\ i \in 1 .. n + 1 /\ \A k \in 1 .. n : bs[k] \in Block
  BY TableSlots
<1>2. a \in Seq(Block) /\ Len(a) = i - 1 /\ \A k \in 1 .. i - 1 : a[k] = bs[k]
  <2>1. \A k \in 1 .. i - 1 : bs[k] \in Block
    BY <1>1
  <2>2. /\ a \in Seq(Block) /\ Len(a) = IF 1 <= i - 1 THEN (i - 1) - 1 + 1 ELSE 0
        /\ \A k \in 1 .. (i - 1) - 1 + 1 : a[k] = bs[1 + k - 1]
    BY <1>1, <2>1, SubSeqProperties
  <2> QED
    BY <1>1, <2>2
<1>3. c \in Seq(Block) /\ Len(c) = n - i + 1 /\ \A k \in 1 .. n - i + 1 : c[k] = bs[i + k - 1]
  <2>1. \A k \in i .. n : bs[k] \in Block
    BY <1>1
  <2>2. /\ c \in Seq(Block) /\ Len(c) = IF i <= n THEN n - i + 1 ELSE 0
        /\ \A k \in 1 .. n - i + 1 : c[k] = bs[i + k - 1]
    BY <1>1, <2>1, SubSeqProperties
  <2> QED
    BY <1>1, <2>2
<1>4. <<e>> \in Seq(Block) /\ Len(<<e>>) = 1 /\ <<e>>[1] = e
  OBVIOUS
<1> HIDE DEF n, a, c
<1>5. /\ a \o <<e>> \in Seq(Block) /\ Len(a \o <<e>>) = i
      /\ \A k \in 1 .. i : (a \o <<e>>)[k] = IF k < i THEN bs[k] ELSE e
  <2>1. /\ a \o <<e>> \in Seq(Block) /\ Len(a \o <<e>>) = (i - 1) + 1
        /\ \A k \in 1 .. (i - 1) + 1 :
             (a \o <<e>>)[k] = IF k <= i - 1 THEN a[k] ELSE <<e>>[k - (i - 1)]
    BY <1>2, <1>4, ConcatProperties
  <2> QED
    BY <1>1, <1>2, <1>4, <2>1
<1>6. PICK d : d = a \o <<e>>
  OBVIOUS
<1>7. /\ d \o c \in Seq(Block) /\ Len(d \o c) = n + 1
      /\ \A k \in 1 .. n + 1 :
           (d \o c)[k] = IF k < i THEN bs[k] ELSE IF k = i THEN e ELSE bs[k - 1]
  <2>1. /\ d \o c \in Seq(Block) /\ Len(d \o c) = i + (n - i + 1)
        /\ \A k \in 1 .. i + (n - i + 1) : (d \o c)[k] = IF k <= i THEN d[k] ELSE c[k - i]
    <3>1. d \in Seq(Block) /\ c \in Seq(Block) /\ Len(d) = i /\ Len(c) = n - i + 1
      BY <1>3, <1>5, <1>6
    <3>2. /\ d \o c \in Seq(Block) /\ Len(d \o c) = Len(d) + Len(c)
          /\ \A k \in 1 .. Len(d) + Len(c) :
               (d \o c)[k] = IF k <= Len(d) THEN d[k] ELSE c[k - Len(d)]
      BY <3>1, ConcatProperties
    <3> QED
      BY <3>1, <3>2
  <2>2. i + (n - i + 1) = n + 1
    BY <1>1
  <2>3. ASSUME NEW k \in 1 .. n + 1, k > i PROVE c[k - i] = bs[k - 1]
    <3>1. k - i \in 1 .. n - i + 1 /\ i + (k - i) - 1 = k - 1
      BY <1>1, <2>3
    <3> QED
      BY <1>3, <3>1
  <2> QED
    BY <1>1, <1>5, <1>6, <2>1, <2>2, <2>3
<1> QED
  BY <1>6, <1>7 DEF InsertAt, Inserted, n, a, c

(* A block put in front is an insertion at the first slot.                 *)
LEMMA PutFirstInserts ==
  ASSUME NEW bs \in Seq(Block), NEW e \in Block
  PROVE  Inserted(bs, 1, e, <<e>> \o bs)
<1>1. Len(bs) \in Nat /\ <<e>> \in Seq(Block) /\ Len(<<e>>) = 1 /\ <<e>>[1] = e
  BY TableSlots
<1>2. /\ <<e>> \o bs \in Seq(Block) /\ Len(<<e>> \o bs) = 1 + Len(bs)
      /\ \A k \in 1 .. 1 + Len(bs) :
           (<<e>> \o bs)[k] = IF k <= 1 THEN <<e>>[k] ELSE bs[k - 1]
  BY <1>1, ConcatProperties
<1> QED
  BY <1>1, <1>2 DEF Inserted

(* What RemoveAt does, slot by slot.                                       *)
LEMMA RemoveAtRemoves ==
  ASSUME NEW bs \in Seq(Block), NEW i \in 1 .. Len(bs)
  PROVE  Removed(bs, i, RemoveAt(bs, i))
<1> DEFINE n == Len(bs)
           a == SubSeq(bs, 1, i - 1)
           c == SubSeq(bs, i + 1, n)
<1>1. n \in Nat /\ i \in 1 .. n /\ \A k \in 1 .. n : bs[k] \in Block
  BY TableSlots
<1>2. a \in Seq(Block) /\ Len(a) = i - 1 /\ \A k \in 1 .. i - 1 : a[k] = bs[k]
  <2>1. \A k \in 1 .. i - 1 : bs[k] \in Block
    BY <1>1
  <2>2. /\ a \in Seq(Block) /\ Len(a) = IF 1 <= i - 1 THEN (i - 1) - 1 + 1 ELSE 0
        /\ \A k \in 1 .. (i - 1) - 1 + 1 : a[k] = bs[1 + k - 1]
    BY <1>1, <2>1, SubSeqProperties
  <2> QED
    BY <1>1, <2>2
<1>3. c \in Seq(Block) /\ Len(c) = n - i /\ \A k \in 1 .. n - i : c[k] = bs[i + k]
  <2>1. \A k \in i + 1 .. n : bs[k] \in Block
    BY <1>1
  <2>2. /\ c \in Seq(Block) /\ Len(c) = IF i + 1 <= n THEN n - (i + 1) + 1 ELSE 0
        /\ \A k \in 1 .. n - (i + 1) + 1 : c[k] = bs[(i + 1) + k - 1]
    BY <1>1, <2>1, SubSeqProperties
  <2> QED
    BY <1>1, <2>2
<1> HIDE DEF n, a, c
<1>4. /\ a \o c \in Seq(Block) /\ Len(a \o c) = (i - 1) + (n - i)
      /\ \A k \in 1 .. (i - 1) + (n - i) :
           (a \o c)[k] = IF k <= i - 1 THEN a[k] ELSE c[k - (i - 1)]
  <2>1. a \in Seq(Block) /\ c \in Seq(Block) /\ Len(a) = i - 1 /\ Len(c) = n - i
    BY <1>2, <1>3
  <2>2. /\ a \o c \in Seq(Block) /\ Len(a \o c) = Len(a) + Len(c)
        /\ \A k \in 1 .. Len(a) + Len(c) :
             (a \o c)[k] = IF k <= Len(a) THEN a[k] ELSE c[k - Len(a)]
    BY <2>1, ConcatProperties
  <2> QED
    BY <2>1, <2>2
<1>5. (i - 1) + (n - i) = n - 1
  BY <1>1
<1>6. ASSUME NEW k \in 1 .. n - 1, k >= i PROVE c[k - (i - 1)] = bs[k + 1]
  <2>1. k - (i - 1) \in 1 .. n - i /\ i + (k - (i - 1)) = k + 1
    BY <1>1, <1>6
  <2> QED
    BY <1>3, <2>1
<1>7. \A k \in 1 .. n - 1 : (a \o c)[k] = IF k < i THEN bs[k] ELSE bs[k + 1]
  BY <1>1, <1>2, <1>4, <1>5, <1>6
<1> QED
  BY <1>1, <1>4, <1>5, <1>7 DEF RemoveAt, Removed, n, a, c

-----------------------------------------------------------------------------
(* What insertion and removal do to a sorted table                         *)

(* A block put into a gap keeps the table sorted.                          *)
LEMMA InsertSorted ==
  ASSUME NPages \in Nat, Start \in Nat, NEW bs, Sorted(bs), NEW i \in 1 .. Len(bs) + 1,
         NEW e \in Block, Start <= e.base, EndOf(e) <= NPages,
         i > 1 => EndOf(bs[i - 1]) <= e.base,
         i <= Len(bs) => EndOf(e) <= bs[i].base,
         NEW r, Inserted(bs, i, e, r)
  PROVE  /\ Sorted(r) /\ BlocksOf(r) = BlocksOf(bs) \cup {e}
         /\ \A b \in BlocksOf(bs) : EndOf(b) <= e.base \/ EndOf(e) <= b.base
<1> DEFINE n == Len(bs)
<1>1. n \in Nat /\ i \in 1 .. n + 1 /\ Len(r) = n + 1 /\ r \in Seq(Block)
  BY TableSlots DEF Sorted, Inserted
<1>2. \A k \in 1 .. n : /\ bs[k] \in Block /\ bs[k].base \in Nat /\ EndOf(bs[k]) \in Nat
                        /\ bs[k].base < EndOf(bs[k]) /\ Start <= bs[k].base
                        /\ EndOf(bs[k]) <= NPages
  BY TableSlots, BlockNumbers DEF Sorted
<1>3. \A j, k \in 1 .. n : j < k => EndOf(bs[j]) <= bs[k].base
  BY DEF Sorted
<1>4. e.base \in Nat /\ EndOf(e) \in Nat
  BY BlockNumbers
<1>5. \A k \in 1 .. n : (k < i => EndOf(bs[k]) <= e.base) /\ (k >= i => EndOf(e) <= bs[k].base)
  <2> SUFFICES ASSUME NEW k \in 1 .. n
               PROVE  (k < i => EndOf(bs[k]) <= e.base) /\ (k >= i => EndOf(e) <= bs[k].base)
    OBVIOUS
  <2>1. CASE k < i
    <3>1. i > 1 /\ i - 1 \in 1 .. n /\ (k = i - 1 \/ k < i - 1)
      BY <1>1, <2>1
    <3>2. EndOf(bs[i - 1]) <= e.base /\ bs[i - 1].base < EndOf(bs[i - 1])
          /\ bs[i - 1].base \in Nat /\ EndOf(bs[i - 1]) \in Nat /\ EndOf(bs[k]) \in Nat
      BY <1>2, <3>1
    <3>3. k < i - 1 => EndOf(bs[k]) <= bs[i - 1].base
      BY <1>3, <3>1
    <3>4. EndOf(bs[k]) <= e.base
      BY <1>4, <3>1, <3>2, <3>3
    <3> QED
      BY <1>1, <2>1, <3>4
  <2>2. CASE k >= i
    <3>1. i \in 1 .. n /\ (k = i \/ i < k)
      BY <1>1, <2>2
    <3>2. EndOf(e) <= bs[i].base /\ bs[i].base < EndOf(bs[i]) /\ bs[k].base \in Nat
          /\ bs[i].base \in Nat /\ EndOf(bs[i]) \in Nat
      BY <1>1, <1>2, <3>1
    <3>3. i < k => EndOf(bs[i]) <= bs[k].base
      BY <1>3, <3>1
    <3>4. EndOf(e) <= bs[k].base
      BY <1>4, <3>1, <3>2, <3>3
    <3> QED
      BY <1>1, <2>2, <3>4
  <2> QED
    BY <1>1, <2>1, <2>2
<1> HIDE DEF n
<1>6. \A k \in 1 .. n + 1 : r[k] = IF k < i THEN bs[k] ELSE IF k = i THEN e ELSE bs[k - 1]
  BY <1>1 DEF Inserted
<1>7. ASSUME NEW k \in 1 .. n + 1 PROVE Start <= r[k].base /\ EndOf(r[k]) <= NPages
  <2>1. k < i => k \in 1 .. n
    BY <1>1
  <2>2. k > i => k - 1 \in 1 .. n
    BY <1>1
  <2>3. k < i \/ k = i \/ k > i
    BY <1>1
  <2> QED
    BY <1>1, <1>2, <1>6, <2>1, <2>2, <2>3
<1>8. ASSUME NEW j \in 1 .. n + 1, NEW k \in 1 .. n + 1, j < k
      PROVE  EndOf(r[j]) <= r[k].base
  <2>1. CASE k < i
    <3>1. j \in 1 .. n /\ k \in 1 .. n /\ j < i
      BY <1>1, <1>8, <2>1
    <3> QED
      BY <1>3, <1>6, <1>8, <2>1, <3>1
  <2>2. CASE k = i
    <3>1. j \in 1 .. n /\ j < i
      BY <1>1, <1>8, <2>2
    <3> QED
      BY <1>1, <1>5, <1>6, <2>2, <3>1
  <2>3. CASE k > i
    <3>1. k - 1 \in 1 .. n /\ k - 1 >= i /\ ~(k < i) /\ k # i
      BY <1>1, <2>3
    <3>2. r[k] = bs[k - 1]
      BY <1>6, <3>1
    <3>3. CASE j < i
      <4>1. j \in 1 .. n /\ j < k - 1
        BY <1>1, <3>1, <3>3
      <4> QED
        BY <1>3, <1>6, <3>1, <3>2, <3>3, <4>1
    <3>4. CASE j = i
      BY <1>1, <1>5, <1>6, <3>1, <3>2, <3>4
    <3>5. CASE j > i
      <4>1. j - 1 \in 1 .. n /\ j - 1 < k - 1 /\ ~(j < i) /\ j # i
        BY <1>1, <1>8, <3>5
      <4>2. r[j] = bs[j - 1]
        BY <1>6, <4>1
      <4> QED
        BY <1>3, <3>1, <3>2, <4>1, <4>2
    <3> QED
      BY <1>1, <3>3, <3>4, <3>5
  <2> QED
    BY <1>1, <2>1, <2>2, <2>3
<1>9. Sorted(r)
  BY <1>1, <1>7, <1>8 DEF Sorted
<1>10. BlocksOf(r) \subseteq BlocksOf(bs) \cup {e}
  <2> SUFFICES ASSUME NEW k \in 1 .. n + 1 PROVE r[k] \in BlocksOf(bs) \cup {e}
    BY <1>1 DEF BlocksOf
  <2>1. (k < i => k \in 1 .. n) /\ (k > i => k - 1 \in 1 .. n) /\ (k < i \/ k = i \/ k > i)
    BY <1>1
  <2> QED
    BY <1>1, <1>6, <2>1 DEF BlocksOf, n
<1>11. BlocksOf(bs) \cup {e} \subseteq BlocksOf(r)
  <2>1. i \in 1 .. Len(r) /\ r[i] = e
    BY <1>1, <1>6
  <2>2. ASSUME NEW k \in 1 .. n PROVE bs[k] \in BlocksOf(r)
    <3>1. CASE k < i
      <4>1. k \in 1 .. Len(r) /\ r[k] = bs[k]
        BY <1>1, <1>6, <3>1
      <4> QED
        BY <4>1 DEF BlocksOf
    <3>2. CASE ~(k < i)
      <4>1. k + 1 \in 1 .. Len(r) /\ ~(k + 1 < i) /\ k + 1 # i /\ (k + 1) - 1 = k
        BY <1>1, <3>2
      <4>2. r[k + 1] = bs[k]
        BY <1>1, <1>6, <4>1
      <4> QED
        BY <4>1, <4>2 DEF BlocksOf
    <3> QED
      BY <3>1, <3>2
  <2> QED
    BY <2>1, <2>2 DEF BlocksOf, n
<1>12. \A b \in BlocksOf(bs) : EndOf(b) <= e.base \/ EndOf(e) <= b.base
  <2> SUFFICES ASSUME NEW k \in 1 .. n
               PROVE  EndOf(bs[k]) <= e.base \/ EndOf(e) <= bs[k].base
    BY DEF BlocksOf, n
  <2> QED
    BY <1>1, <1>5
<1> QED
  BY <1>9, <1>10, <1>11, <1>12

(* Blocks of a sorted table lie apart, so a base tells a block.            *)
LEMMA SortedApart ==
  ASSUME NPages \in Nat, NEW bs, Sorted(bs)
  PROVE  /\ \A b \in BlocksOf(bs) : b \in Block /\ Start <= b.base /\ EndOf(b) <= NPages
         /\ \A b, c \in BlocksOf(bs) : b = c \/ EndOf(b) <= c.base \/ EndOf(c) <= b.base
         /\ \A i, j \in 1 .. Len(bs) : bs[i].base = bs[j].base => i = j
<1>1. Len(bs) \in Nat /\ \A i \in 1 .. Len(bs) : /\ bs[i] \in Block /\ bs[i].base \in Nat
                                               /\ EndOf(bs[i]) \in Nat
                                               /\ bs[i].base < EndOf(bs[i])
  BY TableSlots, BlockNumbers DEF Sorted
<1>2. \A i, j \in 1 .. Len(bs) : i = j \/ EndOf(bs[i]) <= bs[j].base \/ EndOf(bs[j]) <= bs[i].base
  BY <1>1 DEF Sorted
<1>3. \A i, j \in 1 .. Len(bs) : bs[i].base = bs[j].base => i = j
  BY <1>1, <1>2
<1> QED
  BY <1>1, <1>2, <1>3 DEF Sorted, BlocksOf

(* del_virt_block takes away the one block with that base.                 *)
LEMMA DelRemoves ==
  ASSUME NPages \in Nat, NEW bs, Sorted(bs), NEW b \in BlocksOf(bs)
  PROVE  LET r == del_virt_block(bs, b.base) IN
         /\ Sorted(r) /\ Len(r) = Len(bs) - 1 /\ BlocksOf(r) = BlocksOf(bs) \ {b}
<1> DEFINE n == Len(bs)
<1>1. n \in Nat /\ bs \in Seq(Block) /\ \A k \in 1 .. n : bs[k] \in BlocksOf(bs)
  BY TableSlots DEF Sorted
<1>2. PICK i \in 1 .. n : bs[i] = b
  BY DEF BlocksOf
<1>3. IndexOf(bs, b.base) = i
  <2>1. \A k \in 1 .. n : bs[k].base = b.base <=> k = i
    BY <1>2, SortedApart
  <2> QED
    BY <1>2, <2>1 DEF IndexOf
<1>4. PICK r : r = del_virt_block(bs, b.base)
  OBVIOUS
<1>5. Removed(bs, i, r)
  BY <1>1, <1>2, <1>3, <1>4, RemoveAtRemoves DEF del_virt_block
<1> HIDE DEF n
<1>6. /\ r \in Seq(Block) /\ Len(r) = n - 1
      /\ \A k \in 1 .. n - 1 : r[k] = IF k < i THEN bs[k] ELSE bs[k + 1]
  BY <1>5 DEF Removed, n
<1> DEFINE at(k) == IF k < i THEN k ELSE k + 1
<1>7. \A k \in 1 .. n - 1 : at(k) \in 1 .. n /\ at(k) # i /\ r[k] = bs[at(k)]
  BY <1>1, <1>2, <1>6
<1>8. \A j, k \in 1 .. n - 1 : j < k => at(j) < at(k)
  BY <1>1, <1>2
<1> HIDE DEF at
<1>9. Sorted(r)
  BY <1>6, <1>7, <1>8 DEF Sorted, n
<1>10. BlocksOf(r) \subseteq BlocksOf(bs) \ {b}
  <2>1. \A k \in 1 .. n : bs[k] = b => k = i
    BY <1>2, SortedApart DEF n
  <2> QED
    BY <1>1, <1>6, <1>7, <2>1 DEF BlocksOf, n
<1>11. BlocksOf(bs) \ {b} \subseteq BlocksOf(r)
  <2> SUFFICES ASSUME NEW k \in 1 .. n, bs[k] # b PROVE bs[k] \in BlocksOf(r)
    BY DEF BlocksOf, n
  <2>1. k < i \/ k > i
    BY <1>1, <1>2
  <2>2. CASE k < i
    <3>1. k \in 1 .. n - 1 /\ r[k] = bs[k]
      BY <1>1, <1>2, <1>6, <2>2
    <3> QED
      BY <1>6, <3>1 DEF BlocksOf
  <2>3. CASE k > i
    <3>1. k - 1 \in 1 .. n - 1 /\ ~(k - 1 < i) /\ (k - 1) + 1 = k
      BY <1>1, <1>2, <2>3
    <3>2. r[k - 1] = bs[k]
      BY <1>6, <3>1
    <3> QED
      BY <1>6, <3>1, <3>2 DEF BlocksOf
  <2> QED
    BY <2>1, <2>2, <2>3
<1> QED
  BY <1>4, <1>6, <1>9, <1>10, <1>11 DEF n

-----------------------------------------------------------------------------
(* The search of add_virt_block                                            *)

(* A non-empty set of numbers has a least one; below a bound it has a      *)
(* greatest one.                                                           *)
LEMMA FirstNumber ==
  ASSUME NEW T \in SUBSET Nat, T # {}
  PROVE  \E x \in T : \A y \in T : x <= y
<1>1. PICK x \in T : \A y \in T : <<y, x>> \notin OpToRel(<, Nat)
  BY NatLessThanWellFounded, WFMin
<1>2. \A y \in T : y \in Nat /\ x \in Nat /\ ~(y < x)
  BY <1>1 DEF OpToRel
<1> QED
  BY <1>2

(* A set of numbers up to n has a largest one.                             *)
LEMMA LastNumber ==
  ASSUME NEW n \in Nat, NEW T \in SUBSET (1 .. n), T # {}
  PROVE  \E x \in T : \A y \in T : y <= x
<1> DEFINE S == {k \in Nat : n - k \in T}
<1>1. \A x \in T : x \in Nat /\ x <= n /\ n - x \in Nat /\ n - (n - x) = x
  OBVIOUS
<1>2. S # {} /\ S \in SUBSET Nat
  BY <1>1
<1>3. PICK k \in S : \A l \in S : k <= l
  BY <1>2, FirstNumber
<1>4. n - k \in T /\ k \in Nat
  OBVIOUS
<1>5. ASSUME NEW y \in T PROVE y <= n - k
  <2>1. n - y \in S
    BY <1>1
  <2> QED
    BY <1>1, <1>3, <1>4, <2>1
<1> QED
  BY <1>4, <1>5

Stops(bs, n, k) ==
  \/ EndBehind(bs[k], n) > End
  \/ k = Len(bs)
  \/ FitsBehind(bs[k], bs[k + 1], n)

(* The search stops somewhere, and at the first place where it may.        *)
LEMMA CandidateIs ==
  ASSUME NEW bs, Len(bs) \in Nat, Len(bs) > 0, NEW n
  PROVE  /\ Candidate(bs, n) \in 1 .. Len(bs) /\ Stops(bs, n, Candidate(bs, n))
         /\ \A k \in 1 .. Candidate(bs, n) - 1 : ~Stops(bs, n, k)
<1> DEFINE T == {k \in 1 .. Len(bs) : Stops(bs, n, k)}
           P(i) == Stops(bs, n, i) /\ \A k \in 1 .. i - 1 : ~Stops(bs, n, k)
<1>1. Len(bs) \in T /\ T \in SUBSET Nat
  BY DEF Stops
<1>2. PICK i \in T : \A k \in T : i <= k
  BY <1>1, FirstNumber
<1>3. i \in 1 .. Len(bs) /\ P(i)
  BY <1>2
<1>4. Candidate(bs, n) = CHOOSE j \in 1 .. Len(bs) : P(j)
  BY DEF Candidate, Stops
<1> HIDE DEF P
<1>5. Candidate(bs, n) \in 1 .. Len(bs) /\ P(Candidate(bs, n))
  BY <1>3, <1>4
<1> QED
  BY <1>5 DEF P

(* The end of a block put behind another one, which wraps at most once.    *)
LEMMA EndBehindIs ==
  ASSUME cur_address_space \in Spaces, NEW b \in Block, EndOf(b) <= NPages,
         NEW n \in Nat, n > 0, n < NPages
  PROVE  /\ EndBehind(b, n) = IF EndOf(b) + n < NPages THEN EndOf(b) + n
                              ELSE EndOf(b) + n - NPages
         /\ (b.base + b.size) % NPages = IF EndOf(b) = NPages THEN 0 ELSE EndOf(b)
<1>1. NPages \in Nat \ {0} /\ b.base \in Nat /\ b.size \in Nat /\ EndOf(b) = b.base + b.size
  BY Bounds, BlockNumbers
<1>2. b.base + b.size + n \in Nat /\ b.base + b.size + n < 2 * NPages
  BY <1>1
<1>3. b.base + b.size \in Nat /\ b.base + b.size < 2 * NPages
  BY <1>1
<1>4. (b.base + b.size + n) % NPages = IF b.base + b.size + n < NPages THEN b.base + b.size + n
                                       ELSE b.base + b.size + n - NPages
  BY <1>1, <1>2, WrapsOnce
<1>5. (b.base + b.size) % NPages = IF b.base + b.size < NPages THEN b.base + b.size
                                   ELSE b.base + b.size - NPages
  BY <1>1, <1>3, WrapsOnce
<1> QED
  BY <1>1, <1>4, <1>5 DEF EndBehind

(* A block is added in a gap, inside the space; the table stays a table in *)
(* any case.                                                               *)
LEMMA AddFits ==
  ASSUME cur_address_space \in Spaces, NEW bs, Sorted(bs), Len(bs) > 0,
         NEW n \in Nat, n > 0, Start + n < NPages,
         NEW a, a = add_virt_block(bs, n)
  PROVE  /\ a.blocks \in Seq(Block)
         /\ ~NoSpace(a) =>
              /\ a.base \in Nat /\ Start <= a.base /\ a.base + n <= NPages
              /\ Sorted(a.blocks) /\ Len(a.blocks) = Len(bs) + 1
              /\ a.reach \in Nat /\ a.reach <= Len(bs) + 2
              /\ BlocksOf(a.blocks) = BlocksOf(bs) \cup {[base |-> a.base, size |-> n]}
              /\ \A b \in BlocksOf(bs) : EndOf(b) <= a.base \/ a.base + n <= b.base
<1> DEFINE i == Candidate(bs, n)
           base == (bs[i].base + bs[i].size) % NPages
           new(b) == [base |-> b, size |-> n]
<1>1. /\ NPages \in Nat /\ Start \in Nat /\ 0 < Start /\ n < NPages /\ End \in Nat
      /\ bs \in Seq(Block) /\ Len(bs) \in Nat /\ bs[1] \in Block /\ Start < NPages
  BY Bounds, TableSlots DEF Sorted
<1>2. /\ i \in 1 .. Len(bs) /\ Stops(bs, n, i)
  BY <1>1, CandidateIs
<1>3. bs[i] \in Block /\ EndOf(bs[i]) <= NPages /\ EndOf(bs[i]) \in Nat /\ Start <= bs[i].base
      /\ bs[i].base \in Nat /\ bs[i].base < EndOf(bs[i])
  BY <1>1, <1>2, TableSlots, BlockNumbers DEF Sorted
<1>4. /\ EndBehind(bs[i], n) = IF EndOf(bs[i]) + n < NPages THEN EndOf(bs[i]) + n
                               ELSE EndOf(bs[i]) + n - NPages
      /\ base = IF EndOf(bs[i]) = NPages THEN 0 ELSE EndOf(bs[i])
  BY <1>1, <1>3, EndBehindIs
<1>5. \A x \in Nat : x < NPages => new(x) \in Block /\ new(x).base = x /\ EndOf(new(x)) = x + n
  BY <1>1 DEF Block, Page, EndOf
<1>6. CASE FitsFirst(bs, n)
  <2>1. a = [blocks |-> <<new(Start)>> \o bs, base |-> Start,
             reach |-> Len(bs) + 1, wraps |-> FALSE]
    BY <1>6 DEF add_virt_block
  <2>2. Inserted(bs, 1, new(Start), a.blocks) /\ new(Start) \in Block
    BY <1>1, <1>5, <2>1, PutFirstInserts
  <2>3. EndOf(new(Start)) <= bs[1].base /\ EndOf(new(Start)) <= NPages
    <3>1. (Start + n) % NPages = Start + n
      BY <1>1, WrapsOnce
    <3> QED
      BY <1>1, <1>5, <1>6, <3>1 DEF FitsFirst
  <2>4. PICK e \in Block : e = new(Start)
    BY <2>2
  <2>5. 1 \in 1 .. Len(bs) + 1 /\ ~(1 > 1) /\ Start <= e.base
    BY <1>1, <1>5, <2>4
  <2>6. /\ Sorted(a.blocks) /\ BlocksOf(a.blocks) = BlocksOf(bs) \cup {e}
        /\ \A b \in BlocksOf(bs) : EndOf(b) <= e.base \/ EndOf(e) <= b.base
    BY <1>1, <2>2, <2>3, <2>4, <2>5, InsertSorted
  <2>7. a.base = Start /\ a.reach = Len(bs) + 1 /\ e.base = Start /\ EndOf(e) = Start + n
    BY <1>1, <1>5, <2>1, <2>4
  <2> QED
    BY <1>1, <2>2, <2>4, <2>6, <2>7 DEF Inserted
<1>7. CASE ~FitsFirst(bs, n) /\ EndBehind(bs[i], n) > End
  <2>1. a = [blocks |-> bs, base |-> NULL, reach |-> 0, wraps |-> FALSE]
    BY <1>7 DEF add_virt_block
  <2> QED
    BY <1>1, <2>1 DEF NoSpace
<1>8. CASE ~FitsFirst(bs, n) /\ ~(EndBehind(bs[i], n) > End)
  <2>1. a = [blocks |-> InsertAt(bs, i + 1, new(base)), base |-> base,
             reach |-> IF i = Len(bs) THEN Len(bs) + 1 ELSE Len(bs) + 2,
             wraps |-> \/ base = NULL \/ base + n > NPages
                       \/ base + n = NPages /\ i < Len(bs)]
    BY <1>8 DEF add_virt_block
  <2>2. base \in Nat /\ base < NPages
    BY <1>1, <1>3, <1>4
  <2>3. new(base) \in Block /\ new(base).base = base /\ EndOf(new(base)) = base + n
    BY <1>5, <2>2
  <2>4. PICK e \in Block : e = new(base)
    BY <2>3
  <2>5. a.base = base /\ a.blocks = InsertAt(bs, i + 1, e) /\ a.reach \in Nat
        /\ a.reach <= Len(bs) + 2 /\ i + 1 \in 1 .. Len(bs) + 1
        /\ (a.wraps <=> (base = NULL \/ base + n > NPages \/ (base + n = NPages /\ i < Len(bs))))
    BY <1>1, <1>2, <2>1, <2>4
  <2>6. Inserted(bs, i + 1, e, a.blocks)
    BY <1>1, <2>5, InsertAtInserts
  <2>7. ASSUME ~NoSpace(a)
        PROVE  /\ base = EndOf(bs[i]) /\ base + n <= NPages
               /\ i + 1 <= Len(bs) => base + n <= bs[i + 1].base
    <3>1. base # 0 /\ base = EndOf(bs[i]) /\ ~(base + n > NPages)
          /\ ~(base + n = NPages /\ i < Len(bs))
      BY <1>3, <1>4, <2>5, <2>7 DEF NoSpace, NULL
    <3>2. base + n <= NPages /\ (i < Len(bs) => base + n < NPages)
      BY <1>1, <2>2, <3>1
    <3>3. ASSUME i + 1 <= Len(bs) PROVE base + n <= bs[i + 1].base
      <4>1. i < Len(bs) /\ i # Len(bs)
        BY <1>1, <1>2, <3>3
      <4>2. FitsBehind(bs[i], bs[i + 1], n)
        BY <1>2, <1>8, <4>1 DEF Stops
      <4>3. EndBehind(bs[i], n) = base + n
        BY <1>4, <3>1, <3>2, <4>1
      <4> QED
        BY <4>2, <4>3 DEF FitsBehind
    <3> QED
      BY <3>1, <3>2, <3>3
  <2>8. ASSUME ~NoSpace(a)
        PROVE  /\ Sorted(a.blocks) /\ BlocksOf(a.blocks) = BlocksOf(bs) \cup {e}
               /\ \A b \in BlocksOf(bs) : EndOf(b) <= e.base \/ EndOf(e) <= b.base
    <3>1. e.base = base /\ EndOf(e) = base + n
      BY <2>3, <2>4
    <3>2. Start <= e.base /\ EndOf(e) <= NPages
      BY <1>1, <1>3, <2>2, <2>7, <2>8, <3>1
    <3>3. (i + 1) - 1 = i /\ EndOf(bs[(i + 1) - 1]) <= e.base
      <4>1. (i + 1) - 1 = i
        BY <1>2
      <4>2. EndOf(bs[i]) <= e.base
        BY <1>3, <2>7, <2>8, <3>1
      <4> QED
        BY <4>1, <4>2
    <3>4. i + 1 <= Len(bs) => EndOf(e) <= bs[i + 1].base
      BY <2>7, <2>8, <3>1
    <3> HIDE DEF i
    <3>5. PICK j : j = i + 1
      OBVIOUS
    <3>6. /\ j \in 1 .. Len(bs) + 1 /\ EndOf(bs[j - 1]) <= e.base
          /\ (j <= Len(bs) => EndOf(e) <= bs[j].base) /\ Inserted(bs, j, e, a.blocks)
      BY <2>5, <2>6, <3>3, <3>4, <3>5
    <3> HIDE DEF base
    <3> QED
      BY <1>1, <3>2, <3>6, InsertSorted
  <2> QED
    BY <1>1, <1>3, <2>2, <2>3, <2>4, <2>5, <2>6, <2>7, <2>8 DEF Inserted
<1> QED
  BY <1>6, <1>7, <1>8

(* A refused request overlaps a block wherever it might lie.               *)
LEMMA AddRefuses ==
  ASSUME cur_address_space \in Spaces, NEW bs, Sorted(bs), Len(bs) > 0,
         NEW n \in Nat, n > 0, Start + n < NPages,
         NEW a, a = add_virt_block(bs, n), NoSpace(a),
         NEW b \in Nat, Start <= b, b + n <= Limit
  PROVE  \E c \in BlocksOf(bs) : ~(EndOf(c) <= b) /\ ~(b + n <= c.base)
<1> SUFFICES ASSUME \A k \in 1 .. Len(bs) : EndOf(bs[k]) <= b \/ b + n <= bs[k].base
             PROVE  FALSE
  BY DEF BlocksOf
<1> DEFINE i == Candidate(bs, n)
           base == (bs[i].base + bs[i].size) % NPages
<1>1. /\ NPages \in Nat /\ Start \in Nat /\ 0 < Start /\ n < NPages /\ End \in Nat
      /\ End < NPages /\ Len(bs) \in Nat
  BY Bounds, TableSlots DEF Sorted
<1>2. \A k \in 1 .. Len(bs) : /\ bs[k] \in Block /\ bs[k].base \in Nat /\ EndOf(bs[k]) \in Nat
                              /\ bs[k].base < EndOf(bs[k]) /\ EndOf(bs[k]) <= NPages
                              /\ bs[k].base < NPages
  BY <1>1, TableSlots, BlockNumbers DEF Sorted
<1>3. \A j, k \in 1 .. Len(bs) : j < k => EndOf(bs[j]) <= bs[k].base
  BY DEF Sorted
<1>4. Limit \in Nat /\ Limit <= NPages /\ (Limit > End => End = NPages - 1 /\ Limit = NPages)
  BY <1>1 DEF Limit
<1>5. /\ i \in 1 .. Len(bs) /\ \A k \in 1 .. i - 1 : ~Stops(bs, n, k)
  BY <1>1, CandidateIs
<1>6. \A k \in 1 .. Len(bs) :
        /\ EndBehind(bs[k], n) = IF EndOf(bs[k]) + n < NPages THEN EndOf(bs[k]) + n
                                 ELSE EndOf(bs[k]) + n - NPages
        /\ (bs[k].base + bs[k].size) % NPages = IF EndOf(bs[k]) = NPages THEN 0
                                                ELSE EndOf(bs[k])
  BY <1>1, <1>2, EndBehindIs
<1>7. ~FitsFirst(bs, n)
  <2> SUFFICES ASSUME FitsFirst(bs, n) PROVE FALSE
    OBVIOUS
  <2>1. a.base = Start /\ a.wraps = FALSE
    BY DEF add_virt_block
  <2> QED
    BY <1>1, <2>1 DEF NoSpace, NULL
<1>8. bs[1].base < Start + n
  <2>1. (Start + n) % NPages = Start + n
    <3>1. NPages \in Nat \ {0} /\ Start + n \in Nat /\ Start + n < 2 * NPages
          /\ Start + n < NPages
      BY <1>1
    <3>2. (Start + n) % NPages = IF Start + n < NPages THEN Start + n ELSE Start + n - NPages
      BY <3>1, WrapsOnce
    <3> QED
      BY <3>1, <3>2
  <2>2. bs[1].base \in Nat
    BY <1>1, <1>2
  <2> QED
    BY <1>1, <1>7, <2>1, <2>2 DEF FitsFirst
<1> DEFINE T == {k \in 1 .. Len(bs) : EndOf(bs[k]) <= b}
<1>9. 1 \in T
  <2>1. 1 \in 1 .. Len(bs) /\ bs[1].base \in Nat
    BY <1>1, <1>2
  <2> QED
    BY <1>1, <1>8, <2>1
<1>10. PICK m \in T : \A k \in T : k <= m
  BY <1>1, <1>9, LastNumber
<1>11. m \in 1 .. Len(bs) /\ EndOf(bs[m]) <= b /\ EndOf(bs[m]) \in Nat
  BY <1>2, <1>10
<1>12. m < Len(bs) => b + n <= bs[m + 1].base
  <2> SUFFICES ASSUME m < Len(bs) PROVE b + n <= bs[m + 1].base
    OBVIOUS
  <2>1. m + 1 \in 1 .. Len(bs) /\ ~(m + 1 <= m)
    BY <1>1, <1>11
  <2> QED
    BY <1>10, <2>1
<1> HIDE DEF T, i
<1>13. m >= i
  <2> SUFFICES ASSUME m < i PROVE FALSE
    BY <1>5, <1>11
  <2>1. m < Len(bs) /\ m + 1 \in 1 .. Len(bs) /\ m \in 1 .. i - 1
    BY <1>1, <1>5, <1>11
  <2>2. ~FitsBehind(bs[m], bs[m + 1], n)
    BY <1>5, <2>1 DEF Stops
  <2>3. EndOf(bs[m]) + n <= bs[m + 1].base /\ bs[m + 1].base < NPages
        /\ bs[m + 1].base \in Nat
    BY <1>2, <1>11, <1>12, <2>1
  <2>4. EndBehind(bs[m], n) = EndOf(bs[m]) + n
    BY <1>1, <1>6, <1>11, <2>3
  <2> QED
    BY <2>2, <2>3, <2>4 DEF FitsBehind
<1>14. /\ EndOf(bs[i]) \in Nat /\ EndOf(bs[i]) <= b
       /\ i < m => EndOf(bs[i]) < b
  <2>1. i < m => EndOf(bs[i]) <= bs[m].base
    BY <1>3, <1>5, <1>11
  <2>2. /\ EndOf(bs[i]) \in Nat /\ bs[m].base \in Nat /\ EndOf(bs[m]) \in Nat
        /\ bs[m].base < EndOf(bs[m])
    BY <1>2, <1>5, <1>11
  <2> QED
    BY <1>5, <1>11, <1>13, <2>1, <2>2
<1>15. EndOf(bs[i]) + n <= Limit /\ EndOf(bs[i]) < NPages /\ EndOf(bs[i]) # 0
  <2>1. bs[i].base \in Nat /\ bs[i].base < EndOf(bs[i])
    BY <1>2, <1>5
  <2> QED
    BY <1>1, <1>4, <1>14, <2>1
<1>16. base = EndOf(bs[i])
  <2>1. EndOf(bs[i]) # NPages
    BY <1>1, <1>14, <1>15
  <2>2. base = IF EndOf(bs[i]) = NPages THEN 0 ELSE EndOf(bs[i])
    BY <1>5, <1>6
  <2> QED
    BY <2>1, <2>2
<1>17. ~(EndBehind(bs[i], n) > End)
  <2>1. EndBehind(bs[i], n) = IF EndOf(bs[i]) + n < NPages THEN EndOf(bs[i]) + n
                              ELSE EndOf(bs[i]) + n - NPages
    BY <1>5, <1>6
  <2> QED
    BY <1>1, <1>4, <1>14, <1>15, <2>1
<1>18. /\ a.base = base
       /\ a.wraps <=> (base = NULL \/ base + n > NPages \/ (base + n = NPages /\ i < Len(bs)))
  BY <1>7, <1>17 DEF add_virt_block, i
<1> HIDE DEF base
<1>19. base + n = NPages /\ i < Len(bs)
  BY <1>1, <1>4, <1>14, <1>15, <1>16, <1>18 DEF NoSpace, NULL
<1>20. b = EndOf(bs[i]) /\ m = i
  BY <1>1, <1>4, <1>5, <1>11, <1>13, <1>14, <1>16, <1>19
<1>21. i + 1 \in 1 .. Len(bs) /\ b + n <= bs[i + 1].base
  BY <1>1, <1>5, <1>12, <1>19, <1>20
<1> QED
  BY <1>1, <1>2, <1>16, <1>19, <1>20, <1>21

-----------------------------------------------------------------------------
(* Pages and frames                                                        *)

(* The pages of a table's blocks.                                          *)
LEMMA UsedIs ==
  ASSUME NEW bs
  PROVE  \A p : p \in Used(bs) <=> \E b \in BlocksOf(bs) : p \in PagesOf(b)
BY DEF Used, BlocksOf

(* A page of a block.                                                      *)
LEMMA PageOfBlock ==
  ASSUME NPages \in Nat, NEW b \in Block, NEW p
  PROVE  p \in PagesOf(b) <=> p \in Nat /\ b.base <= p /\ p < EndOf(b)
<1>1. b.base \in Nat /\ b.size \in Nat /\ EndOf(b) = b.base + b.size
  BY BlockNumbers
<1> QED
  BY <1>1 DEF PagesOf, Pages

(* The pages of sorted blocks lie apart and inside the memory.             *)
LEMMA PagesApart ==
  ASSUME NPages \in Nat, NEW bs, Sorted(bs)
  PROVE  /\ \A b \in BlocksOf(bs) : PagesOf(b) \subseteq Page /\ b.base \in PagesOf(b)
         /\ \A b, c \in BlocksOf(bs) : \A p : p \in PagesOf(b) /\ p \in PagesOf(c) => b = c
<1>1. \A b \in BlocksOf(bs) : /\ b \in Block /\ EndOf(b) <= NPages /\ b.base \in Nat
                              /\ EndOf(b) \in Nat /\ b.base < EndOf(b)
  BY SortedApart, BlockNumbers
<1>2. \A b \in BlocksOf(bs) : \A p : p \in PagesOf(b) <=> p \in Nat /\ b.base <= p /\ p < EndOf(b)
  BY <1>1, PageOfBlock
<1>3. \A b \in BlocksOf(bs) : PagesOf(b) \subseteq Page /\ b.base \in PagesOf(b)
  BY <1>1, <1>2 DEF Page
<1>4. ASSUME NEW b \in BlocksOf(bs), NEW c \in BlocksOf(bs), NEW p,
             p \in PagesOf(b), p \in PagesOf(c)
      PROVE  b = c
  <2>1. b = c \/ EndOf(b) <= c.base \/ EndOf(c) <= b.base
    BY SortedApart
  <2> QED
    BY <1>1, <1>2, <1>4, <2>1
<1> QED
  BY <1>3, <1>4

(* Frames chosen for pages are free, and different for different pages.    *)
LEMMA FramesChosen ==
  ASSUME NEW x \in Int, NEW y \in Int, NEW f \in FrameChoices(x .. y)
  PROVE  /\ \A p \in x .. y : f[p] \in free
         /\ \A p, q \in x .. y : f[p] = f[q] => p = q
<1> DEFINE S == x .. y
           T == {f[p] : p \in S}
<1>1. f \in [S -> free] /\ Cardinality(T) = Cardinality(S) /\ IsFiniteSet(S)
  BY FS_Interval DEF FrameChoices
<1>2. f \in [S -> T] /\ \A t \in T : \E p \in S : f[p] = t
  BY <1>1
<1>3. f \in Surjection(S, T)
  BY <1>2 DEF Surjection
<1>4. f \in Injection(S, T)
  BY <1>1, <1>3, FS_Surjection
<1> QED
  BY <1>1, <1>4 DEF Injection, IsInjective

(* m maps the pages in V, no frame twice, and fr are the frames left.      *)
Accounted(m, fr, V) ==
  /\ m \in [Page -> Frames \cup {Fixed, None}] /\ fr \subseteq Frames
  /\ \A p \in Page : m[p] # None <=> p \in V
  /\ \A p, q \in Page : m[p] \in Frames /\ m[p] = m[q] => p = q
  /\ \A x \in Frames : x \in fr <=> \A p \in Page : m[p] # x

(* This is what FramesAccounted says.                                      *)
LEMMA AccountedIs ==
  ASSUME TypeOK, fault = None
  PROVE  FramesAccounted <=> Accounted(pt, free, Used(blocks))
<1> DEFINE mapped == {p \in Page : pt[p] \in Frames}
<1>1. /\ pt \in [Page -> Frames \cup {Fixed, None}] /\ free \subseteq Frames
  BY DEF TypeOK
<1>2. (\A p, q \in mapped : pt[p] = pt[q] => p = q)
        <=> \A p, q \in Page : pt[p] \in Frames /\ pt[p] = pt[q] => p = q
  OBVIOUS
<1>3. (free = Frames \ {pt[p] : p \in mapped})
        <=> \A x \in Frames : x \in free <=> \A p \in Page : pt[p] # x
  BY <1>1
<1> QED
  BY <1>1, <1>2, <1>3, Zenon DEF FramesAccounted, Accounted

(* The pages in O are unmapped and their frames given back, those in N are *)
(* mapped as g says.                                                       *)
Remapped(m, fr, V, O, N, g, m2, fr2, W) ==
  /\ O \subseteq V /\ N \subseteq Page /\ \A p \in N : p \notin V
  /\ \A p \in N : g[p] \in fr \cup {Fixed}
  /\ \A p, q \in N : g[p] \in Frames /\ g[p] = g[q] => p = q
  /\ m2 = [p \in Page |-> IF p \in O THEN None ELSE IF p \in N THEN g[p] ELSE m[p]]
  /\ \A x : x \in fr2 <=> \/ x \in fr /\ \A p \in N : g[p] # x
                          \/ x \in Frames /\ \E p \in O \cap Page : m[p] = x
  /\ \A p \in Page : p \in W <=> (p \in V /\ p \notin O) \/ p \in N

(* Then every frame stays accounted for.                                   *)
LEMMA Remap ==
  ASSUME NEW m, NEW fr, NEW V, Accounted(m, fr, V),
         NEW O, NEW N, NEW g, NEW m2, NEW fr2, NEW W,
         Remapped(m, fr, V, O, N, g, m2, fr2, W)
  PROVE  Accounted(m2, fr2, W)
<1>0. /\ O \subseteq V /\ N \subseteq Page /\ \A p \in N : p \notin V
      /\ \A p \in N : g[p] \in fr \cup {Fixed}
      /\ \A p, q \in N : g[p] \in Frames /\ g[p] = g[q] => p = q
      /\ m2 = [p \in Page |-> IF p \in O THEN None ELSE IF p \in N THEN g[p] ELSE m[p]]
      /\ \A x : x \in fr2 <=> \/ x \in fr /\ \A p \in N : g[p] # x
                              \/ x \in Frames /\ \E p \in O \cap Page : m[p] = x
      /\ \A p \in Page : p \in W <=> (p \in V /\ p \notin O) \/ p \in N
  BY DEF Remapped
<1>1. /\ m \in [Page -> Frames \cup {Fixed, None}] /\ fr \subseteq Frames
      /\ \A p \in Page : m[p] # None <=> p \in V
      /\ \A p, q \in Page : m[p] \in Frames /\ m[p] = m[q] => p = q
      /\ \A x \in Frames : x \in fr <=> \A p \in Page : m[p] # x
  BY DEF Accounted
<1>a. \A x : x \in fr2 <=> \/ x \in fr /\ \A p \in N : g[p] # x
                           \/ x \in Frames /\ \E p \in O \cap Page : m[p] = x
  BY DEF Remapped
<1>2. \A p \in Page : m2[p] = IF p \in O THEN None ELSE IF p \in N THEN g[p] ELSE m[p]
  BY <1>0
<1>3. None \notin Frames /\ Fixed \notin Frames /\ Fixed # None
  BY FrameAssumption
<1>4. \A p \in N : g[p] \in Frames \cup {Fixed} /\ g[p] # None /\ p \notin O
  BY <1>0, <1>1, <1>3
<1>5. m2 \in [Page -> Frames \cup {Fixed, None}] /\ fr2 \subseteq Frames
  BY <1>0, <1>1, <1>4
<1>6. \A p \in Page : m2[p] # None <=> p \in W
  BY <1>0, <1>1, <1>2, <1>4
<1>7. ASSUME NEW p \in Page, NEW q \in Page, m2[p] \in Frames, m2[p] = m2[q] PROVE p = q
  <2>1. p \notin O /\ q \notin O
    BY <1>0, <1>2, <1>3, <1>7
  <2>2. CASE p \in N /\ q \in N
    BY <1>0, <1>2, <1>7, <2>1, <2>2
  <2>3. CASE p \in N /\ q \notin N
    <3>1. g[p] \in fr /\ m[q] = g[p]
      BY <1>0, <1>2, <1>3, <1>7, <2>1, <2>3
    <3> QED
      BY <1>0, <1>1, <3>1
  <2>4. CASE p \notin N /\ q \in N
    <3>1. g[q] \in fr /\ m[p] = g[q]
      BY <1>0, <1>2, <1>3, <1>7, <2>1, <2>4
    <3> QED
      BY <1>0, <1>1, <3>1
  <2>5. CASE p \notin N /\ q \notin N
    BY <1>0, <1>1, <1>2, <1>7, <2>1, <2>5
  <2> QED
    BY <1>0, <2>2, <2>3, <2>4, <2>5
<1>8. ASSUME NEW x \in Frames PROVE x \in fr2 <=> \A p \in Page : m2[p] # x
  <2>1. ASSUME x \in fr, \A p \in N : g[p] # x, NEW p \in Page PROVE m2[p] # x
    BY <1>0, <1>1, <1>2, <1>3, <2>1
  <2>2. ASSUME NEW q \in O \cap Page, m[q] = x, NEW p \in Page PROVE m2[p] # x
    <3>1. p = q => m2[p] # x
      BY <1>0, <1>2, <1>3
    <3>2. p # q /\ p \notin N => m2[p] # x
      BY <1>0, <1>1, <1>2, <1>3, <2>2
    <3>3. p \in N => m2[p] # x
      <4> SUFFICES ASSUME p \in N PROVE g[p] # x
        BY <1>0, <1>2, <1>4
      <4>1. g[p] \in fr \/ g[p] = Fixed
        BY <1>0
      <4> QED
        BY <1>0, <1>1, <1>3, <2>2, <4>1
    <3> QED
      BY <1>0, <3>1, <3>2, <3>3
  <2>3. ASSUME \A p \in Page : m2[p] # x PROVE x \in fr2
    <3>1. \A p \in N : g[p] # x
      BY <1>0, <1>2, <1>4, <2>3
    <3>2. CASE x \in fr
      BY <1>a, <3>1, <3>2
    <3>3. CASE x \notin fr
      <4>1. PICK p \in Page : m[p] = x
        BY <1>0, <1>1, <3>3
      <4>2. p \in O \/ p \in N
        BY <1>0, <1>2, <2>3, <4>1
      <4>3. p \notin N
        BY <1>0, <1>1, <1>3, <4>1
      <4> QED
        BY <1>a, <4>1, <4>2, <4>3
    <3> QED
      BY <1>0, <3>2, <3>3
  <2> QED
    BY <1>0, <2>1, <2>2, <2>3
<1> QED
  BY <1>0, <1>5, <1>6, <1>7, <1>8 DEF Accounted

-----------------------------------------------------------------------------
(* The steps                                                               *)

Live == VirtInv /\ fault = None

(* What holds before every step.                                           *)
LEMMA LiveFacts ==
  ASSUME Live
  PROVE  /\ NPages \in Nat /\ Start \in Nat /\ Sorted(blocks) /\ blocks \in Seq(Block)
         /\ Len(blocks) \in Nat /\ Accounted(pt, free, Used(blocks))
         /\ table \in Nat /\ table_size \in Nat /\ 0 < table_size
         /\ TableBlock \in BlocksOf(blocks) /\ TableBlock \in Block
         /\ PagesOf(TableBlock) = Pages(table, table_size)
         /\ Start + table_size + 1 < NPages
         /\ \A a \in Anchors, b \in BlocksOf(blocks) :
              b.base = a => b # TableBlock /\ Fixed = pt[a]
<1>1. /\ TypeOK /\ cur_address_space \in Spaces /\ Sorted(blocks) /\ Anchored /\ HasItself
      /\ FramesAccounted /\ fault = None
  BY DEF Live, VirtInv
<1>2. /\ NPages \in Nat /\ Start \in Nat /\ KernelBase \in Nat /\ TempPage \in Nat
      /\ Start <= KernelBase /\ KernelBase < TempPage /\ TempPage < NPages
  BY <1>1, Bounds
<1>3. blocks \in Seq(Block) /\ Len(blocks) \in Nat
  BY <1>1, TableSlots DEF Sorted
<1>4. table \in Nat /\ table_size \in Nat /\ 0 < table_size
  BY <1>1, <1>2 DEF TypeOK, Page
<1>5. TableBlock \in BlocksOf(blocks) /\ TableBlock \in Block /\ TableBlock.base = table
      /\ TableBlock.size = table_size /\ Start <= table /\ EndOf(TableBlock) <= NPages
      /\ EndOf(TableBlock) = table + table_size
  BY <1>1, <1>2, SortedApart DEF HasItself, TableBlock, EndOf
<1>6. PagesOf(TableBlock) = Pages(table, table_size)
  BY <1>5 DEF PagesOf
<1>7. ASSUME NEW a \in Anchors, NEW b \in BlocksOf(blocks), b.base = a
      PROVE  b # TableBlock /\ Fixed = pt[a] /\ a \notin PagesOf(TableBlock)
  <2>1. pt[a] = Fixed /\ a \in PagesOf(b)
    BY <1>1, <1>2, <1>7, PagesApart DEF Anchored
  <2>2. a \notin PagesOf(TableBlock)
    BY <1>1, <2>1, FrameAssumption DEF HasItself
  <2> QED
    BY <2>1, <2>2
<1>8. \A a \in Anchors : a < table \/ a >= table + table_size
  <2> SUFFICES ASSUME NEW a \in Anchors PROVE a < table \/ a >= table + table_size
    OBVIOUS
  <2>1. PICK b \in BlocksOf(blocks) : b.base = a
    BY <1>1 DEF Anchored
  <2>2. a \notin PagesOf(TableBlock) /\ a \in Nat
    BY <1>2, <1>7, <2>1 DEF Anchors
  <2> QED
    BY <1>2, <1>4, <1>5, <2>2, PageOfBlock
<1>9. Start + table_size + 1 < NPages
  <2>1. (KernelBase < table \/ KernelBase >= table + table_size)
        /\ (TempPage < table \/ TempPage >= table + table_size)
    BY <1>8 DEF Anchors
  <2> QED
    BY <1>2, <1>4, <1>5, <2>1
<1>10. Accounted(pt, free, Used(blocks))
  BY <1>1, AccountedIs
<1> QED
  BY <1>1, <1>2, <1>3, <1>4, <1>5, <1>6, <1>7, <1>9, <1>10

(* Without the table's own block the table is sorted and not empty.        *)
LEMMA RestFacts ==
  ASSUME Live
  PROVE  LET rest == del_virt_block(blocks, table) IN
         /\ Sorted(rest) /\ Len(rest) = Len(blocks) - 1 /\ Len(rest) \in Nat /\ Len(rest) > 0
         /\ BlocksOf(rest) = BlocksOf(blocks) \ {TableBlock}
<1>1. PICK rest : rest = del_virt_block(blocks, table)
  OBVIOUS
<1>2. /\ NPages \in Nat /\ Sorted(blocks) /\ TableBlock \in BlocksOf(blocks)
      /\ TableBlock.base = table
  BY LiveFacts DEF TableBlock
<1>3. Sorted(rest) /\ Len(rest) = Len(blocks) - 1 /\ BlocksOf(rest) = BlocksOf(blocks) \ {TableBlock}
  BY <1>1, <1>2, DelRemoves
<1>4. Len(rest) \in Nat
  BY <1>3, TableSlots DEF Sorted
<1>5. \E b \in BlocksOf(rest) : TRUE
  <2>1. PICK b \in BlocksOf(blocks) : b.base = KernelBase
    BY DEF Live, VirtInv, Anchored, Anchors
  <2>2. b # TableBlock
    BY <2>1, LiveFacts DEF Anchors
  <2> QED
    BY <1>3, <2>1, <2>2
<1>6. Len(rest) > 0
  BY <1>4, <1>5 DEF BlocksOf
<1> QED
  BY <1>1, <1>3, <1>4, <1>6

AccountedNow == Accounted(pt, free, Used(blocks))

(* The same, to be stated of the next state.                               *)
LEMMA AccountedThen == TypeOK /\ fault = None /\ AccountedNow => FramesAccounted
BY AccountedIs DEF AccountedNow

(* The same, of the state after a step.                                    *)
LEMMA AccountedNext ==
  ASSUME TypeOK', fault' = None, Accounted(pt', free', Used(blocks'))
  PROVE  FramesAccounted'
<1>1. TypeOK' /\ (fault = None)' /\ AccountedNow' => FramesAccounted'
  BY AccountedThen, PTL
<1>2. AccountedNow'
  BY DEF AccountedNow, Used, PagesOf, Pages, Accounted, Page
<1> QED
  BY <1>1, <1>2

(* A table is a table in the next state too.                               *)
LEMMA SortedNext ==
  ASSUME UNCHANGED cur_address_space, Sorted(blocks') PROVE Sorted(blocks)'
BY DEF Sorted, Start, EndOf, Block, Page

(* The request that a step serves: the table's own, or the caller's.       *)
LEMMA RequestFacts ==
  ASSUME Live, pc \in {"grow", "place"},
         NEW bs, bs = IF pc = "grow" THEN del_virt_block(blocks, table) ELSE blocks,
         NEW n, n = IF pc = "grow" THEN table_size + 1 ELSE count
  PROVE  /\ Sorted(bs) /\ Len(bs) > 0 /\ n \in Nat /\ n > 0 /\ Start + n < NPages
         /\ cur_address_space \in Spaces /\ Start \in Nat /\ NPages \in Nat
<1>1. cur_address_space \in Spaces /\ Room /\ count \in 0 .. MaxCount
  BY DEF Live, VirtInv, TypeOK
<1>2. Start \in Nat /\ NPages \in Nat /\ Start + MaxCount < NPages /\ MaxCount \in Nat
  BY <1>1, Bounds
<1>3. /\ Sorted(blocks) /\ Len(blocks) \in Nat /\ table_size \in Nat
      /\ Start + table_size + 1 < NPages /\ TableBlock \in BlocksOf(blocks)
  BY LiveFacts
<1>4. CASE pc = "grow"
  <2>1. bs = del_virt_block(blocks, table) /\ n = table_size + 1
    BY <1>4
  <2>2. Sorted(bs) /\ Len(bs) > 0
    BY <2>1, RestFacts
  <2>3. n \in Nat /\ n > 0 /\ Start + n < NPages
    BY <1>2, <1>3, <2>1
  <2> QED
    BY <1>1, <1>2, <2>2, <2>3
<1>5. CASE pc = "place"
  <2>1. bs = blocks /\ n = count /\ count > 0
    BY <1>1, <1>5 DEF Room
  <2>2. Len(blocks) > 0
    BY <1>3 DEF BlocksOf
  <2>3. n \in Nat /\ n > 0 /\ Start + n < NPages
    BY <1>1, <1>2, <2>1
  <2> QED
    BY <1>1, <1>2, <1>3, <2>1, <2>2, <2>3
<1> QED
  BY <1>4, <1>5

(* A request that is refused or wraps, or that finds no frame, is a fault; *)
(* the types hold all the same.                                            *)
LEMMA FaultKeeps ==
  ASSUME Live, AllocFaults, UNCHANGED cur_address_space PROVE VirtInv'
<1>1. PICK bs : bs = IF pc = "grow" THEN del_virt_block(blocks, table) ELSE blocks
  OBVIOUS
<1>2. PICK n : n = IF pc = "grow" THEN table_size + 1 ELSE count
  OBVIOUS
<1>3. PICK a : a = add_virt_block(bs, n)
  OBVIOUS
<1>4. /\ pc \in {"grow", "place"} /\ fault' \in {"no space", "wrapped", "no frame"}
      /\ blocks' = a.blocks
      /\ table_size' = (IF pc = "grow" THEN table_size + 1 ELSE table_size)
      /\ UNCHANGED <<table, pt, free, pc, count, paddr>>
  BY <1>1, <1>2, <1>3 DEF AllocFaults
<1>5. /\ Sorted(bs) /\ Len(bs) > 0 /\ n \in Nat /\ n > 0 /\ Start + n < NPages
      /\ cur_address_space \in Spaces
  BY <1>1, <1>2, <1>4, RequestFacts
<1>6. a.blocks \in Seq(Block)
  BY <1>3, <1>5, AddFits
<1>7. table_size' \in 1 .. NPages
  <2>1. /\ NPages \in Nat /\ Start \in Nat /\ table_size \in Nat /\ 0 < table_size
        /\ Start + table_size + 1 < NPages
    BY LiveFacts
  <2>2. table_size \in 1 .. NPages /\ table_size + 1 \in 1 .. NPages
    BY <2>1
  <2>3. table_size' = table_size + 1 \/ table_size' = table_size
    BY <1>4
  <2> QED
    BY <2>2, <2>3
<1>8. TypeOK'
  <2>1. \A i \in 1 .. Len(blocks') : blocks'[i] \in [base : Page, size : 1 .. NPages]
    BY <1>4, <1>6, TableSlots DEF Block
  <2>2. TypeOK
    BY DEF Live, VirtInv
  <2> QED
    BY <1>4, <1>7, <2>1, <2>2 DEF TypeOK
<1> QED
  BY <1>4, <1>5, <1>8 DEF VirtInv, None

(* A call begins: the table grows first when it is full.                   *)
LEMMA AllocCallKeeps ==
  ASSUME Live, NEW n \in 1 .. MaxCount, NEW p \in {None, Fixed}, AllocCall(n, p),
         UNCHANGED cur_address_space
  PROVE  VirtInv'
<1>1. /\ UNCHANGED <<blocks, table, table_size, pt, free, beyond, fault>>
      /\ pc' = (IF TableFull THEN "grow" ELSE "place") /\ count' = n /\ paddr' = p
      /\ fault = None
  BY DEF AllocCall, descriptor
<1>2. cur_address_space \in Spaces
  BY DEF Live, VirtInv
<1>3. MaxCount \in Nat /\ Slots \in Nat /\ n \in 0 .. MaxCount /\ n > 0
  BY <1>2, Bounds
<1>4. TypeOK'
  BY <1>1, <1>3 DEF Live, VirtInv, TypeOK
<1>5. Room'
  <2>1. Len(blocks) \in Nat /\ Slots * table_size \in Nat
    BY <1>3, LiveFacts
  <2> QED
    BY <1>1, <1>3, <2>1 DEF Room, TableFull
<1>6. Sorted(blocks)' /\ Anchored' /\ HasItself' /\ TableHoldsAll'
  <2>1. Sorted(blocks)'
    BY <1>1, LiveFacts, SortedNext
  <2>2. Anchored' /\ HasItself' /\ TableHoldsAll'
    BY <1>1 DEF Live, VirtInv, Anchored, Anchors, HasItself, TableBlock, BlocksOf, PagesOf,
       Pages, TableHoldsAll
  <2> QED
    BY <2>1, <2>2
<1>7. FramesAccounted'
  BY <1>1, <1>4, LiveFacts, AccountedNext
<1> QED
  BY <1>1, <1>2, <1>4, <1>5, <1>6, <1>7 DEF VirtInv

(* A new block is mapped to fresh frames, or to the frame asked for.       *)
LEMMA PlaceKeeps ==
  ASSUME Live, PlaceBlock, UNCHANGED cur_address_space PROVE VirtInv'
<1>1. PICK a : a = add_virt_block(blocks, count)
  OBVIOUS
<1> DEFINE new == Pages(a.base, count)
<1>2. PICK f \in IF paddr = None THEN FrameChoices(new) ELSE [new -> {paddr}] :
        /\ pt' = [p \in Page |-> IF p \in new THEN f[p] ELSE pt[p]]
        /\ free' = free \ {f[p] : p \in new}
  BY <1>1 DEF PlaceBlock
<1>3. /\ pc = "place" /\ fault = None /\ ~NoSpace(a)
      /\ blocks' = a.blocks /\ beyond' = Beyond(a) /\ pc' = "idle"
      /\ UNCHANGED <<table, table_size, count, paddr, fault>>
  BY <1>1 DEF PlaceBlock
<1>4. /\ TypeOK /\ cur_address_space \in Spaces /\ Anchored /\ HasItself /\ Room /\ TableHoldsAll
  BY DEF Live, VirtInv
<1>5. /\ NPages \in Nat /\ Start \in Nat /\ Slots \in Nat /\ count \in Nat /\ count > 0
      /\ Start + count < NPages /\ table_size \in Nat /\ Len(blocks) \in Nat
      /\ count \in 0 .. MaxCount
  BY <1>3, <1>4, Bounds, LiveFacts, SMTT(30) DEF Room, TypeOK
<1>6. Len(blocks) > 0
  BY <1>5, LiveFacts DEF BlocksOf
<1>7. /\ a.blocks \in Seq(Block) /\ a.base \in Nat /\ Start <= a.base /\ a.base + count <= NPages
      /\ Sorted(a.blocks) /\ Len(a.blocks) = Len(blocks) + 1
      /\ a.reach \in Nat /\ a.reach <= Len(blocks) + 2
      /\ BlocksOf(a.blocks) = BlocksOf(blocks) \cup {[base |-> a.base, size |-> count]}
      /\ \A b \in BlocksOf(blocks) : EndOf(b) <= a.base \/ a.base + count <= b.base
  BY <1>1, <1>3, <1>4, <1>5, <1>6, LiveFacts, AddFits, SMTT(30)
<1>8. new \subseteq Page /\ \A p \in new : p \in Nat /\ a.base <= p /\ p < a.base + count
  BY <1>5, <1>7, SMTT(30) DEF Pages, Page
<1>9. \A p \in new : p \notin Used(blocks)
  <2> SUFFICES ASSUME NEW p \in new, NEW b \in BlocksOf(blocks), p \in PagesOf(b) PROVE FALSE
    BY UsedIs
  <2>1. /\ b \in Block /\ b.base \in Nat /\ EndOf(b) \in Nat /\ p \in Nat /\ b.base <= p
        /\ p < EndOf(b)
    BY LiveFacts, SortedApart, BlockNumbers, PageOfBlock
  <2> QED
    BY <1>5, <1>7, <1>8, <2>1
<1>10. /\ \A p \in new : f[p] \in free \cup {Fixed}
       /\ \A p, q \in new : f[p] \in Frames /\ f[p] = f[q] => p = q
  <2>1. CASE paddr = None
    <3>1. a.base \in Int /\ a.base + count - 1 \in Int
      BY <1>5, <1>7
    <3>2. f \in FrameChoices(a.base .. a.base + count - 1)
      BY <1>2, <2>1 DEF Pages
    <3> QED
      BY <3>1, <3>2, FramesChosen DEF Pages
  <2>2. CASE paddr # None
    <3>1. paddr = Fixed /\ f \in [new -> {Fixed}]
      BY <1>2, <1>4, <2>2 DEF TypeOK
    <3> QED
      BY <3>1, FrameAssumption
  <2> QED
    BY <2>1, <2>2
<1>11. \A p : p \in Used(blocks') <=> p \in Used(blocks) \/ p \in new
  <2>1. PagesOf([base |-> a.base, size |-> count]) = new
    BY DEF PagesOf
  <2> QED
    BY <1>3, <1>7, <2>1, UsedIs
<1> HIDE DEF new
<1>12. Accounted(pt', free', Used(blocks'))
  <2>1. Accounted(pt, free, Used(blocks))
    BY LiveFacts
  <2>2. pt' = [p \in Page |-> IF p \in {} THEN None ELSE IF p \in new THEN f[p] ELSE pt[p]]
    BY <1>2
  <2>3. \A x : x \in free' <=> \/ x \in free /\ \A p \in new : f[p] # x
                               \/ x \in Frames /\ \E p \in {} \cap Page : pt[p] = x
    BY <1>2
  <2>4. {} \subseteq Used(blocks)
        /\ \A p \in Page : p \in Used(blocks')
             <=> (p \in Used(blocks) /\ p \notin {}) \/ p \in new
    BY <1>11
  <2> QED
    <3>1. Remapped(pt, free, Used(blocks), {}, new, f, pt', free', Used(blocks'))
      BY <1>8, <1>9, <1>10, <2>2, <2>3, <2>4 DEF Remapped
    <3> QED
      BY <2>1, <3>1, Remap
<1>13. TypeOK'
  <2>1. \A i \in 1 .. Len(blocks') : blocks'[i] \in [base : Page, size : 1 .. NPages]
    BY <1>3, <1>7, TableSlots DEF Block
  <2> QED
    BY <1>3, <1>4, <1>12, <2>1 DEF TypeOK, Accounted
<1>14. Anchored'
  <2> SUFFICES ASSUME NEW x \in Anchors
               PROVE  pt'[x] = Fixed /\ \E b \in BlocksOf(blocks') : b.base = x
    BY DEF Anchored, Anchors, BlocksOf
  <2>1. PICK b \in BlocksOf(blocks) : b.base = x /\ pt[x] = Fixed
    BY <1>4 DEF Anchored
  <2>2. x \in Page /\ x \in Used(blocks)
    BY <2>1, LiveFacts, PagesApart, UsedIs
  <2> QED
    BY <1>2, <1>3, <1>7, <1>9, <2>1, <2>2
<1>15. HasItself'
  <2>1. TableBlock' = TableBlock /\ TableBlock \in BlocksOf(blocks')
    BY <1>3, <1>7, LiveFacts DEF TableBlock
  <2>2. ASSUME NEW p \in PagesOf(TableBlock) PROVE pt'[p] \in Frames
    <3>1. p \in Page /\ p \in Used(blocks)
      BY LiveFacts, PagesApart, UsedIs
    <3> QED
      BY <1>2, <1>4, <1>9, <3>1 DEF HasItself
  <2> QED
    BY <2>1, <2>2 DEF HasItself, BlocksOf, PagesOf, Pages
<1>16. TableHoldsAll' /\ Room'
  <2>1. Slots * table_size \in Nat /\ Len(blocks) + 1 <= Slots * table_size
    BY <1>3, <1>4, <1>5 DEF Room
  <2>2. Beyond(a) <= 1
    BY <1>5, <1>7, <2>1 DEF Beyond
  <2> QED
    BY <1>3, <1>5, <1>7, <2>1, <2>2 DEF TableHoldsAll, Room
<1>17. Sorted(blocks)' /\ FramesAccounted'
  BY <1>3, <1>7, <1>12, <1>13, SortedNext, AccountedNext
<1> QED
  BY <1>4, <1>13, <1>14, <1>15, <1>16, <1>17 DEF VirtInv

(* The place the table moves to, and what it holds next.                   *)
LEMMA GrowFacts ==
  ASSUME Live, NEW rest, rest = del_virt_block(blocks, table),
         NEW a, a = add_virt_block(rest, table_size + 1), ~NoSpace(a)
  PROVE  /\ a.blocks \in Seq(Block) /\ a.base \in Nat /\ a.base + table_size + 1 <= NPages
         /\ Start <= a.base
         /\ Sorted(a.blocks) /\ Len(a.blocks) = Len(blocks)
         /\ a.reach \in Nat /\ a.reach <= Len(blocks) + 1
         /\ BlocksOf(a.blocks) =
              (BlocksOf(blocks) \ {TableBlock}) \cup {[base |-> a.base, size |-> table_size + 1]}
         /\ \A p \in Pages(a.base, table_size + 1) :
              p \in Page /\ p \notin Used(rest) /\ a.base <= p /\ p < a.base + table_size + 1
         /\ \A p : p \in Used(rest) <=> p \in Used(blocks) /\ p \notin Pages(table, table_size)
<1>1. /\ NPages \in Nat /\ Start \in Nat /\ Sorted(blocks) /\ Len(blocks) \in Nat
      /\ table_size \in Nat /\ Start + table_size + 1 < NPages
      /\ TableBlock \in BlocksOf(blocks) /\ PagesOf(TableBlock) = Pages(table, table_size)
  BY LiveFacts
<1>2. /\ Sorted(rest) /\ Len(rest) = Len(blocks) - 1 /\ Len(rest) \in Nat /\ Len(rest) > 0
      /\ BlocksOf(rest) = BlocksOf(blocks) \ {TableBlock}
  BY RestFacts
<1>3. PICK n \in Nat : n = table_size + 1 /\ n > 0 /\ Start + n < NPages
  BY <1>1
<1>4. cur_address_space \in Spaces
  BY DEF Live, VirtInv
<1>5. /\ a.blocks \in Seq(Block) /\ a.base \in Nat /\ Start <= a.base /\ a.base + n <= NPages
      /\ Sorted(a.blocks) /\ Len(a.blocks) = Len(rest) + 1
      /\ a.reach \in Nat /\ a.reach <= Len(rest) + 2
      /\ BlocksOf(a.blocks) = BlocksOf(rest) \cup {[base |-> a.base, size |-> n]}
      /\ \A b \in BlocksOf(rest) : EndOf(b) <= a.base \/ a.base + n <= b.base
  BY <1>2, <1>3, <1>4, AddFits
<1>6. ASSUME NEW p \in Pages(a.base, table_size + 1)
      PROVE  p \in Page /\ p \notin Used(rest) /\ a.base <= p /\ p < a.base + n
  <2>1. p \in Nat /\ a.base <= p /\ p < a.base + n /\ p \in Page
    BY <1>1, <1>3, <1>5 DEF Pages, Page
  <2>2. ASSUME NEW b \in BlocksOf(rest), p \in PagesOf(b) PROVE FALSE
    <3>1. b \in Block /\ b.base \in Nat /\ EndOf(b) \in Nat /\ b.base <= p /\ p < EndOf(b)
      BY <1>1, <1>2, <2>2, SortedApart, BlockNumbers, PageOfBlock
    <3> QED
      BY <1>3, <1>5, <2>1, <3>1
  <2> QED
    BY <2>1, <2>2, UsedIs
<1>7. \A p : p \in Used(rest) <=> p \in Used(blocks) /\ p \notin Pages(table, table_size)
  BY <1>1, <1>2, UsedIs, PagesApart
<1> QED
  BY <1>1, <1>2, <1>3, <1>5, <1>6, <1>7, SMTT(30)

(* What growing does to the mapping, when the table moves from the pages   *)
(* old to the pages new.                                                   *)
Moved(old, new) ==
  \E f \in FrameChoices(new) :
    LET mapped == [p \in Page |-> IF p \in new THEN f[p] ELSE pt[p]] IN
    /\ free' = (free \ {f[p] : p \in new}) \cup OldFrames(mapped, old, new)
    /\ pt' = [p \in Page |-> IF p \in old THEN None ELSE mapped[p]]

(* The table moves to a larger place.                                      *)
LEMMA GrowKeeps ==
  ASSUME Live, GrowTable, UNCHANGED cur_address_space PROVE VirtInv'
<1>1. PICK rest : rest = del_virt_block(blocks, table)
  OBVIOUS
<1>2. PICK a : a = add_virt_block(rest, table_size + 1)
  OBVIOUS
<1> DEFINE new == Pages(a.base, table_size + 1)
           old == Pages(table, table_size)
<1>3. PICK f \in FrameChoices(new) :
        LET mapped == [p \in Page |-> IF p \in new THEN f[p] ELSE pt[p]] IN
        /\ free' = (free \ {f[p] : p \in new}) \cup OldFrames(mapped, old, new)
        /\ pt' = [p \in Page |-> IF p \in old THEN None ELSE mapped[p]]
  <2>1. Moved(Pages(table, table_size),
              Pages(add_virt_block(del_virt_block(blocks, table), table_size + 1).base,
                    table_size + 1))
    BY Zenon DEF GrowTable, Moved
  <2>2. Moved(old, new)
    BY <1>1, <1>2, <2>1, Zenon
  <2> QED
    BY <2>2, Zenon DEF Moved
<1>4. /\ pc = "grow" /\ fault = None /\ ~NoSpace(a)
      /\ blocks' = a.blocks /\ table' = a.base /\ beyond' = Beyond(a)
      /\ table_size' = table_size + 1 /\ pc' = "place"
      /\ fault' = (IF old \cap new = {} THEN None ELSE "table lost")
      /\ UNCHANGED <<count, paddr>>
  BY <1>1, <1>2 DEF GrowTable
<1>5. /\ a.blocks \in Seq(Block) /\ a.base \in Nat /\ a.base + table_size + 1 <= NPages
      /\ Start <= a.base
      /\ Sorted(a.blocks) /\ Len(a.blocks) = Len(blocks)
      /\ a.reach \in Nat /\ a.reach <= Len(blocks) + 1
      /\ BlocksOf(a.blocks) =
           (BlocksOf(blocks) \ {TableBlock}) \cup {[base |-> a.base, size |-> table_size + 1]}
      /\ \A p \in new : p \in Page /\ p \notin Used(rest)
      /\ \A p : p \in Used(rest) <=> p \in Used(blocks) /\ p \notin old
  BY <1>1, <1>2, <1>4, GrowFacts
<1>6. /\ TypeOK /\ cur_address_space \in Spaces /\ Anchored /\ HasItself /\ Room /\ TableHoldsAll
  BY DEF Live, VirtInv
<1>7. /\ NPages \in Nat /\ Slots \in Nat /\ 3 < Slots /\ table_size \in Nat
      /\ Len(blocks) \in Nat /\ NPages > 0
  BY <1>6, Bounds, LiveFacts
<1>8. /\ \A p \in new : f[p] \in free
      /\ \A p, q \in new : f[p] = f[q] => p = q
  <2>1. a.base \in Int /\ a.base + (table_size + 1) - 1 \in Int
    BY <1>5, <1>7
  <2>2. f \in FrameChoices(a.base .. a.base + (table_size + 1) - 1)
    BY <1>3 DEF Pages
  <2> QED
    BY <2>1, <2>2, FramesChosen DEF Pages
<1>9. old = PagesOf(TableBlock) /\ old \subseteq Page /\ \A p \in old : pt[p] \in Frames
  BY <1>6, LiveFacts, PagesApart DEF HasItself
<1>10. Accounted(pt, free, Used(blocks)) /\ free \subseteq Frames
  BY LiveFacts DEF Accounted
<1> HIDE DEF new, old
<1> DEFINE mapped == [p \in Page |-> IF p \in new THEN f[p] ELSE pt[p]]
<1>11. /\ \A p \in Page : pt'[p] = IF p \in old THEN None ELSE IF p \in new THEN f[p] ELSE pt[p]
       /\ pt' = [p \in Page |-> IF p \in old THEN None
                                ELSE IF p \in new THEN f[p] ELSE pt[p]]
       /\ free' = (free \ {f[p] : p \in new}) \cup {mapped[p] : p \in old}
  BY <1>3 DEF OldFrames
<1>12. TypeOK'
  <2>1. \A i \in 1 .. Len(blocks') : blocks'[i] \in [base : Page, size : 1 .. NPages]
    BY <1>4, <1>5, TableSlots DEF Block
  <2>2. table' \in Page /\ table_size' \in 1 .. NPages
    <3>1. a.base \in Nat /\ a.base + table_size + 1 <= NPages
      BY <1>5
    <3>2. a.base \in 0 .. NPages - 1 /\ table_size + 1 \in 1 .. NPages
      BY <1>7, <3>1
    <3> QED
      BY <1>4, <3>2 DEF Page
  <2>3. pt' \in [Page -> Frames \cup {Fixed, None}]
    BY <1>6, <1>8, <1>10, <1>11 DEF TypeOK
  <2>4. free' \subseteq Frames
    BY <1>8, <1>9, <1>10, <1>11
  <2> QED
    BY <1>4, <1>6, <2>1, <2>2, <2>3, <2>4 DEF TypeOK
<1>13. CASE fault' = None
  <2>1. \A p \in new : p \notin old /\ p \notin Used(blocks)
    BY <1>4, <1>5, <1>13 DEF None
  <2>2. \A p : p \in Used(blocks') <=> (p \in Used(blocks) /\ p \notin old) \/ p \in new
    <3>1. PagesOf([base |-> a.base, size |-> table_size + 1]) = new
      BY DEF PagesOf, new
    <3>2. BlocksOf(rest) = BlocksOf(blocks) \ {TableBlock}
      BY <1>1, RestFacts
    <3> QED
      BY <1>4, <1>5, <3>1, <3>2, UsedIs
  <2>3. old \subseteq Used(blocks)
    BY <1>9, LiveFacts, UsedIs
  <2>4. \A x : x \in free' <=> \/ x \in free /\ \A p \in new : f[p] # x
                               \/ x \in Frames /\ \E p \in old \cap Page : pt[p] = x
    BY <1>9, <1>11, <2>1
  <2>5. Remapped(pt, free, Used(blocks), old, new, f, pt', free', Used(blocks'))
    BY <1>5, <1>8, <1>11, <2>1, <2>2, <2>3, <2>4 DEF Remapped
  <2>6. Accounted(pt', free', Used(blocks'))
    BY <1>10, <2>5, Remap
  <2>7. Anchored'
    <3> SUFFICES ASSUME NEW x \in Anchors
                 PROVE  pt'[x] = Fixed /\ \E b \in BlocksOf(blocks') : b.base = x
      BY DEF Anchored, Anchors, BlocksOf
    <3>1. PICK b \in BlocksOf(blocks) : b.base = x /\ pt[x] = Fixed
      BY <1>6 DEF Anchored
    <3>2. x \in Page /\ x \in Used(blocks) /\ b # TableBlock
      BY <3>1, LiveFacts, PagesApart, UsedIs
    <3>3. x \notin old /\ x \notin new
      BY <1>9, <2>1, <3>1, <3>2, FrameAssumption
    <3> QED
      BY <1>4, <1>5, <1>11, <3>1, <3>2, <3>3
  <2>8. HasItself'
    <3>1. TableBlock' = [base |-> a.base, size |-> table_size + 1]
      BY <1>4 DEF TableBlock
    <3>2. TableBlock' \in BlocksOf(blocks')
      BY <1>4, <1>5, <3>1
    <3>3. PagesOf(TableBlock)' = new
      BY <3>1 DEF PagesOf, Pages, new
    <3>4. \A p \in new : pt'[p] \in Frames
      BY <1>5, <1>8, <1>10, <1>11, <2>1
    <3> QED
      BY <3>2, <3>3, <3>4 DEF HasItself, BlocksOf
  <2>9. TableHoldsAll' /\ Room'
    <3>1. Slots * table_size \in Nat /\ Len(blocks) <= Slots * table_size
          /\ Slots * (table_size + 1) = Slots * table_size + Slots
      <4>1. Slots * table_size \in Nat /\ Slots * (table_size + 1) = Slots * table_size + Slots
        BY <1>7
      <4>2. Len(blocks) <= Slots * table_size
        BY <1>4, <1>6 DEF TableHoldsAll
      <4> QED
        BY <4>1, <4>2
    <3>2. count > 0
      BY <1>4, <1>6 DEF Room
    <3> QED
      <4>1. /\ Len(blocks) + 1 <= Slots * (table_size + 1)
            /\ Len(blocks) <= Slots * (table_size + 1)
            /\ Len(blocks) + 1 <= Slots * (table_size + 1) + 1
        BY <1>7, <3>1
      <4>2. Beyond(a) <= 1
        BY <1>5, <1>7, <3>1 DEF Beyond
      <4>3. /\ Len(blocks') = Len(blocks) /\ table_size' = table_size + 1
            /\ beyond' = Beyond(a)
            /\ pc' = "place" /\ count' = count
        BY <1>4, <1>5
      <4> QED
        BY <3>2, <4>1, <4>2, <4>3 DEF TableHoldsAll, Room
  <2>10. Sorted(blocks)' /\ FramesAccounted'
    BY <1>4, <1>5, <1>12, <1>13, <2>6, SortedNext, AccountedNext
  <2> QED
    BY <1>6, <1>12, <2>7, <2>8, <2>9, <2>10 DEF VirtInv
<1>14. CASE fault' # None
  BY <1>6, <1>12, <1>14 DEF VirtInv
<1> QED
  BY <1>13, <1>14

(* A block leaves the table, and its pages are unmapped.                   *)
LEMMA TakeAwayKeeps ==
  ASSUME Live, pc = "idle", NEW b \in BlocksOf(blocks), b # TableBlock, b.base \notin Anchors,
         \A x \in Anchors : x \notin PagesOf(b),
         blocks' = del_virt_block(blocks, b.base),
         pt' = [p \in Page |-> IF p \in PagesOf(b) THEN None ELSE pt[p]],
         \A x : x \in free' <=> x \in free \/ (x \in Frames /\ \E p \in PagesOf(b) : pt[p] = x),
         UNCHANGED <<cur_address_space, table, table_size, pc, count, paddr, beyond, fault>>
  PROVE  VirtInv'
<1>1. /\ TypeOK /\ cur_address_space \in Spaces /\ Anchored /\ HasItself /\ Room /\ TableHoldsAll
      /\ fault = None
  BY DEF Live, VirtInv
<1>2. /\ NPages \in Nat /\ Sorted(blocks) /\ Len(blocks) \in Nat
      /\ Accounted(pt, free, Used(blocks)) /\ TableBlock \in BlocksOf(blocks)
  BY LiveFacts
<1>3. /\ Sorted(blocks') /\ Len(blocks') = Len(blocks) - 1
      /\ BlocksOf(blocks') = BlocksOf(blocks) \ {b}
  BY <1>2, DelRemoves
<1>4. PagesOf(b) \subseteq Page /\ PagesOf(b) \subseteq Used(blocks)
  BY <1>2, PagesApart, UsedIs
<1>5. \A p : p \in Used(blocks') <=> p \in Used(blocks) /\ p \notin PagesOf(b)
  BY <1>2, <1>3, UsedIs, PagesApart
<1>6. Accounted(pt', free', Used(blocks'))
  <2>1. pt' = [p \in Page |-> IF p \in PagesOf(b) THEN None
                              ELSE IF p \in {} THEN pt[p] ELSE pt[p]]
    OBVIOUS
  <2>2. \A x : x \in free' <=> \/ x \in free /\ \A p \in {} : pt[p] # x
                               \/ x \in Frames /\ \E p \in PagesOf(b) \cap Page : pt[p] = x
    BY <1>4
  <2>3. Remapped(pt, free, Used(blocks), PagesOf(b), {}, pt, pt', free', Used(blocks'))
    BY <1>4, <1>5, <2>1, <2>2 DEF Remapped
  <2> QED
    BY <1>2, <2>3, Remap
<1>7. TypeOK'
  <2>1. \A i \in 1 .. Len(blocks') : blocks'[i] \in [base : Page, size : 1 .. NPages]
    BY <1>3, TableSlots DEF Block, Sorted
  <2> QED
    BY <1>1, <1>6, <2>1 DEF TypeOK, Accounted
<1>8. Anchored'
  <2> SUFFICES ASSUME NEW x \in Anchors
               PROVE  pt'[x] = Fixed /\ \E c \in BlocksOf(blocks') : c.base = x
    BY DEF Anchored, Anchors, BlocksOf
  <2>1. PICK c \in BlocksOf(blocks) : c.base = x /\ pt[x] = Fixed
    BY <1>1 DEF Anchored
  <2>2. x \in Page
    BY <1>2, <2>1, PagesApart
  <2> QED
    BY <1>3, <2>1, <2>2
<1>9. HasItself'
  <2>1. TableBlock' = TableBlock /\ TableBlock \in BlocksOf(blocks')
    BY <1>2, <1>3 DEF TableBlock
  <2>2. ASSUME NEW p \in PagesOf(TableBlock) PROVE pt'[p] \in Frames
    <3>1. p \in Page /\ p \notin PagesOf(b)
      BY <1>2, PagesApart
    <3> QED
      BY <1>1, <3>1 DEF HasItself
  <2> QED
    BY <2>1, <2>2 DEF HasItself, BlocksOf, PagesOf, Pages
<1>10. TableHoldsAll' /\ Room'
  <2>1. Slots * table_size \in Nat
    BY <1>1, Bounds, LiveFacts, SMTT(30)
  <2> QED
    BY <1>1, <1>2, <1>3, <2>1 DEF TableHoldsAll, Room
<1>11. Sorted(blocks)' /\ FramesAccounted'
  BY <1>1, <1>3, <1>6, <1>7, SortedNext, AccountedNext
<1> QED
  BY <1>1, <1>7, <1>8, <1>9, <1>10, <1>11 DEF VirtInv

(* free_virt_pages gives back a block of the allocator's frames.           *)
LEMMA FreeKeeps ==
  ASSUME Live, NEW i \in 1 .. Len(blocks), FreeBlock(blocks[i]), UNCHANGED cur_address_space
  PROVE  VirtInv'
<1>1. PICK b \in BlocksOf(blocks) : b = blocks[i]
  BY DEF BlocksOf
<1>2. /\ pc = "idle" /\ Owned(b) /\ blocks' = del_virt_block(blocks, b.base)
      /\ free' = free \cup {pt[p] : p \in PagesOf(b)}
      /\ pt' = [p \in Page |-> IF p \in PagesOf(b) THEN None ELSE pt[p]]
      /\ UNCHANGED <<table, table_size, pc, count, paddr, beyond, fault>>
  BY <1>1 DEF FreeBlock
<1>3. \A p \in PagesOf(b) : pt[p] \in Frames
  BY <1>2 DEF Owned
<1>4. \A x \in Anchors : pt[x] = Fixed /\ x \notin PagesOf(b)
  BY <1>3, FrameAssumption DEF Live, VirtInv, Anchored
<1>5. b # TableBlock /\ b.base \notin Anchors
  <2>1. b.base \in PagesOf(b)
    BY LiveFacts, PagesApart
  <2> QED
    BY <1>2, <1>4, <2>1 DEF Owned, TableBlock
<1>6. \A x : x \in free' <=> x \in free \/ (x \in Frames /\ \E p \in PagesOf(b) : pt[p] = x)
  BY <1>2, <1>3
<1> QED
  BY <1>2, <1>4, <1>5, <1>6, TakeAwayKeeps

(* A page that was mapped to a frame of its own is given up.               *)
LEMMA DropKeeps ==
  ASSUME Live, NEW i \in 1 .. Len(blocks), DropBlock(blocks[i]), UNCHANGED cur_address_space
  PROVE  VirtInv'
<1>1. PICK b \in BlocksOf(blocks) : b = blocks[i]
  BY DEF BlocksOf
<1>2. /\ pc = "idle" /\ b.size = 1 /\ b.base \notin Anchors /\ pt[b.base] = Fixed
      /\ blocks' = del_virt_block(blocks, b.base)
      /\ pt' = [pt EXCEPT ![b.base] = None] /\ free' = free
      /\ UNCHANGED <<table, table_size, pc, count, paddr, beyond, fault>>
  BY <1>1 DEF DropBlock, Anchors
<1>3. PagesOf(b) = {b.base}
  <2>1. b.base \in Nat
    BY LiveFacts, SortedApart, BlockNumbers
  <2>2. b.base .. b.base + 1 - 1 = {b.base}
    BY <2>1
  <2> QED
    BY <1>2, <2>2 DEF PagesOf, Pages
<1>4. b # TableBlock
  <2>1. \A p \in PagesOf(TableBlock) : pt[p] \in Frames
    BY DEF Live, VirtInv, HasItself
  <2> QED
    BY <1>2, <1>3, <2>1, FrameAssumption
<1>5. pt' = [p \in Page |-> IF p \in PagesOf(b) THEN None ELSE pt[p]]
  <2>1. pt \in [Page -> Frames \cup {Fixed, None}]
    BY DEF Live, VirtInv, TypeOK
  <2> QED
    BY <1>2, <1>3, <2>1
<1>6. \A x : x \in free' <=> x \in free \/ (x \in Frames /\ \E p \in PagesOf(b) : pt[p] = x)
  BY <1>2, <1>3, FrameAssumption
<1>7. \A x \in Anchors : x \notin PagesOf(b)
  BY <1>2, <1>3
<1> QED
  BY <1>2, <1>4, <1>5, <1>6, <1>7, TakeAwayKeeps

(* The table shrinks, which is a fault; its types hold all the same.       *)
LEMMA ShrinkKeeps ==
  ASSUME Live, NEW i \in 1 .. Len(blocks), FreeShrinks(blocks[i]), UNCHANGED cur_address_space
  PROVE  VirtInv'
<1>1. PICK b \in BlocksOf(blocks) : b = blocks[i]
  BY DEF BlocksOf
<1>2. PICK rest : rest = del_virt_block(blocks, b.base)
  OBVIOUS
<1>3. PICK small : small = del_virt_block(rest, table)
  OBVIOUS
<1>4. PICK a : a = add_virt_block(small, table_size - 1)
  OBVIOUS
<1> DEFINE unmapped == [p \in Page |-> IF p \in PagesOf(b) THEN None ELSE pt[p]]
           wrong == (table + Stride * (table_size - 1)) % NPages
<1>5. /\ pc = "idle" /\ Owned(b) /\ TableLoose(rest)
      /\ blocks' = a.blocks /\ table_size' = table_size - 1
      /\ free' = free \cup {pt[p] : p \in PagesOf(b)} \cup ({unmapped[wrong]} \cap Frames)
      /\ pt' = [unmapped EXCEPT ![wrong] = None] /\ fault' = "shrunk"
      /\ UNCHANGED <<table, pc, count, paddr>>
  BY <1>1, <1>2, <1>3, <1>4 DEF FreeShrinks
<1>6. /\ TypeOK /\ cur_address_space \in Spaces /\ Anchored
  BY DEF Live, VirtInv
<1>7. /\ NPages \in Nat /\ 0 < NPages /\ Slots \in Nat /\ 3 < Slots /\ Start \in Nat
      /\ table \in Nat /\ table_size \in Nat /\ 0 < table_size
      /\ Start + table_size + 1 < NPages /\ Sorted(blocks) /\ Stride \in Nat
  BY <1>6, Bounds, LiveFacts
<1>8. Sorted(rest) /\ Len(rest) = Len(blocks) - 1 /\ BlocksOf(rest) = BlocksOf(blocks) \ {b}
  BY <1>2, <1>7, DelRemoves
<1>9. TableBlock \in BlocksOf(rest) /\ TableBlock.base = table
  BY <1>5, <1>8, LiveFacts DEF Owned, TableBlock
<1>10. /\ Sorted(small) /\ Len(small) = Len(rest) - 1
       /\ BlocksOf(small) = BlocksOf(rest) \ {TableBlock}
  BY <1>3, <1>7, <1>8, <1>9, DelRemoves
<1>11. Len(small) \in Nat /\ Len(small) > 0
  <2>1. Len(small) \in Nat
    BY <1>10, TableSlots DEF Sorted
  <2>2. PICK c \in BlocksOf(blocks) : c.base = KernelBase /\ pt[KernelBase] = Fixed
    BY <1>6 DEF Anchored, Anchors
  <2>3. c # TableBlock /\ c # b
    <3>1. c # TableBlock
      BY <2>2, LiveFacts DEF Anchors
    <3>2. KernelBase \in PagesOf(c)
      BY <1>7, <2>2, PagesApart
    <3> QED
      BY <1>5, <2>2, <3>1, <3>2, FrameAssumption DEF Owned
  <2>4. c \in BlocksOf(small)
    BY <1>8, <1>10, <2>3
  <2> QED
    BY <2>1, <2>4 DEF BlocksOf
<1>12. table_size - 1 \in Nat /\ table_size - 1 > 0 /\ Start + (table_size - 1) < NPages
  <2>1. Len(rest) = Len(small) + 1 /\ Len(rest) \in Nat
    BY <1>8, <1>10, <1>11, TableSlots DEF Sorted
  <2>2. table_size # 1
    <3> SUFFICES ASSUME table_size = 1 PROVE FALSE
      OBVIOUS
    <3>1. Slots * 1 - Len(rest) >= Slots
      BY <1>5 DEF TableLoose
    <3> QED
      BY <1>7, <1>11, <2>1, <3>1
  <2> QED
    BY <1>7, <2>2
<1>13. a.blocks \in Seq(Block)
  <2>1. PICK n \in Nat : n = table_size - 1
    BY <1>12
  <2> QED
    BY <1>4, <1>6, <1>10, <1>11, <1>12, <2>1, AddFits
<1>14. wrong \in Page
  <2>1. table + Stride * (table_size - 1) \in Nat
    BY <1>7, <1>12
  <2>2. \A z \in Nat : z % NPages \in 0 .. NPages - 1
    BY <1>7
  <2> QED
    BY <2>1, <2>2 DEF Page
<1> HIDE DEF wrong
<1>15. TypeOK'
  <2>1. \A j \in 1 .. Len(blocks') : blocks'[j] \in [base : Page, size : 1 .. NPages]
    BY <1>5, <1>13, TableSlots DEF Block
  <2>2. table_size' \in 1 .. NPages
    BY <1>5, <1>7, <1>12
  <2>3. pt' \in [Page -> Frames \cup {Fixed, None}] /\ free' \subseteq Frames
    BY <1>5, <1>6, <1>14 DEF TypeOK, Owned
  <2> QED
    BY <1>5, <1>6, <2>1, <2>2, <2>3 DEF TypeOK
<1> QED
  BY <1>5, <1>6, <1>15 DEF VirtInv, None

-----------------------------------------------------------------------------
(* The invariant holds                                                     *)

(* The kernel's image, the table and the window are the first blocks.      *)
LEMMA VirtStart == Init => VirtInv
<1> SUFFICES ASSUME Init PROVE VirtInv
  OBVIOUS
<1> DEFINE b1 == [base |-> KernelBase, size |-> KernelSize]
           b2 == [base |-> KernelBase + KernelSize, size |-> 1]
           b3 == [base |-> TempPage, size |-> 1]
<1>1. /\ cur_address_space \in Spaces /\ blocks = <<b1, b2, b3>>
      /\ table = KernelBase + KernelSize /\ table_size = 1
      /\ pc = "idle" /\ count = 0 /\ paddr = None /\ beyond = 3 - Slots /\ fault = None
  BY DEF Init
<1>2. PICK f \in Frames :
        /\ pt = [p \in Page |-> IF p = table THEN f
                                ELSE IF p \in Used(blocks) THEN Fixed ELSE None]
        /\ free = Frames \ {f}
  BY DEF Init
<1>3. /\ NPages \in Nat /\ 1 < NPages /\ Slots \in Nat /\ 3 < Slots
      /\ KernelBase \in Nat /\ KernelSize \in Nat \ {0} /\ TempPage \in Nat
      /\ TempPage < NPages /\ KernelBase + KernelSize < TempPage
      /\ Start \in Nat /\ Start <= KernelBase /\ MaxCount \in Nat
  BY <1>1, Bounds
<1>4. b1 \in Block /\ b2 \in Block /\ b3 \in Block
  BY <1>3 DEF Block, Page
<1>5. /\ b1.base = KernelBase /\ EndOf(b1) = KernelBase + KernelSize
      /\ b2.base = KernelBase + KernelSize /\ EndOf(b2) = KernelBase + KernelSize + 1
      /\ b3.base = TempPage /\ EndOf(b3) = TempPage + 1
  BY DEF EndOf
<1> HIDE DEF b1, b2, b3
<1>6. /\ blocks \in Seq(Block) /\ Len(blocks) = 3
      /\ blocks[1] = b1 /\ blocks[2] = b2 /\ blocks[3] = b3
  BY <1>1, <1>4
<1>7. 1 .. Len(blocks) = {1, 2, 3}
  BY <1>6
<1>8. BlocksOf(blocks) = {b1, b2, b3}
  BY <1>6, <1>7 DEF BlocksOf
<1>9. Sorted(blocks)
  <2>1. \A i \in {1, 2, 3} : Start <= blocks[i].base /\ EndOf(blocks[i]) <= NPages
    BY <1>3, <1>5, <1>6
  <2>2. \A i, j \in {1, 2, 3} : i < j => EndOf(blocks[i]) <= blocks[j].base
    BY <1>3, <1>5, <1>6
  <2> QED
    BY <1>6, <1>7, <2>1, <2>2 DEF Sorted
<1>10. TableBlock = b2 /\ table \in Page /\ PagesOf(b2) = {table}
  <2>1. table .. table + 1 - 1 = {table} /\ table \in Page
    BY <1>1, <1>3 DEF Page
  <2> QED
    BY <1>1, <2>1 DEF TableBlock, b2, PagesOf, Pages
<1>11. /\ table \in Used(blocks) /\ Used(blocks) \subseteq Page
       /\ \A x \in Anchors : x \in Used(blocks) /\ x # table
  <2>1. \A c \in {b1, b2, b3} : c.base \in Used(blocks)
    BY <1>3, <1>8, <1>9, PagesApart, UsedIs
  <2>2. Used(blocks) \subseteq Page
    BY <1>3, <1>8, <1>9, PagesApart, UsedIs
  <2>3. KernelBase # table /\ TempPage # table
    BY <1>1, <1>3
  <2> QED
    BY <1>1, <1>5, <2>1, <2>2, <2>3 DEF Anchors
<1>12. Accounted(pt, free, Used(blocks))
  BY <1>2, <1>10, <1>11, FrameAssumption DEF Accounted
<1>13. TypeOK
  <2>1. \A i \in 1 .. Len(blocks) : blocks[i] \in [base : Page, size : 1 .. NPages]
    BY <1>6, TableSlots DEF Block
  <2> QED
    BY <1>1, <1>3, <1>10, <1>12, <2>1 DEF TypeOK, Accounted
<1>14. Anchored
  <2>1. \A x \in Anchors : \E b \in BlocksOf(blocks) : b.base = x
    BY <1>5, <1>8 DEF Anchors
  <2>2. \A x \in Anchors : pt[x] = Fixed
    BY <1>2, <1>11
  <2> QED
    BY <2>1, <2>2 DEF Anchored
<1>15. HasItself
  BY <1>2, <1>8, <1>10 DEF HasItself
<1>16. Room /\ TableHoldsAll
  BY <1>1, <1>3, <1>6 DEF Room, TableHoldsAll
<1>17. FramesAccounted
  BY <1>1, <1>12, <1>13, AccountedIs
<1> QED
  BY <1>1, <1>9, <1>13, <1>14, <1>15, <1>16, <1>17 DEF VirtInv

(* Every step preserves the invariant.                                     *)
LEMMA VirtStep == VirtInv /\ [Next]_vars => VirtInv'
<1> SUFFICES ASSUME VirtInv, [Next]_vars PROVE VirtInv'
  OBVIOUS
<1>1. CASE UNCHANGED vars
  <2>1. UNCHANGED <<cur_address_space, blocks, table, table_size, pt, free, pc, count, paddr,
                    beyond, fault>>
    BY <1>1 DEF vars, descriptor
  <2>2. TypeOK' /\ cur_address_space' \in Spaces
    BY <2>1 DEF VirtInv, TypeOK
  <2>3. CASE fault = None
    <3>1. Live
      BY <2>3 DEF Live
    <3>2. Sorted(blocks)'
      BY <2>1, <3>1, LiveFacts, SortedNext
    <3>3. Anchored' /\ HasItself' /\ TableHoldsAll' /\ Room'
      BY <2>1, <2>3 DEF VirtInv, Anchored, Anchors, HasItself, TableBlock, BlocksOf, PagesOf,
         Pages, TableHoldsAll, Room
    <3>4. FramesAccounted'
      BY <2>1, <2>2, <2>3, <3>1, LiveFacts, AccountedNext
    <3> QED
      BY <2>2, <3>2, <3>3, <3>4 DEF VirtInv
  <2>4. CASE fault # None
    BY <2>1, <2>2, <2>4 DEF VirtInv
  <2> QED
    BY <2>3, <2>4
<1>2. CASE Next
  <2>1. Step /\ UNCHANGED cur_address_space
    BY <1>2 DEF Next
  <2>2. fault = None
    BY <2>1 DEF Step, AllocCall, GrowTable, PlaceBlock, AllocFaults, free_virt_pages, FreeBlock,
       FreeShrinks, DropBlock
  <2>3. Live
    BY <2>2 DEF Live
  <2>4. ASSUME NEW n \in 1 .. MaxCount, AllocCall(n, None) PROVE VirtInv'
    BY <2>1, <2>3, <2>4, AllocCallKeeps
  <2>5. CASE AllocCall(1, Fixed)
    <3>1. 1 \in 1 .. MaxCount
      BY SpaceAssumption
    <3> QED
      <4>1. PICK n \in 1 .. MaxCount : n = 1
        BY <3>1
      <4> QED
        BY <2>1, <2>3, <2>5, <4>1, AllocCallKeeps
  <2>6. CASE GrowTable
    BY <2>1, <2>3, <2>6, GrowKeeps
  <2>7. CASE PlaceBlock
    BY <2>1, <2>3, <2>7, PlaceKeeps
  <2>8. CASE AllocFaults
    BY <2>1, <2>3, <2>8, FaultKeeps
  <2>9. ASSUME NEW i \in 1 .. Len(blocks), free_virt_pages(blocks[i]) \/ DropBlock(blocks[i])
        PROVE  VirtInv'
    BY <2>1, <2>3, <2>9, FreeKeeps, ShrinkKeeps, DropKeeps DEF free_virt_pages
  <2> QED
    BY <2>1, <2>4, <2>5, <2>6, <2>7, <2>8, <2>9 DEF Step
<1> QED
  BY <1>1, <1>2

(* The invariant holds in every state.                                     *)
LEMMA VirtInvariant == Spec => []VirtInv
BY VirtStart, VirtStep, PTL DEF Spec

-----------------------------------------------------------------------------
(* Theorems                                                                *)

(* Until a fault, the blocks are sorted, apart from each other and inside  *)
(* the space, and one of them is the table's own, for every size of the    *)
(* space (memory_manager.c:299-360 and 365-384).                           *)
THEOREM VirtInOrder == Spec => []InOrder
<1>1. ASSUME VirtInv PROVE InOrder
  <2> SUFFICES ASSUME fault = None
               PROVE  /\ \A i \in 1 .. Len(blocks) :
                           /\ Start <= blocks[i].base
                           /\ blocks[i].base + blocks[i].size <= NPages
                           /\ i < Len(blocks) =>
                                blocks[i].base + blocks[i].size <= blocks[i + 1].base
                      /\ \E i \in 1 .. Len(blocks) :
                           blocks[i] = [base |-> table, size |-> table_size]
    BY <1>1 DEF InOrder, VirtInv
  <2>1. Sorted(blocks) /\ TableBlock \in BlocksOf(blocks) /\ Len(blocks) \in Nat
    BY <1>1, LiveFacts DEF Live
  <2>2. ASSUME NEW i \in 1 .. Len(blocks), i < Len(blocks)
        PROVE  EndOf(blocks[i]) <= blocks[i + 1].base
    <3>1. i + 1 \in 1 .. Len(blocks) /\ i < i + 1
      BY <2>1, <2>2
    <3> QED
      BY <2>1, <3>1 DEF Sorted
  <2> QED
    BY <2>1, <2>2 DEF Sorted, EndOf, BlocksOf, TableBlock
<1> QED
  BY <1>1, VirtInvariant, PTL

(* Until a fault, growing the table, allocating and freeing neither lose a *)
(* frame nor map one twice (line 373-382, 389-395 and 408-413).            *)
THEOREM VirtFramesAccounted == Spec => []FramesAccounted
<1>1. VirtInv => FramesAccounted
  BY DEF VirtInv, FramesAccounted
<1> QED
  BY <1>1, VirtInvariant, PTL

(* Until a fault, the table holds all its entries, and an insertion writes *)
(* at most one slot behind the table it is made in (line 323 and 365-372). *)
THEOREM VirtTableHoldsAll == Spec => []TableHoldsAll
<1>1. VirtInv => TableHoldsAll
  BY DEF VirtInv, TableHoldsAll
<1> QED
  BY <1>1, VirtInvariant, PTL

(* A refused request overlaps the blocks wherever it might lie.            *)
LEMMA NoGap ==
  ASSUME Live, pc \in {"grow", "place"},
         NEW bs, bs = IF pc = "grow" THEN del_virt_block(blocks, table) ELSE blocks,
         NEW n, n = IF pc = "grow" THEN table_size + 1 ELSE count,
         NoSpace(add_virt_block(bs, n)), NEW b \in Start .. Limit - n
  PROVE  Pages(b, n) \cap Used(bs) # {}
<1>1. /\ Sorted(bs) /\ Len(bs) > 0 /\ n \in Nat /\ n > 0 /\ Start + n < NPages
      /\ cur_address_space \in Spaces /\ Start \in Nat /\ NPages \in Nat
  BY RequestFacts
<1>2. Limit \in Nat
  BY <1>1, Bounds DEF Limit
<1>3. b \in Nat /\ Start <= b /\ b + n <= Limit
  BY <1>1, <1>2
<1>4. PICK c \in BlocksOf(bs) : ~(EndOf(c) <= b) /\ ~(b + n <= c.base)
  BY <1>1, <1>3, AddRefuses
<1>5. c \in Block /\ c.base \in Nat /\ EndOf(c) \in Nat /\ c.base < EndOf(c)
  BY <1>1, SortedApart, BlockNumbers
<1> DEFINE p == IF b <= c.base THEN c.base ELSE b
<1>6. p \in Nat /\ c.base <= p /\ p < EndOf(c) /\ p \in Pages(b, n)
  BY <1>1, <1>3, <1>4, <1>5, SMTT(30) DEF Pages
<1>7. p \in Used(bs)
  BY <1>1, <1>5, <1>6, PageOfBlock, UsedIs
<1> QED
  BY <1>6, <1>7

(* A run longer than another one that it meets takes in a page next to it. *)
LEMMA TakesNeighbour ==
  ASSUME NEW t \in Nat, NEW s \in Nat, 0 < s, NEW b \in Nat,
         Pages(t, s) \cap Pages(b, s + 1) # {}
  PROVE  /\ t - 1 \in Pages(b, s + 1) \/ t + s \in Pages(b, s + 1)
         /\ t - 1 \notin Pages(t, s) /\ t + s \notin Pages(t, s)
<1>1. PICK p : p \in Pages(t, s) /\ p \in Pages(b, s + 1)
  OBVIOUS
<1>2. p \in Int /\ t <= p /\ p < t + s /\ b <= p /\ p <= b + s
  BY <1>1 DEF Pages
<1> QED
  BY <1>2 DEF Pages

(* A request is refused, or put where its end wraps, only when no gap of   *)
(* the space has its size, for every layout of the blocks (line 316-341).  *)
THEOREM VirtFullMeansFull == Spec => FullMeansFull
<1> DEFINE A == fault' \in {"no space", "wrapped"} =>
                  LET bs == IF pc = "grow" THEN del_virt_block(blocks, table) ELSE blocks
                      n == IF pc = "grow" THEN table_size + 1 ELSE count IN
                  \A b \in Start .. Limit - n : Pages(b, n) \cap Used(bs) # {}
<1>1. ASSUME VirtInv, [Next]_vars PROVE [A]_vars
  <2> SUFFICES ASSUME Next, fault' \in {"no space", "wrapped"} PROVE A
    BY <1>1
  <2>1. PICK bs : bs = IF pc = "grow" THEN del_virt_block(blocks, table) ELSE blocks
    OBVIOUS
  <2>2. PICK n : n = IF pc = "grow" THEN table_size + 1 ELSE count
    OBVIOUS
  <2>3. AllocFaults
    BY DEF Next, Step, AllocCall, GrowTable, PlaceBlock, free_virt_pages, FreeBlock,
       FreeShrinks, DropBlock, None
  <2>4. pc \in {"grow", "place"} /\ fault = None /\ NoSpace(add_virt_block(bs, n))
    BY <2>1, <2>2, <2>3 DEF AllocFaults
  <2>5. Live
    BY <1>1, <2>4 DEF Live
  <2>6. \A b \in Start .. Limit - n : Pages(b, n) \cap Used(bs) # {}
    BY <2>1, <2>2, <2>4, <2>5, NoGap
  <2> QED
    BY <2>1, <2>2, <2>6
<1>2. FullMeansFull <=> [][A]_vars
  BY DEF FullMeansFull
<1> QED
  BY <1>1, <1>2, VirtInvariant, PTL DEF Spec

(* The table gets lost in its own growth only when a page next to it was   *)
(* free (line 368-383).                                                    *)
THEOREM VirtLostOnlyBesideGap == Spec => LostOnlyBesideGap
<1> DEFINE A == fault' = "table lost" =>
                  {table - 1, table + table_size} \ Used(blocks) # {}
<1>1. ASSUME VirtInv, [Next]_vars PROVE [A]_vars
  <2> SUFFICES ASSUME Next, fault' = "table lost",
                      table - 1 \in Used(blocks), table + table_size \in Used(blocks)
               PROVE  FALSE
    BY <1>1
  <2>1. GrowTable
    BY DEF Next, Step, AllocCall, AllocFaults, PlaceBlock, free_virt_pages, FreeBlock,
       FreeShrinks, DropBlock, None
  <2>2. PICK rest : rest = del_virt_block(blocks, table)
    OBVIOUS
  <2>3. PICK a : a = add_virt_block(rest, table_size + 1)
    OBVIOUS
  <2>4. /\ fault = None /\ ~NoSpace(a)
        /\ Pages(table, table_size) \cap Pages(a.base, table_size + 1) # {}
    BY <2>1, <2>2, <2>3 DEF GrowTable, None
  <2>5. Live
    BY <1>1, <2>4 DEF Live
  <2>6. /\ a.base \in Nat
        /\ \A p \in Pages(a.base, table_size + 1) : p \notin Used(rest)
        /\ \A p : p \in Used(rest) <=> p \in Used(blocks) /\ p \notin Pages(table, table_size)
    BY <2>2, <2>3, <2>4, <2>5, GrowFacts
  <2>7. table \in Nat /\ table_size \in Nat /\ 0 < table_size
    BY <2>5, LiveFacts
  <2>8. /\ \/ table - 1 \in Pages(a.base, table_size + 1)
           \/ table + table_size \in Pages(a.base, table_size + 1)
        /\ table - 1 \notin Pages(table, table_size)
        /\ table + table_size \notin Pages(table, table_size)
    BY <2>4, <2>6, <2>7, TakesNeighbour
  <2> QED
    BY <2>6, <2>8
<1>2. LostOnlyBesideGap <=> [][A]_vars
  BY DEF LostOnlyBesideGap
<1> QED
  BY <1>1, <1>2, VirtInvariant, PTL DEF Spec

=============================================================================
