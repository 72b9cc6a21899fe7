----------------------------- MODULE HeapProofs -----------------------------
(* Proofs about the kernel heap, of one space and of both, for every heap  *)
(* size and table page size.                                               *)
EXTENDS AddressSpaces, SequenceTheorems, WellFoundedInduction, TLAPS

(* The table read as a function of its slots.                              *)
LEMMA TableFacts ==
  ASSUME TypeOK
  PROVE  /\ Len(blocks) \in Nat
         /\ \A i \in 1 .. Len(blocks) :
              /\ blocks[i] \in Block
              /\ blocks[i].base \in Nat /\ blocks[i].size \in Nat \ {0}
              /\ End(blocks[i]) \in Nat /\ blocks[i].base < End(blocks[i])
         /\ blocks # <<>> => Len(blocks) > 0
<1>1. blocks \in Seq(Block)
  BY DEF TypeOK
<1>2. Len(blocks) \in Nat /\ \A i \in 1 .. Len(blocks) : blocks[i] \in Block
  BY <1>1, LenProperties, ElementOfSeq
<1>3. blocks # <<>> => Len(blocks) > 0
  BY <1>1, EmptySeq
<1>4. \A b \in Block : b.base \in Nat /\ b.size \in Nat \ {0} /\ End(b) \in Nat /\ b.base < End(b)
  BY HeapSizeAssumption DEF Block, Request, End
<1> QED
  BY <1>2, <1>3, <1>4

(* A table that grows when it is full has room for one entry more.         *)
LEMMA RoomForOne ==
  ASSUME TypeOK, Len(blocks) <= table_size * SlotsPerPage, TableGrows
  PROVE  /\ table_size' \in Nat \ {0}
         /\ Len(blocks) + 1 <= table_size' * SlotsPerPage
<1>1. Len(blocks) \in Nat /\ table_size \in Nat \ {0} /\ SlotsPerPage \in Nat \ {0}
  BY TableFacts, SlotsAssumption DEF TypeOK
<1>2. CASE TableFull
  <2>1. table_size' = table_size + 1
    BY <1>2 DEF TableGrows
  <2>2. (table_size + 1) * SlotsPerPage = table_size * SlotsPerPage + SlotsPerPage
    BY <1>1
  <2>3. table_size * SlotsPerPage \in Nat
    BY <1>1
  <2> QED
    BY <1>1, <2>1, <2>2, <2>3
<1>3. CASE ~TableFull
  <2>1. table_size' = table_size
    BY <1>3 DEF TableGrows
  <2>2. table_size * SlotsPerPage \in Nat
    BY <1>1
  <2> QED
    BY <1>1, <1>3, <2>1, <2>2 DEF TableFull
<1> QED
  BY <1>2, <1>3

(* The empty heap satisfies the invariant.                                 *)
LEMMA InvInit == Init => IInv
<1> SUFFICES ASSUME Init PROVE IInv
  OBVIOUS
<1>1. blocks = <<>> /\ Len(blocks) = 0 /\ blocks \in Seq(Block) /\ held = {}
  BY EmptySeq DEF Init
<1>2. table_size * SlotsPerPage \in Nat
  BY SlotsAssumption DEF Init
<1> QED
  BY <1>1, <1>2 DEF Init, IInv, TypeOK, NoHoles, InOrder, StoresInTable

(* Behind a block of an unbroken table there is room only behind the last. *)
LEMMA FitsOnlyBehindLast ==
  ASSUME IInv, NEW n \in Request, NEW i \in 1 .. Len(blocks), FitsBehind(i, n)
  PROVE  i = Len(blocks) /\ End(blocks[i]) + n <= HeapSize
<1>1. n \in Nat /\ n > 0 /\ HeapSize \in Nat
  BY HeapSizeAssumption DEF Request
<1>2. Len(blocks) \in Nat /\ End(blocks[i]) \in Nat
  BY TableFacts DEF IInv
<1>3. i < Len(blocks) => End(blocks[i]) = blocks[i + 1].base
  BY <1>2 DEF IInv, NoHoles
<1>4. ~(i < Len(blocks))
  BY <1>1, <1>2, <1>3 DEF FitsBehind
<1> QED
  BY <1>2, <1>4 DEF FitsBehind

(* What a kmalloc that serves the request does to the table: the new block *)
(* b goes below all others or behind all others.                           *)
GoesBelow(b) ==
  /\ blocks' = <<b>> \o blocks
  /\ blocks # <<>> => End(b) = blocks[1].base
GoesBehind(b) ==
  /\ blocks' = blocks \o <<b>>
  /\ blocks # <<>> => End(blocks[Len(blocks)]) = b.base

(* However kmalloc serves a request, the new block goes to one end of the  *)
(* run of blocks, inside the heap.                                         *)
LEMMA KmallocShape ==
  ASSUME IInv, NEW n \in Request, KmallocFirst(n) \/ KmallocBelow(n) \/ KmallocBehind(n)
  PROVE  \E b \in Block : /\ b = [base |-> result', size |-> n] /\ b.size = n
                          /\ GoesBelow(b) \/ GoesBehind(b)
                          /\ End(b) <= HeapSize
                          /\ held' = held \cup {b}
                          /\ TableGrows /\ written' = Len(blocks) + 1
<1> USE DEF IInv
<1>1. HeapSize \in Nat \ {0} /\ n \in Nat /\ n > 0 /\ n <= HeapSize
  BY HeapSizeAssumption DEF Request
<1>2. /\ Len(blocks) \in Nat /\ blocks \in Seq(Block)
      /\ blocks # <<>> => Len(blocks) > 0
  BY TableFacts DEF TypeOK
<1>3. CASE KmallocFirst(n)
  <2>1. PICK b : b = [base |-> 0, size |-> n]
    OBVIOUS
  <2>2. b \in Block /\ End(b) = n /\ b.base = 0 /\ b.size = n
    BY <1>1, <2>1 DEF Block, End
  <2>3. <<b>> \o blocks = <<b>> /\ Len(blocks) = 0
    BY <1>3, <2>2, ConcatEmptySeq, EmptySeq DEF KmallocFirst
  <2>4. /\ result' = 0 /\ held' = held \cup {b} /\ TableGrows
        /\ blocks = <<>> /\ blocks' = <<b>> /\ written' = 1
    BY <1>3, <2>1, <2>2 DEF KmallocFirst, Returns
  <2> QED
    BY <1>1, <2>1, <2>2, <2>3, <2>4 DEF GoesBelow
<1>4. CASE KmallocBelow(n)
  <2>1. PICK b : b = BlockBelow(n)
    OBVIOUS
  <2>2. /\ blocks # <<>> /\ blocks[1].base \in Nat /\ blocks[1].base >= n
        /\ End(blocks[1]) <= HeapSize /\ End(blocks[1]) \in Nat
        /\ blocks[1].base < End(blocks[1])
    BY <1>2, <1>4, TableFacts DEF KmallocBelow, FitsBelow
  <2>3. b = [base |-> blocks[1].base - n, size |-> n]
    BY <2>1 DEF BlockBelow
  <2>4. blocks[1].base - n \in Nat
    BY <1>1, <2>2
  <2>5. b \in Block /\ b.size = n /\ b.base = blocks[1].base - n
    BY <2>3, <2>4 DEF Block
  <2>6. End(b) = blocks[1].base
    BY <1>1, <2>2, <2>5 DEF End
  <2>7. /\ result' = b.base /\ held' = held \cup {b} /\ TableGrows
        /\ blocks' = <<b>> \o blocks /\ written' = Len(blocks) + 1
    BY <1>4, <2>1 DEF KmallocBelow, Returns
  <2>8. b = [base |-> result', size |-> n]
    BY <2>3, <2>5, <2>7
  <2>9. GoesBelow(b) /\ End(b) <= HeapSize
    BY <1>1, <2>2, <2>6, <2>7 DEF GoesBelow
  <2> QED
    BY <2>5, <2>7, <2>8, <2>9
<1>5. CASE KmallocBehind(n)
  <2>1. PICK i \in 1 .. Len(blocks) :
          LET b == [base |-> End(blocks[i]), size |-> n] IN
          /\ FirstFit(i, n)
          /\ blocks' = SubSeq(blocks, 1, i) \o <<b>> \o SubSeq(blocks, i + 1, Len(blocks))
          /\ written' = IF i < Len(blocks) THEN Len(blocks) + 2 ELSE Len(blocks) + 1
          /\ Returns(b)
    BY <1>5 DEF KmallocBehind
  <2>2. PICK b : b = [base |-> End(blocks[i]), size |-> n]
    OBVIOUS
  <2>3. i = Len(blocks) /\ End(blocks[i]) + n <= HeapSize
    BY <2>1, FitsOnlyBehindLast DEF FirstFit
  <2>4. End(blocks[i]) \in Nat
    BY TableFacts
  <2>5. b \in Block /\ b.base = End(blocks[i]) /\ b.size = n
    BY <2>2, <2>4 DEF Block
  <2>6. SubSeq(blocks, 1, i) = blocks /\ SubSeq(blocks, i + 1, Len(blocks)) = <<>>
    BY <1>2, <2>3, SubSeqFull, SubSeqEmpty
  <2>7. <<b>> \in Seq(Block) /\ blocks \o <<b>> \in Seq(Block)
    BY <1>2, <2>5, ConcatProperties
  <2>8. blocks' = blocks \o <<b>>
    BY <2>1, <2>2, <2>6, <2>7, ConcatEmptySeq
  <2>9. /\ result' = b.base /\ held' = held \cup {b} /\ TableGrows
        /\ written' = Len(blocks) + 1
    BY <1>5, <2>1, <2>2, <2>3 DEF KmallocBehind, Returns
  <2>10. End(b) <= HeapSize
    BY <2>3, <2>5 DEF End
  <2>11. GoesBehind(b)
    BY <2>3, <2>5, <2>8 DEF GoesBehind
  <2>12. b = [base |-> result', size |-> n]
    BY <2>2, <2>5, <2>9
  <2> QED
    BY <2>5, <2>9, <2>10, <2>11, <2>12
<1> QED
  BY <1>3, <1>4, <1>5

(* Everything the invariant says about the entries of the table.           *)
TableInv ==
  /\ NoHoles
  /\ InOrder
  /\ \A i \in 1 .. Len(blocks) : End(blocks[i]) <= HeapSize

(* A block put in front of the table leaves it in order and without holes. *)
LEMMA BelowKeeps ==
  ASSUME IInv, NEW b \in Block, GoesBelow(b), End(b) <= HeapSize
  PROVE  /\ blocks' \in Seq(Block) /\ Len(blocks') = Len(blocks) + 1
         /\ blocks'[1] = b
         /\ \A i \in 1 .. Len(blocks) : blocks'[i + 1] = blocks[i]
         /\ TableInv'
<1> DEFINE L == Len(blocks)
<1>1. L \in Nat /\ blocks \in Seq(Block) /\ <<b>> \in Seq(Block) /\ Len(<<b>>) = 1
      /\ (blocks # <<>> => L > 0) /\ (L > 0 => blocks # <<>>)
  BY TableFacts, EmptySeq DEF IInv, TypeOK
<1>2. /\ blocks' \in Seq(Block) /\ Len(blocks') = 1 + L
      /\ \A i \in 1 .. 1 + L : blocks'[i] = IF i <= 1 THEN b ELSE blocks[i - 1]
  BY <1>1, ConcatProperties DEF GoesBelow
<1>3. /\ blocks'[1] = b
      /\ \A i \in 1 .. L : blocks'[i + 1] = blocks[i]
      /\ \A i \in 2 .. L + 1 : blocks'[i] = blocks[i - 1] /\ i - 1 \in 1 .. L
  BY <1>1, <1>2
<1>4. /\ End(b) \in Nat
      /\ \A i \in 1 .. L : blocks[i].base \in Nat /\ End(blocks[i]) \in Nat
                           /\ blocks[i].base < End(blocks[i])
  BY TableFacts, HeapSizeAssumption DEF IInv, Block, Request, End
<1> HIDE DEF L
<1>5. \A i \in 1 .. L : End(b) <= blocks[i].base
  <2> SUFFICES ASSUME NEW i \in 1 .. L PROVE End(b) <= blocks[i].base
    OBVIOUS
  <2>1. End(b) = blocks[1].base /\ 1 \in 1 .. L
    BY <1>1 DEF GoesBelow
  <2>2. i = 1 \/ End(blocks[1]) <= blocks[i].base
    BY <1>1, <2>1 DEF IInv, InOrder, L
  <2> QED
    BY <1>4, <2>1, <2>2
<1>6. NoHoles'
  <2> SUFFICES ASSUME NEW i \in 1 .. L PROVE End(blocks'[i]) = blocks'[i + 1].base
    BY <1>1, <1>2 DEF NoHoles, End
  <2>1. CASE i = 1
    BY <1>1, <1>3, <2>1 DEF GoesBelow
  <2>2. CASE i # 1
    <3>1. i - 1 \in 1 .. L - 1 /\ i \in 2 .. L + 1 /\ (i - 1) + 1 = i
      BY <1>1, <2>2
    <3>2. End(blocks[i - 1]) = blocks[i].base
      BY <3>1 DEF IInv, NoHoles, L
    <3> QED
      BY <1>3, <3>1, <3>2
  <2> QED
    BY <2>1, <2>2
<1>7. InOrder'
  <2> SUFFICES ASSUME NEW i \in 1 .. L + 1, NEW j \in 1 .. L + 1, i < j
               PROVE  End(blocks'[i]) <= blocks'[j].base
    BY <1>1, <1>2 DEF InOrder, End
  <2>1. j \in 2 .. L + 1 /\ j - 1 \in 1 .. L /\ blocks'[j] = blocks[j - 1]
    BY <1>1, <1>3
  <2>2. CASE i = 1
    BY <1>3, <1>5, <2>1, <2>2
  <2>3. CASE i # 1
    <3>1. i - 1 \in 1 .. L /\ blocks'[i] = blocks[i - 1] /\ i - 1 < j - 1
      BY <1>1, <1>3, <2>3
    <3> QED
      BY <2>1, <3>1 DEF IInv, InOrder, L
  <2> QED
    BY <2>2, <2>3
<1>8. \A i \in 1 .. Len(blocks') : End(blocks'[i]) <= HeapSize
  <2> SUFFICES ASSUME NEW i \in 1 .. L + 1 PROVE End(blocks'[i]) <= HeapSize
    BY <1>1, <1>2
  <2>1. i = 1 \/ (blocks'[i] = blocks[i - 1] /\ i - 1 \in 1 .. L)
    BY <1>1, <1>3
  <2> QED
    BY <1>3, <2>1 DEF IInv, L
<1>9. (\A i \in 1 .. Len(blocks) : End(blocks[i]) <= HeapSize)'
  BY <1>8 DEF End
<1> QED
  BY <1>1, <1>2, <1>3, <1>6, <1>7, <1>9 DEF TableInv, L

(* So does a block put behind it.                                          *)
LEMMA BehindKeeps ==
  ASSUME IInv, NEW b \in Block, GoesBehind(b), End(b) <= HeapSize
  PROVE  /\ blocks' \in Seq(Block) /\ Len(blocks') = Len(blocks) + 1
         /\ blocks'[Len(blocks) + 1] = b
         /\ \A i \in 1 .. Len(blocks) : blocks'[i] = blocks[i]
         /\ TableInv'
<1> DEFINE L == Len(blocks)
<1>1. L \in Nat /\ blocks \in Seq(Block) /\ <<b>> \in Seq(Block) /\ Len(<<b>>) = 1
      /\ (blocks # <<>> => L > 0) /\ (L > 0 => blocks # <<>>)
  BY TableFacts, EmptySeq DEF IInv, TypeOK
<1>2. /\ blocks' \in Seq(Block) /\ Len(blocks') = L + 1
      /\ \A i \in 1 .. L + 1 : blocks'[i] = IF i <= L THEN blocks[i] ELSE <<b>>[i - L]
  BY <1>1, ConcatProperties DEF GoesBehind
<1>3. /\ blocks'[L + 1] = b
      /\ \A i \in 1 .. L : blocks'[i] = blocks[i]
  BY <1>1, <1>2
<1>4. \A i \in 1 .. L : blocks[i].base \in Nat /\ End(blocks[i]) \in Nat
                        /\ blocks[i].base < End(blocks[i])
  BY TableFacts DEF IInv
<1> HIDE DEF L
<1>5. \A i \in 1 .. L : End(blocks[i]) <= b.base
  <2> SUFFICES ASSUME NEW i \in 1 .. L PROVE End(blocks[i]) <= b.base
    OBVIOUS
  <2>1. End(blocks[L]) = b.base /\ L \in 1 .. L
    BY <1>1 DEF GoesBehind, L
  <2>2. i = L \/ End(blocks[i]) <= blocks[L].base
    BY <1>1, <2>1 DEF IInv, InOrder, L
  <2> QED
    BY <1>4, <2>1, <2>2
<1>6. NoHoles'
  <2> SUFFICES ASSUME NEW i \in 1 .. L PROVE End(blocks'[i]) = blocks'[i + 1].base
    BY <1>1, <1>2 DEF NoHoles, End
  <2>1. CASE i = L
    BY <1>1, <1>3, <2>1 DEF GoesBehind, L
  <2>2. CASE i # L
    <3>1. i \in 1 .. L - 1 /\ i + 1 \in 1 .. L
      BY <1>1, <2>2
    <3>2. End(blocks[i]) = blocks[i + 1].base
      BY <3>1 DEF IInv, NoHoles, L
    <3> QED
      BY <1>3, <3>1, <3>2
  <2> QED
    BY <2>1, <2>2
<1>7. InOrder'
  <2> SUFFICES ASSUME NEW i \in 1 .. L + 1, NEW j \in 1 .. L + 1, i < j
               PROVE  End(blocks'[i]) <= blocks'[j].base
    BY <1>1, <1>2 DEF InOrder, End
  <2>1. i \in 1 .. L /\ blocks'[i] = blocks[i]
    BY <1>1, <1>3
  <2>2. CASE j = L + 1
    BY <1>3, <1>5, <2>1, <2>2
  <2>3. CASE j # L + 1
    <3>1. j \in 1 .. L /\ blocks'[j] = blocks[j]
      BY <1>1, <1>3, <2>3
    <3> QED
      BY <2>1, <3>1 DEF IInv, InOrder, L
  <2> QED
    BY <2>2, <2>3
<1>8. \A i \in 1 .. Len(blocks') : End(blocks'[i]) <= HeapSize
  <2> SUFFICES ASSUME NEW i \in 1 .. L + 1 PROVE End(blocks'[i]) <= HeapSize
    BY <1>1, <1>2
  <2>1. i = L + 1 \/ (blocks'[i] = blocks[i] /\ i \in 1 .. L)
    BY <1>1, <1>3
  <2> QED
    BY <1>3, <2>1 DEF IInv, L
<1>9. (\A i \in 1 .. Len(blocks) : End(blocks[i]) <= HeapSize)'
  BY <1>8 DEF End
<1> QED
  BY <1>1, <1>2, <1>3, <1>6, <1>7, <1>9 DEF TableInv, L

(* A kmalloc that succeeds keeps the invariant.                            *)
LEMMA ServedKeeps ==
  ASSUME IInv, NEW n \in Request, KmallocFirst(n) \/ KmallocBelow(n) \/ KmallocBehind(n)
  PROVE  IInv'
<1>1. PICK b \in Block : /\ b = [base |-> result', size |-> n] /\ b.size = n
                         /\ GoesBelow(b) \/ GoesBehind(b)
                         /\ End(b) <= HeapSize
                         /\ held' = held \cup {b}
                         /\ TableGrows /\ written' = Len(blocks) + 1
  BY KmallocShape
<1>2. /\ blocks' \in Seq(Block) /\ Len(blocks') = Len(blocks) + 1 /\ TableInv'
      /\ \A i \in 1 .. Len(blocks) : \E j \in 1 .. Len(blocks') : blocks'[j] = blocks[i]
      /\ \E j \in 1 .. Len(blocks') : blocks'[j] = b
  <2>1. Len(blocks) \in Nat
    BY TableFacts DEF IInv
  <2>2. CASE GoesBelow(b)
    BY <1>1, <2>1, <2>2, BelowKeeps
  <2>3. CASE GoesBehind(b)
    BY <1>1, <2>1, <2>3, BehindKeeps
  <2> QED
    BY <1>1, <2>2, <2>3
<1>3. /\ table_size' \in Nat \ {0}
      /\ Len(blocks') <= table_size' * SlotsPerPage
      /\ written' <= table_size' * SlotsPerPage /\ written' \in Nat
  BY <1>1, <1>2, RoomForOne, TableFacts DEF IInv
<1>4. result' \in Nat
  <2>1. b.base = result' /\ b.base \in Nat
    BY <1>1 DEF Block
  <2> QED
    BY <2>1
<1>5. \A c \in held' : \E j \in 1 .. Len(blocks') : blocks'[j] = c
  BY <1>1, <1>2 DEF IInv
<1>6. held' \subseteq Block
  BY <1>1 DEF IInv, TypeOK
<1> QED
  BY <1>2, <1>3, <1>4, <1>5, <1>6 DEF IInv, TypeOK, TableInv, StoresInTable

(* Only the lowest entry has the lowest address.                           *)
LEMMA FreedIsLowest ==
  ASSUME IInv, NEW b \in held, IsFound(b.base)
  PROVE  b = blocks[1]
<1>1. PICK i \in 1 .. Len(blocks) : blocks[i] = b
  BY DEF IInv
<1>2. Len(blocks) \in Nat /\ 1 \in 1 .. Len(blocks)
  BY TableFacts DEF IInv, IsFound
<1>3. i # 1 => End(blocks[1]) <= blocks[i].base
  BY <1>2 DEF IInv, InOrder
<1>4. blocks[1].base \in Nat /\ End(blocks[1]) \in Nat /\ blocks[1].base < End(blocks[1])
  BY <1>2, TableFacts DEF IInv
<1> QED
  BY <1>1, <1>3, <1>4 DEF IsFound

(* Removing the lowest block keeps the invariant.                          *)
LEMMA KfreeKeeps ==
  ASSUME IInv, NEW b \in held, KfreeFound(b)
  PROVE  IInv'
<1> DEFINE L == Len(blocks)
<1>1. blocks \in Seq(Block) /\ blocks # <<>> /\ L \in Nat /\ L > 0
  BY TableFacts DEF IInv, TypeOK, KfreeFound, IsFound
<1>2. /\ blocks' = SubSeq(blocks, 2, L)
      /\ blocks' \in Seq(Block) /\ Len(blocks') = L - 1
  BY <1>1, TailIsSubSeq, HeadTailProperties DEF KfreeFound
<1>3. \A i \in 1 .. L - 1 : blocks'[i] = blocks[i + 1] /\ i + 1 \in 1 .. L
  <2>1. \A i \in 2 .. L : blocks[i] \in Block
    BY <1>1, ElementOfSeq
  <2>2. \A i \in 1 .. L - 2 + 1 : SubSeq(blocks, 2, L)[i] = blocks[2 + i - 1]
    BY <1>1, <2>1, SubSeqProperties
  <2> QED
    BY <1>1, <1>2, <2>2
<1> HIDE DEF L
<1>4. NoHoles'
  <2> SUFFICES ASSUME NEW i \in 1 .. L - 2 PROVE End(blocks'[i]) = blocks'[i + 1].base
    BY <1>1, <1>2 DEF NoHoles, End
  <2>1. i \in 1 .. L - 1 /\ i + 1 \in 1 .. L - 1
    BY <1>1
  <2>2. End(blocks[i + 1]) = blocks[(i + 1) + 1].base
    BY <2>1 DEF IInv, NoHoles, L
  <2> QED
    BY <1>3, <2>1, <2>2
<1>5. InOrder'
  <2> SUFFICES ASSUME NEW i \in 1 .. L - 1, NEW j \in 1 .. L - 1, i < j
               PROVE  End(blocks'[i]) <= blocks'[j].base
    BY <1>1, <1>2 DEF InOrder, End
  <2>1. i + 1 < j + 1 /\ i + 1 \in 1 .. L /\ j + 1 \in 1 .. L
    BY <1>1
  <2>2. End(blocks[i + 1]) <= blocks[j + 1].base
    BY <2>1 DEF IInv, InOrder, L
  <2> QED
    BY <1>3, <2>2
<1>6. \A i \in 1 .. Len(blocks') : End(blocks'[i]) <= HeapSize
  BY <1>2, <1>3 DEF IInv, L
<1>7. \A c \in held' : \E i \in 1 .. Len(blocks') : blocks'[i] = c
  <2> SUFFICES ASSUME NEW c \in held, c # b PROVE \E i \in 1 .. L - 1 : blocks'[i] = c
    BY <1>2 DEF KfreeFound
  <2>1. b = blocks[1]
    BY FreedIsLowest DEF KfreeFound
  <2>2. PICK k \in 1 .. L : blocks[k] = c
    BY DEF IInv, L
  <2>3. k - 1 \in 1 .. L - 1 /\ (k - 1) + 1 = k
    BY <1>1, <2>1, <2>2
  <2>4. blocks'[k - 1] = blocks[(k - 1) + 1]
    BY <1>3, <2>3
  <2> QED
    BY <2>2, <2>3, <2>4
<1>8. /\ table_size' = table_size /\ table_size \in Nat \ {0} /\ held' \subseteq Block
      /\ result' \in Nat \cup {Null} /\ written' \in Nat /\ written' = L
      /\ L <= table_size * SlotsPerPage
  BY <1>1 DEF KfreeFound, IInv, TypeOK, L
<1>9. table_size * SlotsPerPage \in Nat
  BY <1>8, SlotsAssumption
<1>10. Len(blocks') <= table_size' * SlotsPerPage
  BY <1>1, <1>2, <1>8, <1>9
<1>11. (\A i \in 1 .. Len(blocks) : End(blocks[i]) <= HeapSize)'
  BY <1>6 DEF End
<1> QED
  BY <1>2, <1>4, <1>5, <1>7, <1>8, <1>10, <1>11 DEF IInv, TypeOK, StoresInTable

(* Calls that change nothing but the size of the table.                    *)
LEMMA RestKeeps ==
  ASSUME IInv, blocks' = blocks, held' \subseteq held,
         table_size' = table_size \/ TableGrows,
         written' = 0 \/ written' = written, result' = Null \/ result' = result
  PROVE  IInv'
<1>1. /\ table_size' \in Nat \ {0}
      /\ Len(blocks) <= table_size' * SlotsPerPage
      /\ Len(blocks) \in Nat /\ table_size' * SlotsPerPage \in Nat
      /\ written \in Nat
  BY RoomForOne, TableFacts, SlotsAssumption DEF IInv, TypeOK
<1>2. written' <= table_size' * SlotsPerPage
  <2>1. CASE table_size' = table_size
    BY <1>1, <2>1 DEF IInv, StoresInTable
  <2>2. CASE TableGrows /\ table_size' # table_size
    <3>1. table_size' = table_size + 1
      BY <2>2 DEF TableGrows
    <3>2. /\ written <= table_size * SlotsPerPage /\ table_size * SlotsPerPage \in Nat
          /\ SlotsPerPage \in Nat
          /\ (table_size + 1) * SlotsPerPage = table_size * SlotsPerPage + SlotsPerPage
      BY SlotsAssumption DEF IInv, TypeOK, StoresInTable
    <3> QED
      BY <1>1, <3>1, <3>2
  <2> QED
    BY <2>1, <2>2
<1>3. TypeOK'
  BY <1>1 DEF IInv, TypeOK
<1>4. NoHoles' /\ InOrder' /\ (\A i \in 1 .. Len(blocks) : End(blocks[i]) <= HeapSize)'
  BY DEF IInv, NoHoles, InOrder, End
<1>5. (\A b \in held : \E i \in 1 .. Len(blocks) : blocks[i] = b)'
  BY DEF IInv
<1> QED
  BY <1>1, <1>2, <1>3, <1>4, <1>5 DEF IInv, StoresInTable

(* Every call keeps the invariant.                                         *)
LEMMA InvStep == IInv /\ [Next]_vars => IInv'
<1> SUFFICES ASSUME IInv, [Next]_vars PROVE IInv'
  OBVIOUS
<1>1. ASSUME NEW n \in Request, KmallocFirst(n) \/ KmallocBelow(n) \/ KmallocBehind(n)
      PROVE  IInv'
  BY <1>1, ServedKeeps
<1>2. ASSUME NEW n \in Request, KmallocNoTable(n) \/ KmallocFull(n) PROVE IInv'
  BY <1>2, RestKeeps DEF KmallocNoTable, KmallocFull
<1>3. ASSUME NEW b \in held, KfreeFound(b) PROVE IInv'
  BY <1>3, KfreeKeeps
<1>4. ASSUME NEW b \in held, KfreeMisses(b) PROVE IInv'
  BY <1>4, RestKeeps DEF KfreeMisses
<1>5. CASE UNCHANGED vars
  BY <1>5, RestKeeps DEF vars
<1> QED
  BY <1>1, <1>2, <1>3, <1>4, <1>5 DEF Next, Kmalloc, Kfree

(* Type correctness: however kmalloc and kfree are mixed, no block of the  *)
(* table is empty or starts below the heap.                                *)
THEOREM HeapTypeCorrect == Spec => []TypeOK
<1>1. IInv => TypeOK
  BY DEF IInv
<1> QED
  BY InvInit, InvStep, <1>1, PTL DEF Spec

(* The table of the heap never has a hole.                                 *)
THEOREM HeapHasNoHoles == Spec => []NoHoles
<1>1. IInv => NoHoles
  BY DEF IInv
<1> QED
  BY InvInit, InvStep, <1>1, PTL DEF Spec

(* kmalloc and kfree store only into the pages of their table.             *)
THEOREM HeapStoresInTable == Spec => []StoresInTable
<1>1. IInv => StoresInTable
  BY DEF IInv
<1> QED
  BY InvInit, InvStep, <1>1, PTL DEF Spec

(* A block that kmalloc hands out is apart from all that callers hold.     *)
LEMMA HandsOutStep ==
  ASSUME IInv, NEW n \in Request, Kmalloc(n), result' # Null,
         NEW b, b = [base |-> result', size |-> n]
  PROVE  End(b) <= HeapSize /\ \A c \in held : Apart(b, c)
<1>1. KmallocFirst(n) \/ KmallocBelow(n) \/ KmallocBehind(n)
  BY DEF Kmalloc, KmallocNoTable, KmallocFull
<1>2. /\ b \in Block /\ End(b) <= HeapSize
      /\ GoesBelow(b) \/ GoesBehind(b)
  BY <1>1, KmallocShape
<1>3. ASSUME NEW c \in held PROVE Apart(b, c)
  <2>1. PICK i \in 1 .. Len(blocks) : blocks[i] = c
    BY DEF IInv
  <2>2. Len(blocks) \in Nat
    BY TableFacts DEF IInv
  <2>3. CASE GoesBelow(b)
    <3>1. /\ blocks'[1] = b /\ blocks'[i + 1] = c /\ Len(blocks') = Len(blocks) + 1
          /\ TableInv'
      BY <1>2, <2>1, <2>3, BelowKeeps
    <3>2. 1 \in 1 .. Len(blocks') /\ i + 1 \in 1 .. Len(blocks') /\ 1 < i + 1
      BY <2>2, <3>1
    <3>3. End(blocks'[1]) <= blocks'[i + 1].base
      BY <3>1, <3>2 DEF TableInv, InOrder, End
    <3> QED
      BY <3>1, <3>3 DEF Apart
  <2>4. CASE GoesBehind(b)
    <3>1. /\ blocks'[Len(blocks) + 1] = b /\ blocks'[i] = c
          /\ Len(blocks') = Len(blocks) + 1 /\ TableInv'
      BY <1>2, <2>1, <2>4, BehindKeeps
    <3>2. i \in 1 .. Len(blocks') /\ Len(blocks) + 1 \in 1 .. Len(blocks')
          /\ i < Len(blocks) + 1
      BY <2>2, <3>1
    <3>3. End(blocks'[i]) <= blocks'[Len(blocks) + 1].base
      BY <3>1, <3>2 DEF TableInv, InOrder, End
    <3> QED
      BY <3>1, <3>3 DEF Apart
  <2> QED
    BY <1>2, <2>3, <2>4
<1> QED
  BY <1>2, <1>3

(* kmalloc hands out only units of the heap that no caller holds.          *)
THEOREM HeapHandsOutUnheld == Spec => HandsOutUnheld
<1> DEFINE Act == \A n \in Request : Kmalloc(n) /\ result' # Null =>
                    LET b == [base |-> result', size |-> n] IN
                    End(b) <= HeapSize /\ \A c \in held : Apart(b, c)
<1>1. IInv => Act
  BY HandsOutStep, Zenon
<1> QED
  BY InvInit, InvStep, <1>1, PTL DEF Spec, HandsOutUnheld

(* A non-empty set of numbers has a least one.                             *)
LEMMA LeastElement ==
  ASSUME NEW T \in SUBSET Nat, T # {}
  PROVE  \E x \in T : \A y \in T : x <= y
<1>1. PICK x \in T : \A y \in T : ~(<<y, x>> \in OpToRel(<, Nat))
  BY NatLessThanWellFounded, WFMin
<1>2. ASSUME NEW y \in T PROVE x <= y
  <2>1. x \in Nat /\ y \in Nat
    OBVIOUS
  <2>2. ~(y < x)
    BY <1>1, <2>1 DEF OpToRel
  <2> QED
    BY <2>1, <2>2
<1> QED
  BY <1>2

(* Where kmalloc finds the heap full no gap has the size of the request.   *)
LEMMA FullStep ==
  ASSUME IInv, NEW n \in Request, KmallocFull(n), NEW p \in 0 .. HeapSize, Gap(p, n)
  PROVE  FALSE
<1> DEFINE L == Len(blocks)
           T == {i \in 1 .. L : p + n <= blocks[i].base}
<1>1. /\ L \in Nat /\ L > 0 /\ n \in Nat /\ n > 0 /\ p \in Nat /\ HeapSize \in Nat
      /\ \A i \in 1 .. L : blocks[i].base \in Nat /\ End(blocks[i]) \in Nat
  BY TableFacts, HeapSizeAssumption DEF IInv, KmallocFull, Request
<1>2. p + n <= HeapSize /\ \A i \in 1 .. L : i \in T \/ End(blocks[i]) <= p
  BY DEF Gap
<1>3. ~(blocks[1].base >= n) /\ \A i \in 1 .. L : ~FitsBehind(i, n)
  BY DEF KmallocFull, FitsBelow
<1> HIDE DEF L
<1>4. CASE T = {}
  <2>1. L \in 1 .. L /\ End(blocks[L]) <= p
    BY <1>1, <1>2, <1>4
  <2>2. FitsBehind(L, n)
    BY <1>1, <1>2, <2>1 DEF FitsBehind, L
  <2> QED
    BY <1>3, <2>1, <2>2
<1>5. CASE T # {}
  <2>1. T \in SUBSET Nat
    OBVIOUS
  <2>2. PICK i \in T : \A y \in T : i <= y
    BY <1>5, <2>1, LeastElement
  <2>3. i \in 1 .. L /\ p + n <= blocks[i].base
    OBVIOUS
  <2>4. i # 1
    BY <1>1, <1>3, <2>3
  <2>5. i - 1 \in 1 .. L - 1 /\ i - 1 \in 1 .. L /\ (i - 1) + 1 = i /\ ~(i <= i - 1)
    BY <1>1, <2>3, <2>4
  <2>6. End(blocks[i - 1]) <= p
    BY <1>2, <2>2, <2>5
  <2>7. End(blocks[i - 1]) = blocks[i].base
    BY <2>5 DEF IInv, NoHoles, L
  <2> QED
    BY <1>1, <2>3, <2>5, <2>6, <2>7
<1> QED
  BY <1>4, <1>5

(* kmalloc fails only when no gap of the heap can take the request.        *)
THEOREM HeapFullMeansFull == Spec => FullMeansFull
<1> DEFINE Act == \A n \in Request : KmallocFull(n) => \A p \in 0 .. HeapSize : ~Gap(p, n)
<1>1. IInv => Act
  BY FullStep
<1> QED
  BY InvInit, InvStep, <1>1, PTL DEF Spec, FullMeansFull

-----------------------------------------------------------------------------
(* The heap of the two address spaces                                      *)

Entry == [base : Nat, size : Nat]

(* Blocks are at least one unit, so that a heap has no more of them than   *)
(* units and the table ends before the slots do.                           *)
Spread ==
  \A i, k \in 1 .. Len(blocks) : i <= k => blocks[i].base + (k - i) <= blocks[k].base

SpacesInv ==
  /\ IInv
  /\ Spread
  /\ table \in [Slot -> Entry]
  /\ TableHoldsBlocks

(* The slots of a table, and the one behind its last entry.                *)
LEMMA SlotFacts ==
  ASSUME SpacesInv
  PROVE  /\ Len(blocks) \in Nat /\ blocks \in Seq(Block)
         /\ \A i \in 1 .. Len(blocks) : blocks[i] \in Block
         /\ Len(blocks) <= HeapSize
         /\ HeapSize \in Nat \ {0} /\ SlotsPerPage \in Nat \ {0}
         /\ 1 .. Len(blocks) + 1 \subseteq Slot
<1>1. /\ Len(blocks) \in Nat
      /\ \A i \in 1 .. Len(blocks) : /\ blocks[i] \in Block
                                      /\ blocks[i].base \in Nat /\ End(blocks[i]) \in Nat
                                      /\ blocks[i].base < End(blocks[i])
  BY TableFacts DEF SpacesInv, IInv
<1>2. HeapSize \in Nat \ {0} /\ SlotsPerPage \in Nat \ {0}
  BY HeapSizeAssumption, SlotsAssumption
<1>3. CASE Len(blocks) > 0
  <2>1. 1 \in 1 .. Len(blocks) /\ Len(blocks) \in 1 .. Len(blocks)
    BY <1>1, <1>3
  <2>2. blocks[1].base + (Len(blocks) - 1) <= blocks[Len(blocks)].base
    <3>1. Spread /\ 1 <= Len(blocks)
      BY <1>1, <1>3 DEF SpacesInv
    <3> QED
      BY <2>1, <3>1 DEF Spread
  <2>3. End(blocks[Len(blocks)]) <= HeapSize
    BY <2>1 DEF SpacesInv, IInv
  <2>4. Len(blocks) <= HeapSize
    BY <1>1, <1>2, <2>1, <2>2, <2>3
  <2> QED
    BY <1>1, <1>2, <2>4 DEF Slot, SpacesInv, IInv, TypeOK
<1>4. CASE Len(blocks) = 0
  BY <1>1, <1>2, <1>4 DEF Slot, SpacesInv, IInv, TypeOK
<1> QED
  BY <1>1, <1>3, <1>4

(* Moving up all entries by one slot and storing the new one in front.     *)
LEMMA StoreBelow ==
  ASSUME SpacesInv, NEW b \in Block,
         blocks' = <<b>> \o blocks,
         table' = [Moved(1, 2, Len(blocks)) EXCEPT ![1] = b]
  PROVE  table' \in [Slot -> Entry] /\ TableHoldsBlocks'
<1> DEFINE L == Len(blocks)
<1>1. /\ L \in Nat /\ blocks \in Seq(Block) /\ <<b>> \in Seq(Block)
      /\ 1 .. L + 1 \subseteq Slot /\ 1 \in Slot /\ Slot \subseteq Nat
  BY SlotFacts DEF Slot
<1>2. /\ Len(blocks') = L + 1
      /\ \A i \in 1 .. L + 1 : blocks'[i] = IF i = 1 THEN b ELSE blocks[i - 1]
  BY <1>1, ConcatProperties
<1>3. /\ b \in Entry
      /\ table \in [Slot -> Entry]
      /\ \A i \in 1 .. L : table[i] = blocks[i]
  BY HeapSizeAssumption DEF SpacesInv, TableHoldsBlocks, Block, Entry, Request
<1> HIDE DEF L
<1>4. Moved(1, 2, L) \in [Slot -> Entry]
  <2> SUFFICES ASSUME NEW k \in Slot
               PROVE  (IF k \in 2 .. 2 + L - 1 THEN table[k - 2 + 1] ELSE table[k]) \in Entry
    BY DEF Moved
  <2>1. k \in 2 .. 2 + L - 1 => k - 2 + 1 \in Slot
    BY <1>1
  <2> QED
    BY <1>3, <2>1
<1>5. table' \in [Slot -> Entry]
  BY <1>1, <1>3, <1>4 DEF L
<1>6. \A i \in 1 .. L + 1 : table'[i] = blocks'[i]
  <2> SUFFICES ASSUME NEW i \in 1 .. L + 1 PROVE table'[i] = blocks'[i]
    OBVIOUS
  <2>1. CASE i = 1
    BY <1>1, <1>2, <1>4, <2>1 DEF L
  <2>2. CASE i # 1
    <3>1. i \in 2 .. 2 + L - 1 /\ i \in Slot /\ i - 2 + 1 = i - 1 /\ i - 1 \in 1 .. L
      BY <1>1, <2>2
    <3>2. table'[i] = Moved(1, 2, L)[i]
      BY <1>4, <2>2, <3>1 DEF L
    <3>3. Moved(1, 2, L)[i] = table[i - 1]
      BY <3>1 DEF Moved
    <3> QED
      BY <1>2, <1>3, <2>2, <3>1, <3>2, <3>3
  <2> QED
    BY <2>1, <2>2
<1> QED
  BY <1>2, <1>5, <1>6 DEF TableHoldsBlocks

(* Storing the new entry behind all others.                                *)
LEMMA StoreBehind ==
  ASSUME SpacesInv, NEW b \in Block,
         blocks' = blocks \o <<b>>,
         table' = [table EXCEPT ![Len(blocks) + 1] = b]
  PROVE  table' \in [Slot -> Entry] /\ TableHoldsBlocks'
<1> DEFINE L == Len(blocks)
<1>1. /\ L \in Nat /\ blocks \in Seq(Block) /\ <<b>> \in Seq(Block)
      /\ 1 .. L + 1 \subseteq Slot /\ L + 1 \in Slot
  BY SlotFacts
<1>2. /\ Len(blocks') = L + 1
      /\ \A i \in 1 .. L + 1 : blocks'[i] = IF i = L + 1 THEN b ELSE blocks[i]
  BY <1>1, ConcatProperties
<1>3. /\ b \in Entry
      /\ table \in [Slot -> Entry]
      /\ \A i \in 1 .. L : table[i] = blocks[i]
  BY HeapSizeAssumption DEF SpacesInv, TableHoldsBlocks, Block, Entry, Request
<1> HIDE DEF L
<1>4. table' \in [Slot -> Entry]
  BY <1>1, <1>3 DEF L
<1>5. \A i \in 1 .. L + 1 : table'[i] = blocks'[i]
  BY <1>1, <1>2, <1>3 DEF L
<1> QED
  BY <1>2, <1>4, <1>5 DEF TableHoldsBlocks

(* A new block at either end keeps the others at their distances.          *)
LEMMA SpreadKept ==
  ASSUME SpacesInv, NEW b \in Block, GoesBelow(b) \/ GoesBehind(b), End(b) <= HeapSize
  PROVE  Spread'
<1> DEFINE L == Len(blocks)
<1>1. /\ L \in Nat /\ b.base \in Nat /\ b.base < End(b) /\ End(b) \in Nat
      /\ \A i \in 1 .. L : /\ blocks[i].base \in Nat /\ End(blocks[i]) \in Nat
                           /\ blocks[i].base < End(blocks[i])
      /\ \A i, k \in 1 .. L : i <= k => blocks[i].base + (k - i) <= blocks[k].base
      /\ L > 0 => blocks # <<>>
  BY TableFacts, HeapSizeAssumption, EmptySeq
     DEF SpacesInv, IInv, Spread, Block, Request, End
<1>2. CASE GoesBelow(b)
  <2>1. /\ Len(blocks') = L + 1 /\ blocks'[1] = b
        /\ \A i \in 1 .. L : blocks'[i + 1] = blocks[i]
    BY <1>2, BelowKeeps DEF SpacesInv
  <2>2. L > 0 => End(b) = blocks[1].base
    BY <1>1, <1>2 DEF GoesBelow
  <2> HIDE DEF L
  <2> SUFFICES ASSUME NEW i \in 1 .. L + 1, NEW k \in 1 .. L + 1, i <= k
               PROVE  blocks'[i].base + (k - i) <= blocks'[k].base
    BY <2>1 DEF Spread
  <2>3. \A m \in 2 .. L + 1 : blocks'[m] = blocks[m - 1] /\ m - 1 \in 1 .. L
    BY <1>1, <2>1
  <2>4. CASE i = 1 /\ k = 1
    BY <1>1, <2>1, <2>4
  <2>5. CASE i = 1 /\ k # 1
    <3>1. k \in 2 .. L + 1 /\ L > 0 /\ 1 \in 1 .. L
      BY <1>1, <2>5
    <3>2. blocks[1].base + ((k - 1) - 1) <= blocks[k - 1].base
      BY <1>1, <2>3, <3>1
    <3>3. blocks'[i] = b /\ blocks'[k] = blocks[k - 1] /\ k - 1 \in 1 .. L
      BY <2>1, <2>3, <2>5, <3>1
    <3>4. /\ blocks[1].base \in Nat /\ blocks[k - 1].base \in Nat
          /\ b.base + 1 <= blocks[1].base /\ b.base \in Nat
      BY <1>1, <2>2, <3>1, <3>3
    <3>5. b.base + (k - 1) <= blocks[k - 1].base
      BY <3>1, <3>2, <3>4
    <3> QED
      BY <2>5, <3>3, <3>5
  <2>6. CASE i # 1
    <3>1. i \in 2 .. L + 1 /\ k \in 2 .. L + 1 /\ i - 1 <= k - 1
      BY <1>1, <2>6
    <3>2. blocks[i - 1].base + ((k - 1) - (i - 1)) <= blocks[k - 1].base
      BY <1>1, <2>3, <3>1
    <3>3. (k - 1) - (i - 1) = k - i
      BY <3>1
    <3>4. blocks'[i] = blocks[i - 1] /\ blocks'[k] = blocks[k - 1]
      BY <2>3, <3>1
    <3> QED
      BY <3>2, <3>3, <3>4
  <2> QED
    BY <2>4, <2>5, <2>6
<1>3. CASE GoesBehind(b)
  <2>1. /\ Len(blocks') = L + 1 /\ blocks'[L + 1] = b
        /\ \A i \in 1 .. L : blocks'[i] = blocks[i]
    BY <1>3, BehindKeeps DEF SpacesInv
  <2>2. L > 0 => End(blocks[L]) = b.base
    BY <1>1, <1>3 DEF GoesBehind
  <2> HIDE DEF L
  <2> SUFFICES ASSUME NEW i \in 1 .. L + 1, NEW k \in 1 .. L + 1, i <= k
               PROVE  blocks'[i].base + (k - i) <= blocks'[k].base
    BY <2>1 DEF Spread
  <2>3. CASE k # L + 1
    <3>1. i \in 1 .. L /\ k \in 1 .. L
      BY <1>1, <2>3
    <3>2. blocks[i].base + (k - i) <= blocks[k].base
      BY <1>1, <3>1
    <3> QED
      BY <2>1, <3>1, <3>2
  <2>4. CASE i = L + 1
    BY <1>1, <2>1, <2>4
  <2>5. CASE k = L + 1 /\ i # L + 1
    <3>1. i \in 1 .. L /\ L > 0 /\ L \in 1 .. L
      BY <1>1, <2>5
    <3>2. blocks[i].base + (L - i) <= blocks[L].base
      BY <1>1, <3>1
    <3>3. /\ blocks[i].base \in Nat /\ blocks[L].base \in Nat /\ b.base \in Nat /\ L \in Nat
          /\ blocks[L].base + 1 <= b.base
      BY <1>1, <2>2, <3>1
    <3>4. blocks[i].base + ((L + 1) - i) <= b.base
      BY <3>1, <3>2, <3>3
    <3>5. blocks'[i] = blocks[i] /\ blocks'[k] = b
      BY <2>1, <2>5, <3>1
    <3> QED
      BY <2>5, <3>4, <3>5
  <2> QED
    BY <2>3, <2>4, <2>5
<1> QED
  BY <1>2, <1>3

(* kmalloc stores and moves the entries so that the table holds them.      *)
LEMMA KmallocKeepsTable ==
  ASSUME SpacesInv, NEW n \in Request, kmalloc(n)
  PROVE  SpacesInv'
<1>1. IInv
  BY DEF SpacesInv
<1>2. /\ Len(blocks) \in Nat /\ blocks \in Seq(Block)
      /\ \A i \in 1 .. Len(blocks) : blocks[i] \in Block
  BY SlotFacts
<1>3. CASE (KmallocNoTable(n) \/ KmallocFull(n)) /\ UNCHANGED table
  <2>1. IInv'
    BY <1>1, <1>3, RestKeeps DEF KmallocNoTable, KmallocFull
  <2>2. blocks' = blocks /\ table' = table
    BY <1>3 DEF KmallocNoTable, KmallocFull
  <2> QED
    BY <2>1, <2>2 DEF SpacesInv, Spread, TableHoldsBlocks
<1>4. ASSUME KmallocFirst(n) \/ KmallocBelow(n) \/ KmallocBehind(n),
             table' \in [Slot -> Entry] /\ TableHoldsBlocks'
      PROVE  SpacesInv'
  <2>1. PICK b \in Block : /\ GoesBelow(b) \/ GoesBehind(b)
                           /\ End(b) <= HeapSize
    BY <1>1, <1>4, KmallocShape
  <2> QED
    BY <1>1, <1>4, <2>1, ServedKeeps, SpreadKept DEF SpacesInv
<1>5. CASE KmallocFirst(n) /\ Store(table, 1, n)
  <2>1. PICK b : b = [base |-> 0, size |-> n]
    OBVIOUS
  <2>2. b \in Block /\ b.base = 0
    BY <2>1 DEF Block
  <2>3. /\ blocks = <<>> /\ blocks' = <<b>> /\ result' = 0
        /\ table' = [table EXCEPT ![1] = b]
    BY <1>5, <2>1, <2>2 DEF KmallocFirst, Returns, Store
  <2>4. blocks \o <<b>> = <<b>> /\ Len(blocks) + 1 = 1
    BY <2>2, <2>3, ConcatEmptySeq, EmptySeq
  <2> QED
    BY <1>4, <1>5, <2>2, <2>3, <2>4, StoreBehind
<1>6. CASE KmallocBelow(n) /\ Store(Moved(1, 2, Len(blocks)), 1, n)
  <2>1. PICK b : b = BlockBelow(n)
    OBVIOUS
  <2>2. blocks[1].base - n \in Nat /\ n \in Nat
    BY <1>1, <1>6, TableFacts, HeapSizeAssumption
       DEF KmallocBelow, FitsBelow, IInv, Request
  <2>3. b = [base |-> blocks[1].base - n, size |-> n]
    BY <2>1 DEF BlockBelow
  <2>4. b \in Block /\ b.base = blocks[1].base - n
    BY <2>2, <2>3 DEF Block
  <2>5. /\ blocks' = <<b>> \o blocks /\ result' = b.base
        /\ table' = [Moved(1, 2, Len(blocks)) EXCEPT ![1] = b]
    BY <1>6, <2>1, <2>3, <2>4 DEF KmallocBelow, Returns, Store
  <2> QED
    BY <1>4, <1>6, <2>4, <2>5, StoreBelow
<1>7. ASSUME KmallocBehind(n), NEW i \in 1 .. Len(blocks), FirstFit(i, n),
             Store(IF i < Len(blocks) THEN Moved(i + 1, i + 2, Len(blocks) - i + 1)
                                      ELSE table, i + 1, n)
      PROVE  SpacesInv'
  <2>1. i = Len(blocks) /\ blocks # <<>>
    BY <1>1, <1>7, FitsOnlyBehindLast DEF FirstFit, KmallocBehind
  <2>2. PICK b \in Block : /\ b = [base |-> result', size |-> n]
                           /\ GoesBelow(b) \/ GoesBehind(b)
    BY <1>1, <1>7, KmallocShape
  <2>3. blocks' = blocks \o <<b>>
    <3>1. PICK k \in 1 .. Len(blocks) :
            LET c == [base |-> End(blocks[k]), size |-> n] IN
            /\ FirstFit(k, n)
            /\ blocks' = SubSeq(blocks, 1, k) \o <<c>> \o SubSeq(blocks, k + 1, Len(blocks))
            /\ Returns(c)
      BY <1>7 DEF KmallocBehind
    <3>2. PICK c : c = [base |-> End(blocks[k]), size |-> n]
      OBVIOUS
    <3>3. k = Len(blocks)
      BY <1>1, <3>1, FitsOnlyBehindLast DEF FirstFit
    <3>4. result' = End(blocks[k]) /\ c = b
      BY <2>2, <3>1, <3>2 DEF Returns
    <3>5. SubSeq(blocks, 1, k) = blocks /\ SubSeq(blocks, k + 1, Len(blocks)) = <<>>
      BY <1>2, <3>3, SubSeqFull, SubSeqEmpty
    <3>6. blocks \o <<b>> \in Seq(Block)
      BY <1>2, ConcatProperties
    <3> QED
      BY <3>1, <3>2, <3>4, <3>5, <3>6, ConcatEmptySeq
  <2>4. table' = [table EXCEPT ![Len(blocks) + 1] = b]
    BY <1>2, <1>7, <2>1, <2>2 DEF Store
  <2> QED
    BY <1>4, <1>7, <2>3, <2>4, StoreBehind
<1> QED
  BY <1>3, <1>5, <1>6, <1>7 DEF kmalloc

(* kfree moves all entries behind the lowest one down by a slot, and the   *)
(* one too many that it moves is not counted.                              *)
LEMMA KfreeKeepsTable ==
  ASSUME SpacesInv, NEW b \in held, kfree(b)
  PROVE  SpacesInv'
<1> DEFINE L == Len(blocks)
<1>1. /\ IInv /\ L \in Nat /\ blocks \in Seq(Block) /\ 1 .. L + 1 \subseteq Slot
      /\ Slot \subseteq Nat /\ table \in [Slot -> Entry]
      /\ \A i \in 1 .. L : table[i] = blocks[i] /\ blocks[i].base \in Nat
  BY SlotFacts, TableFacts DEF SpacesInv, TableHoldsBlocks, Slot, IInv
<1>2. CASE KfreeMisses(b) /\ UNCHANGED table
  <2>1. blocks' = blocks /\ table' = table /\ IInv'
    BY <1>1, <1>2, RestKeeps DEF KfreeMisses
  <2> QED
    BY <2>1 DEF SpacesInv, Spread, TableHoldsBlocks
<1>3. CASE KfreeFound(b) /\ table' = Moved(2, 1, L)
  <2>1. blocks # <<>> /\ blocks' = Tail(blocks) /\ L > 0 /\ IInv'
    BY <1>1, <1>3, KfreeKeeps, EmptySeq DEF KfreeFound, IsFound
  <2>2. /\ Len(blocks') = L - 1
        /\ \A i \in 1 .. L - 1 : blocks'[i] = blocks[i + 1]
    BY <1>1, <2>1, HeadTailProperties
  <2> HIDE DEF L
  <2>3. Moved(2, 1, L) \in [Slot -> Entry]
    <3> SUFFICES ASSUME NEW k \in Slot
                 PROVE  (IF k \in 1 .. 1 + L - 1 THEN table[k - 1 + 2] ELSE table[k]) \in Entry
      BY DEF Moved
    <3>1. k \in 1 .. 1 + L - 1 => k - 1 + 2 \in Slot
      BY <1>1
    <3> QED
      BY <1>1, <3>1
  <2>4. \A i \in 1 .. L - 1 : Moved(2, 1, L)[i] = table[i + 1]
    <3> SUFFICES ASSUME NEW i \in 1 .. L - 1 PROVE Moved(2, 1, L)[i] = table[i + 1]
      OBVIOUS
    <3>1. i \in Slot /\ i \in 1 .. 1 + L - 1 /\ i - 1 + 2 = i + 1
      BY <1>1
    <3> QED
      BY <3>1 DEF Moved
  <2>5. TableHoldsBlocks'
    BY <1>1, <1>3, <2>2, <2>4 DEF TableHoldsBlocks
  <2>6. Spread'
    <3> SUFFICES ASSUME NEW i \in 1 .. L - 1, NEW k \in 1 .. L - 1, i <= k
                 PROVE  blocks'[i].base + (k - i) <= blocks'[k].base
      BY <2>2 DEF Spread
    <3>1. i + 1 \in 1 .. L /\ k + 1 \in 1 .. L /\ i + 1 <= k + 1
      BY <1>1
    <3>2. blocks[i + 1].base + ((k + 1) - (i + 1)) <= blocks[k + 1].base
      BY <3>1 DEF SpacesInv, Spread, L
    <3>3. (k + 1) - (i + 1) = k - i
      OBVIOUS
    <3>4. blocks'[i] = blocks[i + 1] /\ blocks'[k] = blocks[k + 1]
      BY <2>2
    <3> QED
      BY <3>2, <3>3, <3>4
  <2> QED
    BY <1>3, <2>1, <2>3, <2>5, <2>6 DEF SpacesInv
<1> QED
  BY <1>2, <1>3 DEF kfree

(* The user's space starts without a block; what the kernel left in the    *)
(* table is not counted.                                                   *)
LEMMA ChangeKeepsTable ==
  ASSUME SpacesInv, change_address_space
  PROVE  SpacesInv'
<1>1. /\ blocks' = <<>> /\ result' = Null /\ written' = 0 /\ held' = {}
      /\ table_size' = table_size /\ table' = table /\ table_size \in Nat \ {0}
  BY DEF change_address_space, SpacesInv, IInv, TypeOK
<1>2. blocks' \in Seq(Block) /\ Len(blocks') = 0
  BY <1>1, EmptySeq
<1>3. table_size * SlotsPerPage \in Nat
  BY <1>1, SlotsAssumption
<1>4. IInv'
  BY <1>1, <1>2, <1>3 DEF IInv, TypeOK, NoHoles, InOrder, StoresInTable
<1> QED
  BY <1>1, <1>2, <1>4 DEF SpacesInv, Spread, TableHoldsBlocks

(* Every step of either space keeps the invariant.                         *)
LEMMA SpacesStep == SpacesInv /\ [SpacesNext]_allvars => SpacesInv'
<1> SUFFICES ASSUME SpacesInv, [SpacesNext]_allvars PROVE SpacesInv'
  OBVIOUS
<1>1. CASE UNCHANGED allvars
  <2>1. UNCHANGED <<vars, table>>
    BY <1>1 DEF allvars
  <2>2. IInv'
    BY <2>1, InvStep DEF SpacesInv
  <2> QED
    BY <2>1, <2>2 DEF vars, SpacesInv, Spread, TableHoldsBlocks
<1> QED
  BY <1>1, KmallocKeepsTable, KfreeKeepsTable, ChangeKeepsTable DEF SpacesNext

(* An empty table holds all blocks.                                        *)
LEMMA SpacesStart == SpacesInit => SpacesInv
<1> SUFFICES ASSUME SpacesInit PROVE SpacesInv
  OBVIOUS
<1>1. IInv /\ blocks = <<>> /\ Len(blocks) = 0
  BY InvInit, EmptySeq DEF SpacesInit, Init
<1>2. table \in [Slot -> Entry]
  BY DEF SpacesInit, NoEntry, Entry
<1> QED
  BY <1>1, <1>2 DEF SpacesInv, Spread, TableHoldsBlocks

(* The table that the two spaces share holds the blocks of the current one *)
(* in order, whatever the other one left in it (memory_manager.c:80-81,    *)
(* 461-488 and 503-504).                                                   *)
THEOREM SpacesTableHoldsBlocks == SpacesSpec => []TableHoldsBlocks
<1>1. SpacesInv => TableHoldsBlocks
  BY DEF SpacesInv
<1> QED
  BY SpacesStart, SpacesStep, <1>1, PTL DEF SpacesSpec

(* The change of the space opens no hole, and no call stores behind the    *)
(* pages of the shared table.                                              *)
THEOREM SpacesKeepHeap == SpacesSpec => [](NoHoles /\ StoresInTable)
<1>1. SpacesInv => NoHoles /\ StoresInTable
  BY DEF SpacesInv, IInv
<1> QED
  BY SpacesStart, SpacesStep, <1>1, PTL DEF SpacesSpec

(* In either space kmalloc hands out only units that no caller of that     *)
(* space holds.                                                            *)
THEOREM SpacesHandOutUnheld == SpacesSpec => HandsOutUnheld
<1> DEFINE Act == \A n \in Request : Kmalloc(n) /\ result' # Null =>
                    LET b == [base |-> result', size |-> n] IN
                    End(b) <= HeapSize /\ \A c \in held : Apart(b, c)
<1>1. SpacesInv => Act
  BY HandsOutStep, Zenon DEF SpacesInv
<1> QED
  BY SpacesStart, SpacesStep, <1>1, PTL DEF SpacesSpec, HandsOutUnheld

(* In either space kmalloc fails only when no gap can take the request.    *)
THEOREM SpacesFullMeansFull == SpacesSpec => FullMeansFull
<1> DEFINE Act == \A n \in Request : KmallocFull(n) => \A p \in 0 .. HeapSize : ~Gap(p, n)
<1>1. SpacesInv => Act
  BY FullStep DEF SpacesInv
<1> QED
  BY SpacesStart, SpacesStep, <1>1, PTL DEF SpacesSpec, FullMeansFull

=============================================================================
