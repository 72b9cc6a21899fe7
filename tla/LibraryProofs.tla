--------------------------- MODULE LibraryProofs ----------------------------
(***************************************************************************)
(* Proofs about the kernel's library: memcpy copies overlapping areas      *)
(* correctly, for every size and contents of memory and all arguments; the *)
(* string functions do what they promise to every string; and the list     *)
(* template implements a sequence, for every finite heap of items.         *)
(***************************************************************************)
EXTENDS Library, SequenceTheorems, FiniteSetTheorems, WellFoundedInduction, TLAPS

-----------------------------------------------------------------------------
(* memcpy                                                                  *)

(* Whole words and the bytes behind them make up the count.                *)
LEMMA Words ==
  ASSUME TypeOK
  PROVE  n \in Nat /\ n * WordSize <= count
<1>1. count \in Nat
  BY DEF TypeOK
<1> QED
  BY <1>1 DEF n, WordSize

(* Done, loop by loop.                                                     *)
LEMMA DoneIs ==
  /\ pc = "words up" => Done = 0 .. i * WordSize - 1
  /\ pc = "bytes up" => Done = 0 .. i - 1
  /\ pc = "bytes down" => Done = i .. count - 1
  /\ pc = "words down" => Done = i * WordSize .. count - 1
  /\ pc = "done" => Done = 0 .. count - 1
BY DEF Done

(* The invariant holds when memcpy is called.                              *)
LEMMA InitInv == Init => IInv
<1> SUFFICES ASSUME Init PROVE IInv
  OBVIOUS
<1>1. mem \in [Address -> Byte] /\ old = mem
  BY ContentsAssumption DEF Init
<1>2. /\ Last \in Nat /\ dest \in Nat /\ src \in Nat /\ count \in Nat
      /\ dest + count <= Last + 1 /\ src + count <= Last + 1
  <2>1. /\ dest \in 0 .. Last /\ src \in 0 .. Last /\ count \in 0 .. Last + 1
        /\ dest + count <= Last + 1 /\ src + count <= Last + 1
    BY Zenon DEF Init, Address
  <2> QED
    BY <2>1, LastAssumption
<1>3. CASE Backwards
  <2>1. pc = "bytes down" /\ i = count
    BY <1>3 DEF Init
  <2>2. TypeOK
    BY <1>1, <1>2, <2>1 DEF TypeOK
  <2>3. InBounds
    <3>1. n \in Nat /\ n * WordSize <= count
      BY <2>2, Words
    <3>2. src <= dest
      BY <1>2, <1>3 DEF Backwards
    <3>3. count <= count
      BY <1>2
    <3> QED
      BY <2>1, <3>1, <3>2, <3>3, Zenon DEF InBounds
  <2>4. Done = {}
    <3>1. Done = count .. count - 1
      BY <2>1, DoneIs
    <3> QED
      BY <1>2, <3>1
  <2> QED
    BY <1>1, <2>2, <2>3, <2>4 DEF IInv
<1>4. CASE ~Backwards
  <2>1. pc = "words up" /\ i = 0
    BY <1>4 DEF Init
  <2>2. TypeOK
    BY <1>1, <1>2, <2>1 DEF TypeOK
  <2>3. InBounds
    <3>1. n \in Nat
      BY <2>2, Words
    <3>2. dest < src
      BY <1>2, <1>4 DEF Backwards
    <3>3. 0 <= n
      BY <3>1
    <3> QED
      BY <2>1, <3>2, <3>3, Zenon DEF InBounds
  <2>4. Done = {}
    <3>1. Done = 0 .. 0 * WordSize - 1
      BY <2>1, DoneIs
    <3> QED
      BY <3>1 DEF WordSize
  <2> QED
    BY <1>1, <2>2, <2>3, <2>4 DEF IInv
<1> QED
  BY <1>3, <1>4

(* What one store does: if offsets k up to k + size - 1 are the next ones  *)
(* to copy and none of their source bytes has been overwritten, exactly    *)
(* they are added to what is done.                                         *)
LEMMA MoveCopies ==
  ASSUME TypeOK,
         NEW k \in Nat, NEW size \in Nat,
         k + size <= count,
         \A a \in Address : mem[a] = IF a - dest \in Done THEN old[a - dest + src] ELSE old[a],
         \A x \in k .. k + size - 1 : x - dest + src \notin Done,
         Move(k, size)
  PROVE  /\ mem' \in [Address -> Byte]
         /\ \A a \in Address :
              mem'[a] = IF a - dest \in Done \cup (k .. k + size - 1)
                        THEN old[a - dest + src] ELSE old[a]
<1>1. /\ Last \in Nat /\ dest \in Nat /\ src \in Nat /\ count \in Nat
      /\ dest + count <= Last + 1 /\ src + count <= Last + 1
  BY LastAssumption, Zenon DEF TypeOK
<1>2. ASSUME NEW a \in Address, a \in dest + k .. dest + k + size - 1
      PROVE  /\ a - dest + src \in Address
             /\ a - dest \in k .. k + size - 1
             /\ mem[a - dest + src] = old[a - dest + src]
             /\ mem'[a] = old[a - dest + src]
  <2>1. a - dest + src \in Address /\ a - dest \in k .. k + size - 1
    BY <1>1, <1>2, LastAssumption DEF Address
  <2>2. (a - dest + src) - dest \notin Done
    BY <1>1, <2>1
  <2>3. mem[a - dest + src] = old[a - dest + src]
    BY <2>1, <2>2
  <2> QED
    BY <1>2, <2>1, <2>3 DEF Move
<1>3. ASSUME NEW a \in Address, a \notin dest + k .. dest + k + size - 1
      PROVE  mem'[a] = mem[a] /\ a - dest \notin k .. k + size - 1
  BY <1>1, <1>3 DEF Move, Address
<1>4. mem' \in [Address -> Byte]
  <2>1. \A a \in Address : mem'[a] \in Byte
    BY <1>2, <1>3 DEF TypeOK
  <2> QED
    BY <2>1 DEF Move
<1>5. ASSUME NEW a \in Address
      PROVE  mem'[a] = IF a - dest \in Done \cup (k .. k + size - 1)
                       THEN old[a - dest + src] ELSE old[a]
  <2>1. CASE a \in dest + k .. dest + k + size - 1
    BY <1>2, <2>1
  <2>2. CASE a \notin dest + k .. dest + k + size - 1
    BY <1>3, <2>2
  <2> QED
    BY <2>1, <2>2
<1> QED
  BY <1>4, <1>5

(* A store that keeps to the loop's bounds keeps the invariant.            *)
LEMMA MoveInv ==
  ASSUME IInv,
         NEW k \in Nat, NEW size \in Nat,
         k + size <= count,
         \A x \in k .. k + size - 1 : x - dest + src \notin Done,
         Move(k, size),
         Done' = Done \cup (k .. k + size - 1),
         old' = old, dest' = dest, src' = src, count' = count,
         pc' = pc, i' \in Nat, InBounds'
  PROVE  IInv'
<1>1. TypeOK
  BY DEF IInv
<1>2. \A a \in Address : mem[a] = IF a - dest \in Done THEN old[a - dest + src] ELSE old[a]
  BY DEF IInv
<1>3. /\ mem' \in [Address -> Byte]
      /\ \A a \in Address :
           mem'[a] = IF a - dest \in Done \cup (k .. k + size - 1)
                     THEN old[a - dest + src] ELSE old[a]
  BY <1>1, <1>2, MoveCopies, Zenon
<1>4. TypeOK'
  BY <1>1, <1>3, Zenon DEF TypeOK
<1>5. \A a \in Address : mem'[a] = IF a - dest' \in Done' THEN old'[a - dest' + src'] ELSE old'[a]
  <2>1. \A a \in Address : mem'[a] = IF a - dest \in Done' THEN old[a - dest + src] ELSE old[a]
    BY <1>3
  <2> QED
    BY <2>1
<1> QED
  BY <1>4, <1>5, Zenon DEF IInv

(* Moving on to another loop, with as much done as before.                 *)
LEMMA TurnInv ==
  ASSUME IInv, Done' = Done,
         mem' = mem, old' = old, dest' = dest, src' = src, count' = count,
         pc' \in {"words up", "bytes up", "bytes down", "words down", "done"},
         i' \in Nat, InBounds'
  PROVE  IInv'
<1>1. TypeOK'
  BY Zenon DEF IInv, TypeOK
<1> QED
  BY <1>1, Zenon DEF IInv

(* Arithmetic on whole words, going up and going down.                     *)
LEMMA NextWord ==
  ASSUME NEW j \in Nat, NEW m \in Nat, NEW c \in Nat, j < m, m * 4 <= c
  PROVE  j * 4 \in Nat /\ j * 4 + 4 <= c /\ j + 1 \in Nat /\ j + 1 <= m
OBVIOUS

(* The word below.                                                         *)
LEMMA WordBelow ==
  ASSUME NEW j \in Nat, NEW m \in Nat, NEW c \in Nat, j > 0, j <= m, m * 4 <= c
  PROVE  /\ (j - 1) * 4 \in Nat /\ (j - 1) * 4 + 4 <= c
         /\ j - 1 \in Nat /\ j - 1 <= m
OBVIOUS

(* The byte above.                                                         *)
LEMMA ByteAbove ==
  ASSUME NEW j \in Nat, NEW c \in Nat, j < c
  PROVE  j + 1 \in Nat /\ j + 1 <= c
OBVIOUS

(* The byte below.                                                         *)
LEMMA ByteBelow ==
  ASSUME NEW j \in Nat, NEW w \in Nat, NEW c \in Nat, j > w, j <= c
  PROVE  j - 1 \in Nat /\ w <= j - 1 /\ j - 1 <= c /\ j - 1 + 1 <= c
OBVIOUS

(* An index at its bound.                                                  *)
LEMMA AtBound ==
  ASSUME NEW j \in Nat, NEW m \in Nat
  PROVE  /\ j >= m /\ j <= m => j = m
         /\ ~(j > m) /\ m <= j => j = m
OBVIOUS

(* The state of a call that is under way.                                  *)
LEMMA Numbers ==
  ASSUME IInv
  PROVE  /\ Last \in Nat /\ dest \in Nat /\ src \in Nat /\ count \in Nat /\ i \in Nat
         /\ n \in Nat /\ n * 4 \in Nat /\ n * 4 <= count
<1>1. TypeOK
  BY DEF IInv
<1>2. Last \in Nat /\ dest \in Nat /\ src \in Nat /\ count \in Nat /\ i \in Nat
  BY <1>1, LastAssumption, Zenon DEF TypeOK
<1>3. n \in Nat /\ n * 4 <= count
  BY <1>1, Words DEF WordSize
<1>4. n * 4 \in Nat
  BY <1>3
<1> QED
  BY <1>2, <1>3, <1>4

(* Storing a word upwards: what is read lies above all that was written.   *)
LEMMA WordUpInv == IInv /\ WordUp => IInv'
<1> SUFFICES ASSUME IInv, WordUp PROVE IInv'
  OBVIOUS
<1>1. dest \in Nat /\ src \in Nat /\ count \in Nat /\ i \in Nat /\ n \in Nat /\ n * 4 <= count
  BY Numbers, Zenon
<1>2. pc = "words up" /\ i < n /\ pc' = "words up" /\ i' = i + 1
  BY Zenon DEF WordUp, Goto
<1>3. old' = old /\ dest' = dest /\ src' = src /\ count' = count
  BY Zenon DEF WordUp
<1>4. dest < src /\ dest' < src' /\ n' = n
  BY <1>2, <1>3, Zenon DEF IInv, InBounds, n
<1>5. Done = 0 .. i * 4 - 1 /\ Done' = 0 .. (i + 1) * 4 - 1
  BY <1>2 DEF Done, WordSize
<1>6. i * 4 \in Nat /\ i * 4 + 4 <= count /\ i + 1 \in Nat /\ i + 1 <= n
  BY <1>1, <1>2, NextWord, Zenon
<1>7. \A x \in i * 4 .. i * 4 + 4 - 1 : x - dest + src \notin Done
  BY <1>1, <1>4, <1>5
<1>8. Done' = Done \cup (i * 4 .. i * 4 + 4 - 1)
  BY <1>1, <1>5
<1>9. Move(i * 4, 4)
  BY Zenon DEF WordUp, WordSize
<1>10. InBounds'
  BY <1>2, <1>4, <1>6, Zenon DEF InBounds
<1>11. 4 \in Nat /\ i' \in Nat /\ pc' = pc
  BY <1>2, <1>6
<1> QED
  BY <1>3, <1>6, <1>7, <1>8, <1>9, <1>10, <1>11, MoveInv, Zenon

(* Storing a byte upwards.                                                 *)
LEMMA ByteUpInv == IInv /\ ByteUp => IInv'
<1> SUFFICES ASSUME IInv, ByteUp PROVE IInv'
  OBVIOUS
<1>1. /\ dest \in Nat /\ src \in Nat /\ count \in Nat /\ i \in Nat
      /\ n \in Nat /\ n * 4 \in Nat
  BY Numbers, Zenon
<1>2. pc = "bytes up" /\ i < count /\ pc' = "bytes up" /\ i' = i + 1
  BY Zenon DEF ByteUp, Goto
<1>3. old' = old /\ dest' = dest /\ src' = src /\ count' = count
  BY Zenon DEF ByteUp
<1>4. dest < src /\ dest' < src' /\ n' = n /\ n * 4 <= i
  BY <1>2, <1>3, Zenon DEF IInv, InBounds, n, WordSize
<1>5. Done = 0 .. i - 1 /\ Done' = 0 .. (i + 1) - 1
  BY <1>2 DEF Done
<1>6. i + 1 \in Nat /\ i + 1 <= count
  BY <1>1, <1>2, ByteAbove, Zenon
<1>7. n * 4 <= i + 1
  BY <1>1, <1>4
<1>8. \A x \in i .. i + 1 - 1 : x - dest + src \notin Done
  BY <1>1, <1>4, <1>5
<1>9. Done' = Done \cup (i .. i + 1 - 1)
  BY <1>1, <1>5
<1>10. Move(i, 1)
  BY Zenon DEF ByteUp
<1>11. InBounds'
  BY <1>2, <1>3, <1>4, <1>6, <1>7, Zenon DEF InBounds, WordSize
<1>12. 1 \in Nat /\ i' \in Nat /\ pc' = pc
  BY <1>2, <1>6
<1> QED
  BY <1>1, <1>3, <1>6, <1>8, <1>9, <1>10, <1>11, <1>12, MoveInv, Zenon

(* Storing a byte downwards: what is read lies below all that was written. *)
LEMMA ByteDownInv == IInv /\ ByteDown => IInv'
<1> SUFFICES ASSUME IInv, ByteDown PROVE IInv'
  OBVIOUS
<1>1. /\ dest \in Nat /\ src \in Nat /\ count \in Nat /\ i \in Nat
      /\ n \in Nat /\ n * 4 \in Nat
  BY Numbers, Zenon
<1>2. pc = "bytes down" /\ i > n * 4 /\ pc' = "bytes down" /\ i' = i - 1
  BY Zenon DEF ByteDown, BytesLeft, Goto, WordSize
<1>3. old' = old /\ dest' = dest /\ src' = src /\ count' = count
  BY Zenon DEF ByteDown
<1>4. src <= dest /\ src' <= dest' /\ n' = n /\ i <= count
  BY <1>2, <1>3, Zenon DEF IInv, InBounds, n
<1>5. Done = i .. count - 1 /\ Done' = i - 1 .. count - 1
  BY <1>2, <1>3 DEF Done
<1>6. i - 1 \in Nat /\ n * 4 <= i - 1 /\ i - 1 <= count /\ i - 1 + 1 <= count
  BY <1>1, <1>2, <1>4, ByteBelow, Zenon
<1>7. \A x \in i - 1 .. i - 1 + 1 - 1 : x - dest + src \notin Done
  BY <1>1, <1>4, <1>5
<1>8. Done' = Done \cup (i - 1 .. i - 1 + 1 - 1)
  BY <1>1, <1>4, <1>5
<1>9. Move(i - 1, 1)
  BY Zenon DEF ByteDown
<1>10. InBounds'
  BY <1>2, <1>3, <1>4, <1>6, Zenon DEF InBounds, WordSize
<1>11. 1 \in Nat /\ i' \in Nat /\ pc' = pc
  BY <1>2, <1>6
<1> QED
  BY <1>3, <1>6, <1>7, <1>8, <1>9, <1>10, <1>11, MoveInv, Zenon

(* Storing a word downwards.                                               *)
LEMMA WordDownInv == IInv /\ WordDown => IInv'
<1> SUFFICES ASSUME IInv, WordDown PROVE IInv'
  OBVIOUS
<1>1. dest \in Nat /\ src \in Nat /\ count \in Nat /\ i \in Nat /\ n \in Nat /\ n * 4 <= count
  BY Numbers, Zenon
<1>2. pc = "words down" /\ i > 0 /\ pc' = "words down" /\ i' = i - 1
  BY Zenon DEF WordDown, Goto
<1>3. old' = old /\ dest' = dest /\ src' = src /\ count' = count
  BY Zenon DEF WordDown
<1>4. src <= dest /\ src' <= dest' /\ n' = n /\ i <= n
  BY <1>2, <1>3, Zenon DEF IInv, InBounds, n
<1>5. Done = i * 4 .. count - 1 /\ Done' = (i - 1) * 4 .. count - 1
  BY <1>2, <1>3 DEF Done, WordSize
<1>6. /\ (i - 1) * 4 \in Nat /\ (i - 1) * 4 + 4 <= count
      /\ i - 1 \in Nat /\ i - 1 <= n
  BY <1>1, <1>2, <1>4, WordBelow, Zenon
<1>7. \A x \in (i - 1) * 4 .. (i - 1) * 4 + 4 - 1 : x - dest + src \notin Done
  BY <1>1, <1>4, <1>5
<1>8. Done' = Done \cup ((i - 1) * 4 .. (i - 1) * 4 + 4 - 1)
  BY <1>1, <1>5, <1>6
<1>9. Move((i - 1) * 4, 4)
  BY Zenon DEF WordDown, WordSize
<1>10. InBounds'
  BY <1>2, <1>4, <1>6, Zenon DEF InBounds
<1>11. 4 \in Nat /\ i' \in Nat /\ pc' = pc
  BY <1>2, <1>6
<1> QED
  BY <1>3, <1>6, <1>7, <1>8, <1>9, <1>10, <1>11, MoveInv, Zenon

(* The words are done: the loop over the bytes begins behind them.         *)
LEMMA WordsUpEndInv == IInv /\ WordsUpEnd => IInv'
<1> SUFFICES ASSUME IInv, WordsUpEnd PROVE IInv'
  OBVIOUS
<1>1. i \in Nat /\ n \in Nat /\ n * 4 \in Nat /\ n * 4 <= count
  BY Numbers, Zenon
<1>2. pc = "words up" /\ i >= n /\ pc' = "bytes up" /\ i' = n * 4
  BY Zenon DEF WordsUpEnd, Goto, WordSize
<1>3. mem' = mem /\ old' = old /\ dest' = dest /\ src' = src /\ count' = count
  BY Zenon DEF WordsUpEnd
<1>4. dest < src /\ dest' < src' /\ n' = n /\ i <= n
  BY <1>2, <1>3, Zenon DEF IInv, InBounds, n
<1>5. i = n
  BY <1>1, <1>2, <1>4, AtBound, Zenon
<1>6. Done = 0 .. i * 4 - 1 /\ Done' = 0 .. n * 4 - 1
  BY <1>2 DEF Done, WordSize
<1>7. Done' = Done
  BY <1>5, <1>6
<1>8. n * 4 <= n * 4
  BY <1>1
<1>9. InBounds'
  BY <1>1, <1>2, <1>3, <1>4, <1>8, Zenon DEF InBounds, WordSize
<1>10. i' \in Nat
  BY <1>1, <1>2, Zenon
<1> QED
  BY <1>2, <1>3, <1>7, <1>9, <1>10, TurnInv, Zenon

(* The bytes are done: the loop over the words ends below them.            *)
LEMMA BytesDownEndInv == IInv /\ BytesDownEnd => IInv'
<1> SUFFICES ASSUME IInv, BytesDownEnd PROVE IInv'
  OBVIOUS
<1>1. i \in Nat /\ n \in Nat /\ n * 4 \in Nat
  BY Numbers, Zenon
<1>2. pc = "bytes down" /\ ~(i > n * 4) /\ pc' = "words down" /\ i' = n
  BY Zenon DEF BytesDownEnd, BytesLeft, Goto, WordSize
<1>3. mem' = mem /\ old' = old /\ dest' = dest /\ src' = src /\ count' = count
  BY Zenon DEF BytesDownEnd
<1>4. src <= dest /\ src' <= dest' /\ n' = n /\ n * 4 <= i
  BY <1>2, <1>3, Zenon DEF IInv, InBounds, n, WordSize
<1>5. i = n * 4
  BY <1>1, <1>2, <1>4, AtBound, Zenon
<1>6. Done = i .. count - 1 /\ Done' = n * 4 .. count - 1
  BY <1>2, <1>3 DEF Done, WordSize
<1>7. Done' = Done
  BY <1>5, <1>6
<1>8. n <= n
  BY <1>1
<1>9. InBounds'
  BY <1>2, <1>4, <1>8, Zenon DEF InBounds
<1>10. i' \in Nat
  BY <1>1, <1>2, Zenon
<1> QED
  BY <1>2, <1>3, <1>7, <1>9, <1>10, TurnInv, Zenon

(* memcpy returns when all is done.                                        *)
LEMMA ReturnInv == IInv /\ Return => IInv'
<1> SUFFICES ASSUME IInv, Return PROVE IInv'
  OBVIOUS
<1>1. i \in Nat /\ count \in Nat
  BY Numbers, Zenon
<1>2. pc' = "done" /\ i' = 0
  BY Zenon DEF Return, Goto
<1>3. mem' = mem /\ old' = old /\ dest' = dest /\ src' = src /\ count' = count
  BY Zenon DEF Return
<1>4. Done' = 0 .. count - 1
  BY <1>2, <1>3 DEF Done
<1>5. Done = 0 .. count - 1
  <2>1. CASE pc = "bytes up" /\ i >= count
    <3>1. i <= count
      BY <2>1, Zenon DEF IInv, InBounds
    <3>2. i = count
      BY <1>1, <2>1, <3>1, AtBound, Zenon
    <3> QED
      BY <2>1, <3>2 DEF Done
  <2>2. CASE pc = "words down" /\ i = 0
    <3>1. Done = 0 * 4 .. count - 1
      BY <2>2 DEF Done, WordSize
    <3> QED
      BY <3>1
  <2> QED
    BY <2>1, <2>2, Zenon DEF Return
<1>6. InBounds'
  BY <1>2 DEF InBounds
<1>7. i' \in Nat
  BY <1>2
<1> QED
  BY <1>2, <1>3, <1>4, <1>5, <1>6, <1>7, TurnInv, Zenon

(* Every step of memcpy keeps the invariant.                               *)
LEMMA StepInv == IInv /\ [Next]_vars => IInv'
<1> SUFFICES ASSUME IInv, [Next]_vars PROVE IInv'
  OBVIOUS
<1>1. CASE Next
  BY <1>1, WordUpInv, WordsUpEndInv, ByteUpInv, ByteDownInv, BytesDownEndInv,
     WordDownInv, ReturnInv, Zenon DEF Next
<1>2. CASE UNCHANGED vars
  <2>1. /\ mem' = mem /\ old' = old /\ dest' = dest /\ src' = src
        /\ count' = count /\ pc' = pc /\ i' = i
    BY <1>2 DEF vars
  <2>2. Done' = Done
    BY <2>1 DEF Done
  <2>3. InBounds' /\ TypeOK'
    BY <2>1, Zenon DEF IInv, InBounds, TypeOK, n
  <2> QED
    BY <2>1, <2>2, <2>3, Zenon DEF IInv
<1> QED
  BY <1>1, <1>2

(* What is copied is always a final or an initial piece, and the rest is   *)
(* as it was (stdlib.c:23-43).                                             *)
THEOREM MemcpyInvariant == Spec => []IInv
BY InitInv, StepInv, PTL DEF Spec

(* The invariant when memcpy returns.                                      *)
LEMMA DoneCopies == IInv => CopiesAsOnePiece
<1> SUFFICES ASSUME IInv, pc = "done" PROVE mem = Copied(old)
  BY DEF CopiesAsOnePiece
<1>1. dest \in Nat /\ count \in Nat /\ Last \in Nat
  BY Numbers, Zenon
<1>2. mem \in [Address -> Byte]
  BY Zenon DEF IInv, TypeOK
<1>3. ASSUME NEW a \in Address PROVE mem[a] = Copied(old)[a]
  <2>1. mem[a] = IF a - dest \in Done THEN old[a - dest + src] ELSE old[a]
    BY DEF IInv
  <2>2. Done = 0 .. count - 1
    BY DEF Done
  <2>3. a - dest \in 0 .. count - 1 <=> a \in dest .. dest + count - 1
    BY <1>1 DEF Address
  <2> QED
    BY <2>1, <2>2, <2>3 DEF Copied
<1>4. Copied(old) = [a \in Address |-> Copied(old)[a]]
  BY DEF Copied
<1> QED
  BY <1>2, <1>3, <1>4

(* memcpy copies as if in one piece, for every size and contents of memory *)
(* and all arguments (stdlib.c:19-45).                                     *)
THEOREM MemcpyCorrect == Spec => []CopiesAsOnePiece
BY MemcpyInvariant, DoneCopies, PTL

(* What is left to read has not been written, in either direction.         *)
LEMMA RestIsOld == IInv => RestUntouched
<1> SUFFICES ASSUME IInv, NEW k \in (0 .. count - 1) \ Done
             PROVE  mem[src + k] = old[src + k]
  BY DEF RestUntouched
<1>1. dest \in Nat /\ src \in Nat /\ count \in Nat /\ i \in Nat /\ Last \in Nat
  BY Numbers, Zenon
<1>2. src + count <= Last + 1
  BY Zenon DEF IInv, TypeOK
<1>3. src + k \in Address
  BY <1>1, <1>2 DEF Address
<1>4. (src + k) - dest \notin Done
  <2>1. CASE pc = "words up"
    <3>1. Done = 0 .. i * 4 - 1
      BY <2>1 DEF Done, WordSize
    <3>2. dest < src
      BY <2>1, Zenon DEF IInv, InBounds
    <3> QED
      BY <1>1, <3>1, <3>2
  <2>2. CASE pc = "bytes up"
    <3>1. Done = 0 .. i - 1
      BY <2>2 DEF Done
    <3>2. dest < src
      BY <2>2, Zenon DEF IInv, InBounds
    <3> QED
      BY <1>1, <3>1, <3>2
  <2>3. CASE pc = "bytes down"
    <3>1. Done = i .. count - 1
      BY <2>3 DEF Done
    <3>2. src <= dest
      BY <2>3, Zenon DEF IInv, InBounds
    <3> QED
      BY <1>1, <3>1, <3>2
  <2>4. CASE pc = "words down"
    <3>1. Done = i * 4 .. count - 1
      BY <2>4 DEF Done, WordSize
    <3>2. src <= dest
      BY <2>4, Zenon DEF IInv, InBounds
    <3> QED
      BY <1>1, <3>1, <3>2
  <2>5. CASE pc = "done"
    BY <2>5 DEF Done
  <2>6. pc \in {"words up", "bytes up", "bytes down", "words down", "done"}
    BY Zenon DEF IInv, TypeOK
  <2> QED
    BY <2>1, <2>2, <2>3, <2>4, <2>5, <2>6
<1> QED
  BY <1>3, <1>4 DEF IInv

(* No byte of the source is overwritten before it has been read            *)
(* (stdlib.c:23-43).                                                       *)
THEOREM MemcpyReadsFirst == Spec => []RestUntouched
BY MemcpyInvariant, RestIsOld, PTL

-----------------------------------------------------------------------------
(* The string functions                                                    *)

Memory == [S!Address -> Char]

(* A set of numbers that is not empty has a least one.                     *)
LEMMA FirstNumber ==
  ASSUME NEW T \in SUBSET Nat, T # {}
  PROVE  \E x \in T : \A y \in T : x <= y
<1>1. PICK x \in T : \A y \in T : <<y, x>> \notin OpToRel(<, Nat)
  BY NatLessThanWellFounded, WFMin
<1>2. \A y \in T : y \in Nat /\ x \in Nat /\ ~(y < x)
  BY <1>1 DEF OpToRel
<1> QED
  BY <1>2

(* Min is that number, and Max and Min of a pair are its larger and its    *)
(* smaller member.                                                         *)
LEMMA MinIs ==
  ASSUME NEW T \in SUBSET Nat, T # {}
  PROVE  S!Min(T) \in T /\ \A y \in T : S!Min(T) <= y
BY FirstNumber DEF S!Min

LEMMA MinPair ==
  ASSUME NEW x \in Nat, NEW y \in Nat
  PROVE  S!Min({x, y}) = IF x <= y THEN x ELSE y
<1>1. S!Min({x, y}) \in {x, y} /\ \A z \in {x, y} : S!Min({x, y}) <= z
  BY MinIs
<1> QED
  BY <1>1

LEMMA MaxPair ==
  ASSUME NEW x \in Nat, NEW y \in Nat
  PROVE  S!Max({x, y}) = IF x >= y THEN x ELSE y
<1>1. \E z \in {x, y} : \A u \in {x, y} : z >= u
  <2>1. CASE x >= y
    BY <2>1
  <2>2. CASE y >= x
    BY <2>2
  <2> QED
    BY <2>1, <2>2
<1>2. S!Max({x, y}) \in {x, y} /\ \A u \in {x, y} : S!Max({x, y}) >= u
  BY <1>1 DEF S!Max
<1> QED
  BY <1>2

(* Addresses are numbers, and so are characters.                           *)
LEMMA Numeric ==
  /\ LastChar \in Nat /\ MaxWord \in Nat /\ LastChar < MaxWord
  /\ S!Address = 0 .. LastChar
  /\ \A m \in Memory : \A k \in 0 .. LastChar : m[k] \in Int
BY SizeAssumption, CharAssumption DEF S!Address, Memory

(* strlen stops at the first 0.                                            *)
LEMMA StrlenIs ==
  ASSUME NEW m \in Memory, NEW a \in S!String(m)
  PROVE  /\ a \in 0 .. LastChar
         /\ S!strlen(m, a) \in Nat /\ a + S!strlen(m, a) <= LastChar
         /\ m[a + S!strlen(m, a)] = 0
         /\ \A k \in a .. a + S!strlen(m, a) - 1 : m[k] # 0
<1> DEFINE Hits == {k \in a .. LastChar : k - a < MaxWord /\ m[k] = 0}
<1>1. a \in 0 .. LastChar /\ \E k \in a .. LastChar : m[k] = 0
  BY Numeric DEF S!String
<1>2. Hits # {} /\ Hits \in SUBSET Nat
  BY <1>1, Numeric
<1>3. S!Min(Hits) \in Hits /\ \A y \in Hits : S!Min(Hits) <= y
  BY <1>2, MinIs
<1>4. S!strlen(m, a) = S!Min(Hits) - a
  BY <1>2 DEF S!strlen, S!memchr
<1> HIDE DEF Hits
<1>5. PICK h \in Nat : h = S!Min(Hits)
  BY <1>2, <1>3
<1>6. h \in a .. LastChar /\ m[h] = 0 /\ S!strlen(m, a) = h - a
  BY <1>3, <1>4, <1>5 DEF Hits
<1>7. ASSUME NEW k \in a .. h - 1 PROVE m[k] # 0
  <2>1. k \notin Hits
    BY <1>1, <1>2, <1>3, <1>5
  <2>2. k \in a .. LastChar /\ k - a < MaxWord
    BY <1>1, <1>6, Numeric
  <2> QED
    BY <2>1, <2>2 DEF Hits
<1>8. h = a + S!strlen(m, a)
  BY <1>1, <1>5, <1>6
<1> QED
  BY <1>1, <1>5, <1>6, <1>7, <1>8, Numeric

(* And nothing else is a string's length.                                  *)
LEMMA LengthIs ==
  ASSUME NEW m \in Memory, NEW a \in Nat, NEW k \in Nat, a + k <= LastChar,
         m[a + k] = 0, \A j \in 0 .. k - 1 : m[a + j] # 0
  PROVE  a \in S!String(m) /\ S!strlen(m, a) = k
<1>1. a \in S!String(m)
  BY Numeric DEF S!String
<1>2. PICK l \in Nat : l = S!strlen(m, a)
  BY <1>1, StrlenIs
<1>3. a + l <= LastChar /\ m[a + l] = 0 /\ \A q \in a .. a + l - 1 : m[q] # 0
  BY <1>1, <1>2, StrlenIs
<1>4. ~(k < l)
  <2>1. k < l => a + k \in a .. a + l - 1
    OBVIOUS
  <2> QED
    BY <1>3, <2>1
<1>5. ~(l < k)
  <2>1. l < k => l \in 0 .. k - 1
    OBVIOUS
  <2> QED
    BY <1>3, <2>1
<1> QED
  BY <1>1, <1>2, <1>4, <1>5

(* Two strings part at offset k.                                           *)
PartAt(m, a, b, k) ==
  /\ a + k <= LastChar /\ b + k <= LastChar
  /\ m[a + k] = 0 \/ m[b + k] = 0 \/ m[a + k] # m[b + k]
  /\ \A j \in 0 .. k - 1 : m[a + j] = m[b + j] /\ m[a + j] # 0

(* What strcmp makes of the characters there: the end comes last.          *)
Order(x, y) ==
  IF x = y THEN 0
  ELSE IF x = 0 THEN 1 ELSE IF y = 0 THEN -1 ELSE IF x > y THEN 1 ELSE -1

(* They part at one place only.                                            *)
LEMMA PartOnce ==
  ASSUME NEW m, NEW a, NEW b, NEW k \in Nat, NEW l \in Nat,
         PartAt(m, a, b, k), PartAt(m, a, b, l)
  PROVE  k = l
<1>1. ~(k < l)
  <2>1. k < l => k \in 0 .. l - 1
    OBVIOUS
  <2> QED
    BY <2>1 DEF PartAt
<1>2. ~(l < k)
  <2>1. l < k => l \in 0 .. k - 1
    OBVIOUS
  <2> QED
    BY <2>1 DEF PartAt
<1> QED
  BY <1>1, <1>2

(* The other way round they part at the same place.                        *)
LEMMA PartSwaps ==
  ASSUME NEW m, NEW a, NEW b, NEW k \in Nat, PartAt(m, a, b, k)
  PROVE  PartAt(m, b, a, k)
BY DEF PartAt

(* strcmp compares the characters where the strings part.                  *)
LEMMA StrcmpIs ==
  ASSUME NEW m \in Memory, NEW a \in S!String(m), NEW b \in S!String(m)
  PROVE  \E k \in Nat : /\ PartAt(m, a, b, k)
                        /\ k <= S!strlen(m, a) /\ k <= S!strlen(m, b)
                        /\ S!strcmp(m, a, b) = Order(m[a + k], m[b + k])
<1> DEFINE Hits == {k \in 0 .. LastChar - S!Max({a, b}) :
                      m[a + k] = 0 \/ m[b + k] = 0 \/ m[a + k] # m[b + k]}
           la == S!strlen(m, a)
           lb == S!strlen(m, b)
<1>1. /\ a \in Nat /\ b \in Nat /\ la \in Nat /\ lb \in Nat
      /\ a + la <= LastChar /\ b + lb <= LastChar
      /\ m[a + la] = 0 /\ m[b + lb] = 0 /\ LastChar \in Nat
  BY StrlenIs, Numeric
<1> HIDE DEF la, lb
<1>2. \A k \in Nat : k \in 0 .. LastChar - S!Max({a, b}) <=>
                       a + k <= LastChar /\ b + k <= LastChar
  BY <1>1, MaxPair
<1>3. la <= lb => la \in Hits
  BY <1>1, <1>2
<1>4. lb <= la => lb \in Hits
  BY <1>1, <1>2
<1>5. Hits # {} /\ Hits \in SUBSET Nat
  BY <1>1, <1>3, <1>4
<1>6. S!Min(Hits) \in Hits /\ \A y \in Hits : S!Min(Hits) <= y
  BY <1>5, MinIs
<1>7. S!strcmp(m, a, b) = LET x == m[a + S!Min(Hits)]
                              y == m[b + S!Min(Hits)]
                          IN IF x = 0 \/ y = 0 THEN S!Ended(x, y)
                             ELSE IF x > y THEN 1 ELSE -1
  BY DEF S!strcmp
<1>8. PICK h \in Nat : h = S!Min(Hits)
  BY <1>5, <1>6
<1>9. /\ a + h <= LastChar /\ b + h <= LastChar
      /\ m[a + h] = 0 \/ m[b + h] = 0 \/ m[a + h] # m[b + h]
  BY <1>2, <1>6, <1>8
<1>10. h <= la /\ h <= lb
  <2> HIDE DEF Hits
  <2>1. la <= lb => h <= la
    BY <1>3, <1>6, <1>8
  <2>2. lb <= la => h <= lb
    BY <1>4, <1>6, <1>8
  <2> QED
    BY <1>1, <2>1, <2>2
<1>11. ASSUME NEW j \in 0 .. h - 1 PROVE m[a + j] = m[b + j] /\ m[a + j] # 0
  <2>1. j \in Nat /\ a + j <= LastChar /\ b + j <= LastChar
    BY <1>1, <1>9
  <2>2. j \notin Hits
    BY <1>5, <1>6, <1>8
  <2> QED
    BY <1>2, <2>1, <2>2
<1>12. PartAt(m, a, b, h)
  BY <1>9, <1>11 DEF PartAt
<1>13. S!strcmp(m, a, b) = Order(m[a + h], m[b + h])
  <2> HIDE DEF Hits
  <2>1. S!strcmp(m, a, b) =
          IF m[a + h] = 0 \/ m[b + h] = 0 THEN S!Ended(m[a + h], m[b + h])
          ELSE IF m[a + h] > m[b + h] THEN 1 ELSE -1
    BY <1>7, <1>8
  <2> QED
    BY <1>9, <2>1 DEF Order, S!Ended
<1> QED
  BY <1>10, <1>12, <1>13 DEF la, lb

(* The text of a string, character by character.                           *)
LEMMA TextIs ==
  ASSUME NEW m \in Memory, NEW a \in S!String(m)
  PROVE  S!Text(m, a) = [k \in 1 .. S!strlen(m, a) |-> m[a + k - 1]]
<1> DEFINE all == [k \in 1 .. LastChar + 1 |-> m[k - 1]]
<1>1. PICK l \in Nat : l = S!strlen(m, a)
  BY StrlenIs
<1>2. a \in Nat /\ LastChar \in Nat /\ a + l <= LastChar
  BY <1>1, StrlenIs, Numeric
<1>3. all \in Seq(Char)
  <2>1. \A k \in 1 .. LastChar + 1 : k - 1 \in S!Address
    BY <1>2, Numeric
  <2>2. all \in [1 .. LastChar + 1 -> Char]
    BY <2>1 DEF Memory
  <2> QED
    BY <1>2, <2>2
<1>4. S!Text(m, a) = SubSeq(all, a + 1, a + l)
  BY <1>1 DEF S!Text
<1>5. SubSeq(all, a + 1, a + l) = [k \in 1 .. (a + l) - (a + 1) + 1 |-> all[k + (a + 1) - 1]]
  BY <1>2, <1>3
<1>6. (a + l) - (a + 1) + 1 = l
  BY <1>2
<1>7. \A k \in 1 .. l : k + (a + 1) - 1 \in 1 .. LastChar + 1 /\ (k + (a + 1) - 1) - 1 = a + k - 1
  BY <1>2
<1>8. \A k \in 1 .. l : all[k + (a + 1) - 1] = m[a + k - 1]
  BY <1>7
<1> HIDE DEF all
<1> QED
  BY <1>1, <1>4, <1>5, <1>6, <1>8

(* strcmp is 0 for equal texts only.                                       *)
LEMMA StrcmpTellsApart ==
  ASSUME NEW m \in Memory, NEW a \in S!String(m), NEW b \in S!String(m)
  PROVE  S!strcmp(m, a, b) = 0 <=> S!Text(m, a) = S!Text(m, b)
<1>1. PICK la \in Nat, lb \in Nat : la = S!strlen(m, a) /\ lb = S!strlen(m, b)
  BY StrlenIs
<1>2. /\ a \in Nat /\ b \in Nat /\ LastChar \in Nat
      /\ a + la <= LastChar /\ b + lb <= LastChar
      /\ m[a + la] = 0 /\ m[b + lb] = 0
  BY <1>1, StrlenIs, Numeric
<1>3. PICK k \in Nat : /\ PartAt(m, a, b, k) /\ k <= la /\ k <= lb
                       /\ S!strcmp(m, a, b) = Order(m[a + k], m[b + k])
  BY <1>1, StrcmpIs
<1>4. /\ S!Text(m, a) = [j \in 1 .. la |-> m[a + j - 1]]
      /\ S!Text(m, b) = [j \in 1 .. lb |-> m[b + j - 1]]
  BY <1>1, TextIs
<1>5. ASSUME S!strcmp(m, a, b) = 0 PROVE S!Text(m, a) = S!Text(m, b)
  <2>1. m[a + k] = m[b + k]
    BY <1>3, <1>5 DEF Order
  <2>2. m[a + k] = 0 /\ m[b + k] = 0
    BY <1>3, <2>1 DEF PartAt
  <2>3. a + k <= LastChar /\ b + k <= LastChar
        /\ \A j \in 0 .. k - 1 : m[a + j] # 0 /\ m[b + j] # 0 /\ m[a + j] = m[b + j]
    BY <1>3 DEF PartAt
  <2>4. la = k /\ lb = k
    BY <1>1, <1>2, <2>2, <2>3, LengthIs
  <2>5. ASSUME NEW j \in 1 .. k PROVE m[a + j - 1] = m[b + j - 1]
    <3>1. j - 1 \in 0 .. k - 1 /\ a + j - 1 = a + (j - 1) /\ b + j - 1 = b + (j - 1)
      BY <1>2
    <3> QED
      BY <2>3, <3>1
  <2> QED
    BY <1>4, <2>4, <2>5
<1>6. ASSUME S!Text(m, a) = S!Text(m, b) PROVE S!strcmp(m, a, b) = 0
  <2>1. la = lb
    <3>1. Len([j \in 1 .. la |-> m[a + j - 1]]) = la
      OBVIOUS
    <3>2. Len([j \in 1 .. lb |-> m[b + j - 1]]) = lb
      OBVIOUS
    <3> QED
      BY <1>4, <1>6, <3>1, <3>2
  <2>2. ASSUME NEW j \in 0 .. la - 1 PROVE m[a + j] = m[b + j] /\ m[a + j] # 0
    <3>1. j + 1 \in 1 .. la /\ a + (j + 1) - 1 = a + j /\ b + (j + 1) - 1 = b + j
      BY <1>2
    <3>2. m[a + (j + 1) - 1] = m[b + (j + 1) - 1]
      BY <1>4, <1>6, <2>1, <3>1
    <3>3. a + j \in a .. a + la - 1
      BY <1>2
    <3>4. m[a + j] # 0
      BY <1>1, <3>3, StrlenIs
    <3> QED
      BY <3>1, <3>2, <3>4
  <2>3. PartAt(m, a, b, la)
    BY <1>2, <2>1, <2>2 DEF PartAt
  <2>4. k = la
    BY <1>3, <2>3, PartOnce
  <2> QED
    BY <1>2, <1>3, <2>1, <2>4 DEF Order
<1> QED
  BY <1>5, <1>6

(* Turned around, strcmp changes its sign.                                 *)
LEMMA StrcmpTurns ==
  ASSUME NEW m \in Memory, NEW a \in S!String(m), NEW b \in S!String(m)
  PROVE  S!strcmp(m, b, a) = -S!strcmp(m, a, b)
<1>1. PICK k \in Nat : /\ PartAt(m, a, b, k)
                       /\ S!strcmp(m, a, b) = Order(m[a + k], m[b + k])
  BY StrcmpIs
<1>2. PICK l \in Nat : /\ PartAt(m, b, a, l)
                       /\ S!strcmp(m, b, a) = Order(m[b + l], m[a + l])
  BY StrcmpIs
<1>3. PartAt(m, a, b, l)
  BY <1>2, PartSwaps
<1>4. k = l
  BY <1>1, <1>3, PartOnce
<1>5. PICK x \in Int, y \in Int : x = m[a + k] /\ y = m[b + k]
  <2>1. a \in Nat /\ b \in Nat /\ LastChar \in Nat
    BY StrlenIs, Numeric
  <2>2. a + k \in 0 .. LastChar /\ b + k \in 0 .. LastChar
    BY <1>1, <2>1 DEF PartAt
  <2> QED
    BY <2>2, Numeric
<1>6. Order(y, x) = -Order(x, y)
  BY DEF Order
<1> QED
  BY <1>1, <1>2, <1>4, <1>5, <1>6

(* The order of characters is transitive.                                  *)
LEMMA OrderTransitive ==
  ASSUME NEW x \in Int, NEW y \in Int, NEW z \in Int, Order(x, y) >= 0, Order(y, z) >= 0
  PROVE  Order(x, z) >= 0 /\ (x = z /\ x # 0 => x = y)
BY DEF Order

(* And so is strcmp.                                                       *)
LEMMA StrcmpTransitive ==
  ASSUME NEW m \in Memory, NEW a \in S!String(m), NEW b \in S!String(m),
         NEW c \in S!String(m), S!strcmp(m, a, b) >= 0, S!strcmp(m, b, c) >= 0
  PROVE  S!strcmp(m, a, c) >= 0
<1>1. a \in Nat /\ b \in Nat /\ c \in Nat /\ LastChar \in Nat
  BY StrlenIs, Numeric
<1>2. PICK k \in Nat : PartAt(m, a, b, k) /\ Order(m[a + k], m[b + k]) >= 0
  BY StrcmpIs
<1>3. PICK l \in Nat : PartAt(m, b, c, l) /\ Order(m[b + l], m[c + l]) >= 0
  BY StrcmpIs
<1>4. PICK q \in Nat : PartAt(m, a, c, q) /\ S!strcmp(m, a, c) = Order(m[a + q], m[c + q])
  BY StrcmpIs
<1>5. CASE k < l
  <2>1. m[b + k] = m[c + k] /\ m[b + k] # 0
    <3>1. k \in 0 .. l - 1
      BY <1>5
    <3> QED
      BY <1>3, <3>1 DEF PartAt
  <2>2. c + k <= LastChar
    BY <1>1, <1>3, <1>5 DEF PartAt
  <2>3. \A j \in 0 .. k - 1 : j \in 0 .. l - 1
    BY <1>5
  <2>4. PartAt(m, a, c, k)
    BY <1>2, <1>3, <2>1, <2>2, <2>3 DEF PartAt
  <2>5. q = k
    BY <1>4, <2>4, PartOnce
  <2> QED
    BY <1>2, <1>4, <2>1, <2>5
<1>6. CASE l < k
  <2>1. m[a + l] = m[b + l] /\ m[a + l] # 0
    <3>1. l \in 0 .. k - 1
      BY <1>6
    <3> QED
      BY <1>2, <3>1 DEF PartAt
  <2>2. a + l <= LastChar
    BY <1>1, <1>2, <1>6 DEF PartAt
  <2>3. \A j \in 0 .. l - 1 : j \in 0 .. k - 1
    BY <1>6
  <2>4. PartAt(m, a, c, l)
    BY <1>2, <1>3, <2>1, <2>2, <2>3 DEF PartAt
  <2>5. q = l
    BY <1>4, <2>4, PartOnce
  <2> QED
    BY <1>3, <1>4, <2>1, <2>5
<1>7. CASE k = l
  <2>1. PICK x \in Int, y \in Int, z \in Int : x = m[a + k] /\ y = m[b + k] /\ z = m[c + k]
    <3>1. a + k \in 0 .. LastChar /\ b + k \in 0 .. LastChar /\ c + k \in 0 .. LastChar
      BY <1>1, <1>2, <1>3, <1>7 DEF PartAt
    <3> QED
      BY <3>1, Numeric
  <2>2. Order(x, y) >= 0 /\ Order(y, z) >= 0
    BY <1>2, <1>3, <1>7, <2>1
  <2>3. Order(x, z) >= 0 /\ (x = z /\ x # 0 => x = y)
    BY <2>2, OrderTransitive
  <2>4. x = 0 \/ y = 0 \/ x # y
    BY <1>2, <2>1 DEF PartAt
  <2>5. x = 0 \/ z = 0 \/ x # z
    BY <2>3, <2>4
  <2>6. PartAt(m, a, c, k)
    BY <1>2, <1>3, <1>7, <2>1, <2>5 DEF PartAt
  <2>7. q = k
    BY <1>4, <2>6, PartOnce
  <2> QED
    BY <1>4, <2>1, <2>3, <2>7
<1> QED
  BY <1>5, <1>6, <1>7

(* Over the whole of a string, memcmp agrees with strcmp.                  *)
LEMMA MemcmpAgrees ==
  ASSUME NEW m \in Memory, NEW a \in S!String(m), NEW b \in S!String(m),
         S!strlen(m, a) <= LastChar - b
  PROVE  S!memcmp(m, a, b, S!strlen(m, a) + 1) = 0 <=> S!strcmp(m, a, b) = 0
<1>1. PICK la \in Nat : la = S!strlen(m, a)
  BY StrlenIs
<1>2. /\ a \in Nat /\ b \in Nat /\ LastChar \in Nat
      /\ a + la <= LastChar /\ b + la <= LastChar /\ m[a + la] = 0
      /\ \A j \in 0 .. la - 1 : m[a + j] # 0
  <2>1. /\ a \in Nat /\ b \in Nat /\ LastChar \in Nat
        /\ a + la <= LastChar /\ m[a + la] = 0
        /\ \A q \in a .. a + la - 1 : m[q] # 0
    BY <1>1, StrlenIs, Numeric
  <2>2. \A j \in 0 .. la - 1 : a + j \in a .. a + la - 1
    BY <2>1
  <2>3. b + la <= LastChar
    BY <1>1, <2>1
  <2> QED
    BY <2>1, <2>2, <2>3
<1>3. PICK k \in Nat : PartAt(m, a, b, k) /\ S!strcmp(m, a, b) = Order(m[a + k], m[b + k])
  BY StrcmpIs
<1> DEFINE Hits == {j \in 0 .. (la + 1) - 1 : m[a + j] # m[b + j]}
<1>4. S!memcmp(m, a, b, la + 1) = 0 <=> Hits = {}
  BY DEF S!memcmp
<1>5. ASSUME Hits = {} PROVE S!strcmp(m, a, b) = 0
  <2>1. \A j \in 0 .. la : m[a + j] = m[b + j]
    <3>1. \A j \in 0 .. la : j \in 0 .. (la + 1) - 1
      OBVIOUS
    <3> QED
      BY <1>5, <3>1
  <2>2. \A j \in 0 .. la - 1 : j \in 0 .. la
    OBVIOUS
  <2>3. la \in 0 .. la
    OBVIOUS
  <2>4. PartAt(m, a, b, la)
    BY <1>2, <2>1, <2>2 DEF PartAt
  <2>5. k = la
    BY <1>3, <2>4, PartOnce
  <2> QED
    BY <1>2, <1>3, <2>1, <2>3, <2>5 DEF Order
<1>6. ASSUME S!strcmp(m, a, b) = 0 PROVE Hits = {}
  <2>1. m[a + k] = m[b + k]
    BY <1>3, <1>6 DEF Order
  <2>2. m[a + k] = 0 /\ m[b + k] = 0
    BY <1>3, <2>1 DEF PartAt
  <2>3. a + k <= LastChar /\ \A j \in 0 .. k - 1 : m[a + j] # 0 /\ m[a + j] = m[b + j]
    BY <1>3 DEF PartAt
  <2>4. la = k
    <3>1. a \in Nat /\ a + k <= LastChar /\ \A j \in 0 .. k - 1 : m[a + j] # 0
      BY <1>2, <2>3
    <3>2. S!strlen(m, a) = k
      BY <2>2, <3>1, LengthIs
    <3> QED
      BY <1>1, <3>2
  <2>5. ASSUME NEW j \in 0 .. (la + 1) - 1 PROVE m[a + j] = m[b + j]
    <3>1. j \in 0 .. k - 1 \/ j = k
      BY <2>4
    <3> QED
      BY <2>1, <2>3, <3>1
  <2> QED
    BY <2>5
<1> QED
  BY <1>1, <1>4, <1>5, <1>6

(* strchr finds the first occurrence, and nothing behind the string.       *)
LEMMA StrchrFinds ==
  ASSUME NEW m \in Memory, NEW a \in S!String(m), NEW v \in Char
  PROVE  LET found == S!strchr(m, a, v)
             end == a + S!strlen(m, a) IN
         IF v \in {m[k] : k \in a .. end}
         THEN found \in a .. end /\ m[found] = v /\ \A k \in a .. found - 1 : m[k] # v
         ELSE found = S!NULL
<1>1. PICK l \in Nat : l = S!strlen(m, a)
  BY StrlenIs
<1>2. /\ a \in Nat /\ LastChar \in Nat /\ a + l <= LastChar /\ m[a + l] = 0
      /\ \A k \in a .. a + l - 1 : m[k] # 0
  BY <1>1, StrlenIs, Numeric
<1>3. CASE v = 0
  <2>1. S!strchr(m, a, v) = a + l
    BY <1>1, <1>3 DEF S!strchr
  <2>2. a + l \in a .. a + l
    BY <1>2
  <2> QED
    BY <1>1, <1>2, <1>3, <2>1, <2>2
<1>4. CASE v # 0
  <2> DEFINE Hits == {k \in a .. LastChar : k - a < l /\ m[k] = v}
  <2>1. S!strchr(m, a, v) = IF Hits = {} THEN S!NULL ELSE S!Min(Hits)
    BY <1>1, <1>4 DEF S!strchr, S!memchr
  <2>2. \A k \in a .. a + l : m[k] = v <=> k \in Hits
    <3>1. \A k \in a .. a + l : k \in a .. LastChar /\ (k # a + l => k - a < l)
      BY <1>2
    <3>2. ~((a + l) - a < l)
      BY <1>2
    <3> QED
      BY <1>2, <1>4, <3>1, <3>2
  <2>3. Hits \in SUBSET (a .. a + l)
    BY <1>2
  <2> HIDE DEF Hits
  <2>4. CASE Hits = {}
    <3>1. v \notin {m[k] : k \in a .. a + l}
      BY <2>2, <2>4
    <3> QED
      BY <1>1, <2>1, <2>4, <3>1
  <2>5. CASE Hits # {}
    <3>1. Hits \in SUBSET Nat
      BY <1>2, <2>3
    <3>2. S!Min(Hits) \in Hits /\ \A y \in Hits : S!Min(Hits) <= y
      BY <2>5, <3>1, MinIs
    <3>3. PICK f \in a .. a + l : f = S!Min(Hits)
      BY <2>3, <3>2
    <3>4. f \in Nat /\ m[f] = v /\ v \in {m[k] : k \in a .. a + l}
      BY <1>2, <2>2, <3>2, <3>3
    <3>5. ASSUME NEW k \in a .. f - 1 PROVE m[k] # v
      <4>1. k \in a .. a + l /\ ~(f <= k)
        BY <1>2, <3>3, <3>4
      <4>2. k \notin Hits
        BY <3>2, <3>3, <4>1
      <4> QED
        BY <2>2, <4>1, <4>2
    <3>6. S!strchr(m, a, v) = f
      BY <2>1, <2>5, <3>3
    <3> QED
      BY <1>1, <3>3, <3>4, <3>5, <3>6
  <2> QED
    BY <2>4, <2>5
<1> QED
  BY <1>3, <1>4

(* Memory full of characters is read as ReadsStrings says.                 *)
LEMMA MemoryReads == text \in Memory => ReadsStrings
<1> SUFFICES ASSUME text \in Memory PROVE S!ReadsStrings
  BY DEF ReadsStrings
<1>1. ASSUME NEW a \in S!String(text), NEW b \in S!String(text)
      PROVE  /\ S!strcmp(text, a, b) = 0 <=> S!Text(text, a) = S!Text(text, b)
             /\ S!strcmp(text, b, a) = -S!strcmp(text, a, b)
  BY StrcmpTellsApart, StrcmpTurns
<1>2. ASSUME NEW a \in S!String(text), NEW b \in S!String(text), NEW c \in S!String(text)
      PROVE  S!strcmp(text, a, b) >= 0 /\ S!strcmp(text, b, c) >= 0
               => S!strcmp(text, a, c) >= 0
  BY StrcmpTransitive
<1>3. ASSUME NEW a \in S!String(text), NEW b \in S!String(text)
      PROVE  S!strlen(text, a) <= LastChar - b =>
               (S!memcmp(text, a, b, S!strlen(text, a) + 1) = 0 <=> S!strcmp(text, a, b) = 0)
  BY MemcmpAgrees
<1> QED
  BY <1>1, <1>2, <1>3, StrchrFinds DEF S!ReadsStrings

-----------------------------------------------------------------------------
(* Copying strings                                                         *)

(* What is copied arrives, whatever else is stored outside of it.          *)
LEMMA CopyArrives ==
  ASSUME text \in Memory, text' \in Memory,
         NEW d \in S!Address, NEW s \in S!String(text),
         d + S!strlen(text, s) <= LastChar,
         \A k \in 0 .. S!strlen(text, s) : text'[d + k] = text[s + k]
  PROVE  S!Arrives(d, s)
<1>1. PICK l \in Nat : l = S!strlen(text, s)
  BY StrlenIs
<1>2. /\ s \in Nat /\ d \in Nat /\ LastChar \in Nat /\ s + l <= LastChar /\ text[s + l] = 0
      /\ \A k \in s .. s + l - 1 : text[k] # 0
  BY <1>1, StrlenIs, Numeric
<1>3. \A k \in 0 .. l : text'[d + k] = text[s + k]
  BY <1>1
<1>4. \A k \in 0 .. l - 1 : k \in 0 .. l /\ s + k \in s .. s + l - 1
  BY <1>2
<1>5. text'[d + l] = 0 /\ \A k \in 0 .. l - 1 : text'[d + k] # 0
  <2>1. l \in 0 .. l
    OBVIOUS
  <2> QED
    BY <1>2, <1>3, <1>4, <2>1
<1>6. d + l <= LastChar
  BY <1>1
<1>7. d \in S!String(text') /\ S!strlen(text', d) = l
  BY <1>2, <1>5, <1>6, LengthIs
<1>8. /\ S!Text(text', d) = [k \in 1 .. l |-> text'[d + k - 1]]
      /\ S!Text(text, s) = [k \in 1 .. l |-> text[s + k - 1]]
  BY <1>1, <1>7, TextIs
<1>9. ASSUME NEW k \in 1 .. l PROVE text'[d + k - 1] = text[s + k - 1]
  <2>1. k - 1 \in 0 .. l /\ d + k - 1 = d + (k - 1) /\ s + k - 1 = s + (k - 1)
    BY <1>2
  <2> QED
    BY <1>3, <2>1
<1>10. S!Text(text', d) = S!Text(text, s)
  BY <1>8, <1>9
<1> QED
  BY <1>7, <1>10 DEF S!Arrives

(* A copy of c characters from s to d, both inside memory.                 *)
LEMMA CopiedIs ==
  ASSUME text \in Memory, NEW d \in S!Address, NEW s \in S!Address, NEW c \in Nat,
         d + c <= LastChar + 1, s + c <= LastChar + 1
  PROVE  /\ S!Copied(d, s, c) \in Memory
         /\ \A k \in 0 .. c - 1 : S!Copied(d, s, c)[d + k] = text[s + k]
         /\ \A k \in S!Address : k \notin d .. d + c - 1 => S!Copied(d, s, c)[k] = text[k]
<1>1. d \in Nat /\ s \in Nat /\ LastChar \in Nat
  BY Numeric
<1>2. \A k \in d .. d + c - 1 : k - d + s \in S!Address
  BY <1>1, Numeric
<1>3. S!Copied(d, s, c) \in Memory
  BY <1>2 DEF S!Copied, Memory
<1>4. ASSUME NEW k \in 0 .. c - 1 PROVE S!Copied(d, s, c)[d + k] = text[s + k]
  <2>1. d + k \in S!Address /\ d + k \in d .. d + c - 1 /\ (d + k) - d + s = s + k
    BY <1>1, Numeric
  <2> QED
    BY <2>1 DEF S!Copied
<1> QED
  BY <1>3, <1>4 DEF S!Copied

(* strcpy copies the whole string, its 0 included.                         *)
LEMMA StrcpyCopies ==
  ASSUME text \in Memory, NEW d \in S!Address, NEW s \in S!String(text), S!strcpy(d, s)
  PROVE  /\ text' \in Memory
         /\ S!Within(d, S!strlen(text, s) + 1) /\ S!Arrives(d, s)
<1>1. PICK l \in Nat : l = S!strlen(text, s)
  BY StrlenIs
<1>2. s \in S!Address /\ s \in Nat /\ d \in Nat /\ LastChar \in Nat /\ s + l <= LastChar
  BY <1>1, StrlenIs, Numeric
<1>3. d + l <= LastChar
  BY <1>1, <1>2, Numeric DEF S!strcpy
<1>4. text' = S!Copied(d, s, l + 1)
  BY <1>1 DEF S!strcpy, S!Whole
<1>5. /\ text' \in Memory
      /\ \A k \in 0 .. (l + 1) - 1 : text'[d + k] = text[s + k]
      /\ \A k \in S!Address : k \notin d .. d + (l + 1) - 1 => text'[k] = text[k]
  <2>1. l + 1 \in Nat /\ d + (l + 1) <= LastChar + 1 /\ s + (l + 1) <= LastChar + 1
    BY <1>2, <1>3
  <2> QED
    BY <1>2, <1>4, <2>1, CopiedIs
<1>6. S!Within(d, l + 1)
  BY <1>5 DEF S!Within
<1>7. S!Arrives(d, s)
  <2>1. \A k \in 0 .. l : k \in 0 .. (l + 1) - 1
    OBVIOUS
  <2>2. \A k \in 0 .. l : text'[d + k] = text[s + k]
    BY <1>5, <2>1
  <2> QED
    BY <1>1, <1>3, <1>5, <2>2, CopyArrives
<1> QED
  BY <1>1, <1>5, <1>6, <1>7

(* strncpy keeps to max_count, but for 0, and copies what fits and does    *)
(* not overlap.                                                            *)
LEMMA StrncpyCopies ==
  ASSUME text \in Memory, NEW d \in S!Address, NEW s \in S!String(text),
         NEW c \in 0 .. LastChar + 1, S!strncpy(d, s, c)
  PROVE  /\ text' \in Memory
         /\ c > 0 => S!Within(d, c)
         /\ /\ S!strlen(text, s) < c
            /\ d > s + S!strlen(text, s) \/ s > d + S!strlen(text, s)
            => S!Arrives(d, s)
<1>1. PICK l \in Nat : l = S!strlen(text, s)
  BY StrlenIs
<1>2. /\ s \in S!Address /\ s \in Nat /\ d \in Nat /\ LastChar \in Nat /\ s + l <= LastChar
      /\ c \in Nat
  BY <1>1, StrlenIs, Numeric
<1>3. d + l <= LastChar
  BY <1>1, <1>2, Numeric DEF S!strncpy
<1>4. S!Room(c) \in Nat /\ (c > 0 => S!Room(c) = c - 1)
  <2>1. MaxWord \in Nat /\ LastChar < MaxWord /\ LastChar \in Nat
    BY Numeric
  <2>2. CASE c = 0
    <3>1. (c - 1) % (MaxWord + 1) \in 0 .. MaxWord
      BY <2>1, <2>2
    <3> QED
      BY <2>1, <2>2, <3>1 DEF S!Room
  <2>3. CASE c > 0
    <3>1. c - 1 \in 0 .. MaxWord
      BY <2>1, <2>3
    <3>2. (c - 1) % (MaxWord + 1) = c - 1
      BY <2>1, <3>1
    <3> QED
      BY <1>2, <2>3, <3>2 DEF S!Room
  <2> QED
    BY <1>2, <2>2, <2>3
<1>5. PICK r \in Nat : r = S!Min({S!Room(c), l})
  BY <1>4, MinPair
<1>6. r <= l /\ (c > 0 => r <= c - 1) /\ (l < c => r = l)
  BY <1>2, <1>4, <1>5, MinPair
<1> DEFINE copy == S!Copied(d, s, r)
<1>7. text' = IF S!strlen(copy, s) < r + 1 THEN [copy EXCEPT ![d + r] = 0] ELSE copy
  BY <1>1, <1>5 DEF S!strncpy
<1>8. /\ copy \in Memory
      /\ \A k \in 0 .. r - 1 : copy[d + k] = text[s + k]
      /\ \A k \in S!Address : k \notin d .. d + r - 1 => copy[k] = text[k]
  <2>1. d + r <= LastChar + 1 /\ s + r <= LastChar + 1
    BY <1>2, <1>3, <1>6
  <2> QED
    BY <1>2, <2>1, CopiedIs
<1> HIDE DEF copy
<1>9. d + r \in S!Address /\ [copy EXCEPT ![d + r] = 0] \in Memory
  <2>1. d + r \in S!Address
    BY <1>2, <1>3, <1>6, Numeric
  <2> QED
    BY <1>8, <2>1, CharAssumption DEF Memory
<1>10. text' \in Memory
  BY <1>7, <1>8, <1>9
<1>11. ASSUME c > 0 PROVE S!Within(d, c)
  <2>1. ASSUME NEW k \in S!Address, k \notin d .. d + c - 1 PROVE text'[k] = text[k]
    <3>1. k # d + r /\ k \notin d .. d + r - 1
      BY <1>2, <1>6, <1>11, <2>1, Numeric
    <3>2. copy[k] = text[k] /\ [copy EXCEPT ![d + r] = 0][k] = copy[k]
      BY <1>8, <3>1 DEF Memory
    <3> QED
      BY <1>7, <3>2
  <2> QED
    BY <2>1 DEF S!Within
<1>12. ASSUME l < c, d > s + l \/ s > d + l PROVE S!Arrives(d, s)
  <2>1. r = l
    BY <1>6, <1>12
  <2>2. \A k \in 0 .. l : s + k \in S!Address /\ s + k \notin d .. d + r - 1
    BY <1>2, <1>12, <2>1, Numeric
  <2>3. \A k \in 0 .. l : copy[s + k] = text[s + k]
    BY <1>8, <2>2
  <2>4. S!strlen(copy, s) = l
    <3>1. \A k \in 0 .. l - 1 : k \in 0 .. l /\ s + k \in s .. s + l - 1
      BY <1>2
    <3>2. text[s + l] = 0 /\ \A k \in s .. s + l - 1 : text[k] # 0
      BY <1>1, StrlenIs
    <3>3. l \in 0 .. l
      OBVIOUS
    <3>4. copy[s + l] = 0 /\ \A k \in 0 .. l - 1 : copy[s + k] # 0
      BY <2>3, <3>1, <3>2, <3>3
    <3> QED
      BY <1>2, <1>8, <3>4, LengthIs
  <2>5. text' = [copy EXCEPT ![d + l] = 0]
    BY <1>7, <2>1, <2>4
  <2>6. ASSUME NEW k \in 0 .. l PROVE text'[d + k] = text[s + k]
    <3>1. CASE k = l
      <4>1. text[s + l] = 0
        BY <1>1, StrlenIs
      <4> QED
        BY <1>8, <1>9, <2>1, <2>5, <3>1, <4>1 DEF Memory
    <3>2. CASE k # l
      <4>1. k \in 0 .. r - 1 /\ d + k # d + l /\ d + k \in S!Address
        BY <1>2, <1>3, <2>1, <3>2, Numeric
      <4> QED
        BY <1>8, <2>5, <4>1 DEF Memory
    <3> QED
      BY <3>1, <3>2
  <2> QED
    BY <1>1, <1>3, <1>10, <2>6, CopyArrives
<1> QED
  BY <1>1, <1>10, <1>11, <1>12

-----------------------------------------------------------------------------
(* The theorems about strings                                              *)

(* Any copy out of memory full of characters does that.                    *)
LEMMA MemoryCopies == text \in Memory => S!CopyStep
<1> SUFFICES ASSUME text \in Memory PROVE S!CopyStep
  OBVIOUS
<1>1. ASSUME NEW d \in S!Address, NEW s \in S!String(text), S!strcpy(d, s)
      PROVE  S!Within(d, S!strlen(text, s) + 1) /\ S!Arrives(d, s)
  BY <1>1, StrcpyCopies
<1>2. ASSUME NEW d \in S!Address, NEW s \in S!String(text),
             NEW c \in 1 .. LastChar + 1, S!strncpy(d, s, c)
      PROVE  /\ S!Within(d, c)
             /\ /\ S!strlen(text, s) < c
                /\ d > s + S!strlen(text, s) \/ s > d + S!strlen(text, s)
                => S!Arrives(d, s)
  <2>1. c \in 0 .. LastChar + 1 /\ c > 0
    BY Numeric
  <2> QED
    BY <1>2, <2>1, StrncpyCopies
<1> QED
  BY <1>1, <1>2 DEF S!CopyStep

(* Memory stays full of characters, whichever part of the library runs     *)
(* (stdlib.c:71-81).                                                       *)
LEMMA StringsType == LibrarySpec => [](text \in Memory)
<1>1. LibraryInit => text \in Memory
  <2>1. NoText \in Memory
    BY CharAssumption DEF NoText, Memory
  <2> QED
    BY <2>1 DEF LibraryInit, S!Init, Memory
<1>2. text \in Memory /\ [LibraryNext]_<<part, vars, text, list>> => (text \in Memory)'
  <2> SUFFICES ASSUME text \in Memory, [LibraryNext]_<<part, vars, text, list>>
               PROVE  text' \in Memory
    OBVIOUS
  <2>1. CASE UNCHANGED text
    BY <2>1
  <2>2. CASE S!Next
    <3>1. ASSUME NEW d \in S!Address, NEW s \in S!String(text), S!strcpy(d, s)
          PROVE  text' \in Memory
      BY <3>1, StrcpyCopies
    <3>2. ASSUME NEW d \in S!Address, NEW s \in S!String(text),
                 NEW c \in 0 .. LastChar + 1, S!strncpy(d, s, c)
          PROVE  text' \in Memory
      BY <3>2, StrncpyCopies
    <3> QED
      BY <2>2, <3>1, <3>2 DEF S!Next
  <2> QED
    BY <2>1, <2>2 DEF LibraryNext
<1> QED
  BY <1>1, <1>2, PTL DEF LibrarySpec

(* For every size of memory and all of its contents, strcmp is a total     *)
(* order of the strings that is 0 for equal ones only, memcmp agrees, and  *)
(* strchr finds the first occurrence of a character (stdlib.c:47-69,       *)
(* 83-99).                                                                 *)
THEOREM StringsAreRead == LibrarySpec => []ReadsStrings
BY StringsType, MemoryReads, PTL

(* For every size of memory and all of its contents, strcpy makes the      *)
(* destination the string the source was, however they overlap; strncpy    *)
(* does when they are apart and it fits; and neither stores behind its     *)
(* bound (stdlib.c:71-81).                                                 *)
THEOREM StringsAreCopied == LibrarySpec => CopiesStrings
BY StringsType, MemoryCopies, PTL DEF CopiesStrings, S!CopiesStrings

-----------------------------------------------------------------------------
(* The list                                                                *)

(* List counts as FiniteSets does.                                         *)
LEMMA SameCardinality == ASSUME NEW T PROVE L!Cardinality(T) = Cardinality(T)
BY DEF L!Cardinality, Cardinality

(* c is the chain of size items that the head leads to.                    *)
Chain(c, size) ==
  /\ size \in 0 .. Cardinality(Item)
  /\ c \in [0 .. size - 1 -> Item]
  /\ \A j, k \in 0 .. size - 1 : c[j] = c[k] => j = k
  /\ head = IF size = 0 THEN NoItem ELSE c[0]
  /\ \A k \in 0 .. size - 1 : next[c[k]] = IF k + 1 = size THEN NoItem ELSE c[k + 1]

(* Until an insertion is lost the chain holds all live items, and the tail *)
(* is its end or has been freed.                                           *)
Whole(c, size) ==
  /\ length = size
  /\ live = {c[k] : k \in 0 .. size - 1} /\ Cardinality(live) = size
  /\ size > 0 => tail = c[size - 1] \/ tail \notin live

(* The invariant of the list.                                              *)
ListInv ==
  /\ value \in [Item -> Value \cup {NoValue}]
  /\ next \in [Item -> Item \cup {NoItem}]
  /\ lost \in BOOLEAN
  /\ \E size \in 0 .. Cardinality(Item) : \E c \in [0 .. size - 1 -> Item] :
       /\ Chain(c, size)
       /\ IF lost THEN tail \in live ELSE Whole(c, size)

(* What the walk from the head finds, link by link.                        *)
LEMMA AtIs ==
  ASSUME NEW c, NEW size, Chain(c, size)
  PROVE  L!At = [k \in 0 .. Cardinality(Item) |-> IF k < size THEN c[k] ELSE NoItem]
<1> DEFINE top == Cardinality(Item)
           f == [k \in 0 .. top |-> IF k < size THEN c[k] ELSE NoItem]
           Walk(g) == [k \in 0 .. top |->
                         IF k = 0 THEN head
                         ELSE IF g[k - 1] = NoItem THEN NoItem ELSE next[g[k - 1]]]
<1>1. top \in Nat /\ size \in Nat /\ size <= top
  <2>1. top \in Nat
    BY ItemAssumption, FS_CardinalityType
  <2> QED
    BY <2>1 DEF Chain
<1>2. L!At = CHOOSE g : g = Walk(g)
  BY SameCardinality DEF L!At, L!MaxLength
<1> HIDE DEF top
<1>3. f = Walk(f)
  <2>1. ASSUME NEW k \in 0 .. top PROVE f[k] = Walk(f)[k]
    <3>1. CASE k = 0
      BY <1>1, <3>1 DEF Chain
    <3>2. CASE k > 0
      <4>1. k - 1 \in 0 .. top /\ k \in Nat
        BY <1>1, <3>2
      <4>2. CASE k - 1 < size
        <5>1. k - 1 \in 0 .. size - 1
          BY <1>1, <3>2, <4>2
        <5>2. f[k - 1] = c[k - 1] /\ c[k - 1] \in Item
          BY <4>1, <4>2, <5>1 DEF Chain
        <5>3. c[k - 1] # NoItem
          BY <5>2, ItemAssumption
        <5>4. next[c[k - 1]] = IF (k - 1) + 1 = size THEN NoItem ELSE c[(k - 1) + 1]
          BY <5>1 DEF Chain
        <5>5. (k - 1) + 1 = k /\ (k < size <=> k # size)
          BY <1>1, <4>1, <4>2
        <5> QED
          BY <3>2, <5>2, <5>3, <5>4, <5>5
      <4>3. CASE ~(k - 1 < size)
        <5>1. f[k - 1] = NoItem /\ ~(k < size)
          BY <1>1, <4>1, <4>3
        <5> QED
          BY <3>2, <5>1
      <4> QED
        BY <4>2, <4>3
    <3> QED
      BY <3>1, <3>2
  <2> QED
    BY <2>1
<1>4. L!At = Walk(L!At)
  <2> HIDE DEF f, Walk
  <2> QED
    BY <1>2, <1>3
<1>5. ASSUME NEW g, g = Walk(g) PROVE g = f
  <2> DEFINE Wrong == {k \in 0 .. top : g[k] # f[k]}
  <2>1. ASSUME Wrong # {} PROVE FALSE
    <3>1. PICK k \in Wrong : \A j \in Wrong : k <= j
      <4>1. Wrong \in SUBSET Nat
        BY <1>1
      <4> HIDE DEF Wrong
      <4> QED
        BY <2>1, <4>1, FirstNumber
    <3>2. k \in 0 .. top /\ g[k] # f[k]
      OBVIOUS
    <3>3. g[k] = Walk(g)[k] /\ f[k] = Walk(f)[k]
      <4> HIDE DEF f, Walk
      <4> QED
        BY <1>3, <1>5
    <3>4. k # 0
      BY <3>2, <3>3
    <3>5. k - 1 \in 0 .. top /\ ~(k <= k - 1)
      BY <1>1, <3>2, <3>4
    <3>6. g[k - 1] = f[k - 1]
      <4> HIDE DEF f, Walk
      <4> QED
        BY <3>1, <3>5
    <3>7. Walk(g)[k] = Walk(f)[k]
      <4> HIDE DEF f
      <4> QED
        BY <3>2, <3>6
    <3> QED
      BY <3>2, <3>3, <3>7
  <2>2. \A k \in 0 .. top : g[k] = f[k]
    BY <2>1
  <2>3. g = [k \in 0 .. top |-> g[k]] /\ f = [k \in 0 .. top |-> f[k]]
    BY <1>5
  <2> QED
    BY <2>2, <2>3
<1>6. L!At = f
  BY <1>4, <1>5
<1> QED
  BY <1>6 DEF top

(* The values of a list of size items, and the list as ItemSequence sees   *)
(* it.                                                                     *)
Values(c, size) == [k \in 1 .. size |-> value[c[k - 1]]]
Items == [k \in 1 .. L!Cardinality(L!Reached) |-> value[L!At[k - 1]]]

(* The walk along the list reaches its chain and nothing else.             *)
LEMMA ItemsAre ==
  \A c, size : Chain(c, size) =>
    /\ L!Reached = 0 .. size - 1
    /\ \A k \in 0 .. size - 1 : L!At[k] = c[k]
    /\ Items = Values(c, size)
<1> SUFFICES ASSUME NEW c, NEW size, Chain(c, size)
             PROVE  /\ L!Reached = 0 .. size - 1
                    /\ \A k \in 0 .. size - 1 : L!At[k] = c[k]
                    /\ Items = Values(c, size)
  OBVIOUS
<1>1. PICK top \in Nat : top = Cardinality(Item)
  BY ItemAssumption, FS_CardinalityType
<1>2. size \in Nat /\ size <= top /\ \A k \in 0 .. size - 1 : c[k] \in Item
  BY <1>1 DEF Chain
<1>3. L!At = [k \in 0 .. top |-> IF k < size THEN c[k] ELSE NoItem]
  BY <1>1, AtIs
<1>4. L!MaxLength = top
  BY <1>1, SameCardinality DEF L!MaxLength
<1>5. \A k \in 0 .. top : L!At[k] # NoItem <=> k \in 0 .. size - 1
  <2>1. ASSUME NEW k \in 0 .. top PROVE L!At[k] # NoItem <=> k \in 0 .. size - 1
    <3>1. k < size <=> k \in 0 .. size - 1
      BY <1>2
    <3>2. k \in 0 .. size - 1 => c[k] # NoItem
      BY <1>2, ItemAssumption
    <3> QED
      BY <1>3, <3>1, <3>2
  <2> QED
    BY <2>1
<1>6. \A k \in 0 .. size - 1 : k \in 0 .. top /\ k < size
  BY <1>2
<1>7. L!Reached = 0 .. size - 1
  BY <1>4, <1>5, <1>6 DEF L!Reached
<1>8. \A k \in 0 .. size - 1 : L!At[k] = c[k]
  BY <1>3, <1>6
<1>9. L!Cardinality(L!Reached) = size
  <2>1. Cardinality(0 .. size - 1) = size
    BY <1>2, FS_Interval
  <2> QED
    BY <1>7, <2>1, SameCardinality
<1>10. Items = Values(c, size)
  <2>1. ASSUME NEW k \in 1 .. size PROVE L!At[k - 1] = c[k - 1]
    <3>1. k - 1 \in 0 .. size - 1
      BY <1>2
    <3> QED
      BY <1>8, <3>1
  <2>2. Items = [k \in 1 .. size |-> value[L!At[k - 1]]]
    BY <1>9 DEF Items
  <2> QED
    BY <2>1, <2>2 DEF Values
<1> QED
  BY <1>7, <1>8, <1>10

(* The same in the next state.                                             *)
LEMMA ItemsAreNext ==
  \A c, size : Chain(c, size)' => Items' = [k \in 1 .. size |-> value'[c[k - 1]]]
<1>1. \A c, size : Chain(c, size) => Items = Values(c, size)
  BY ItemsAre
<1>2. (\A c, size : Chain(c, size) => Items = Values(c, size))'
  BY <1>1, PTL
<1> QED
  BY <1>2 DEF Values

(* A sequence, entry by entry.                                             *)
LEMMA EntryByEntry ==
  ASSUME NEW T, NEW s \in Seq(T), NEW size, Len(s) = size
  PROVE  s = [k \in 1 .. size |-> s[k]]
OBVIOUS

(* The size of the heap, the chain and the live items.                     *)
LEMMA Sizes ==
  ASSUME NEW c, NEW size, Chain(c, size)
  PROVE  /\ Cardinality(Item) \in Nat /\ size \in Nat /\ size <= Cardinality(Item)
         /\ L!MaxLength = Cardinality(Item)
         /\ \A k \in 0 .. size - 1 : c[k] \in Item
<1>1. Cardinality(Item) \in Nat
  BY ItemAssumption, FS_CardinalityType
<1> QED
  BY <1>1, SameCardinality DEF Chain, L!MaxLength

(* As ItemSequence sees it, the list is a sequence of that size.           *)
LEMMA ItemsType ==
  ASSUME ListInv, NEW c, NEW size, Chain(c, size)
  PROVE  Items \in Seq(Value \cup {NoValue}) /\ Len(Items) = size
<1>1. size \in Nat /\ \A k \in 0 .. size - 1 : c[k] \in Item
  BY Sizes
<1>2. Items = [k \in 1 .. size |-> value[c[k - 1]]]
  BY ItemsAre DEF Values
<1>3. \A k \in 1 .. size : k - 1 \in 0 .. size - 1
  BY <1>1
<1>4. value \in [Item -> Value \cup {NoValue}]
  BY DEF ListInv
<1>5. Items \in [1 .. size -> Value \cup {NoValue}]
  BY <1>1, <1>2, <1>3, <1>4
<1> QED
  BY <1>1, <1>5

-----------------------------------------------------------------------------
(* The steps of the list                                                   *)

(* Nothing changes for the list or the sequence when no field of the list  *)
(* does.                                                                   *)
LEMMA ListStays ==
  ASSUME ListInv, UNCHANGED <<value, next, head, tail, length, live, lost>>
  PROVE  ListInv' /\ L!TailFreed' = L!TailFreed /\ Items' = Items /\ lost' = lost
<1>1. PICK size, c : Chain(c, size) /\ IF lost THEN tail \in live ELSE Whole(c, size)
  BY DEF ListInv
<1>2. Chain(c, size)'
  BY <1>1 DEF Chain
<1>3. IF lost' THEN tail' \in live' ELSE Whole(c, size)'
  BY <1>1 DEF Whole
<1>4. size \in 0 .. Cardinality(Item) /\ c \in [0 .. size - 1 -> Item]
  BY <1>1 DEF Chain
<1>5. /\ value' \in [Item -> Value \cup {NoValue}] /\ next' \in [Item -> Item \cup {NoItem}]
      /\ lost' \in BOOLEAN
  BY DEF ListInv
<1>6. ListInv'
  BY <1>2, <1>3, <1>4, <1>5 DEF ListInv
<1>7. L!TailFreed' = L!TailFreed
  BY DEF L!TailFreed
<1>8. Items' = Items
  BY DEF Items, L!Reached, L!At
<1> QED
  BY <1>6, <1>7, <1>8

(* An item that is not live can be added to a whole chain.                 *)
LEMMA RoomForItem ==
  ASSUME NEW c, NEW size, Chain(c, size), Whole(c, size), NEW item \in Item \ live
  PROVE  size < Cardinality(Item) /\ Cardinality(live \cup {item}) = size + 1
<1>1. live \subseteq Item
  <2>1. \A k \in 0 .. size - 1 : c[k] \in Item
    BY Sizes
  <2> QED
    BY <2>1 DEF Whole
<1>2. IsFiniteSet(Item) /\ IsFiniteSet(live)
  BY <1>1, ItemAssumption, FS_Subset
<1>3. Cardinality(live \cup {item}) = size + 1
  <2>1. Cardinality(live \cup {item}) = Cardinality(live) + 1
    BY <1>2, FS_AddElement
  <2> QED
    BY <2>1 DEF Whole
<1>4. Cardinality(live \cup {item}) <= Cardinality(Item)
  BY <1>1, <1>2, FS_Subset
<1> QED
  BY <1>3, <1>4, Sizes

(* What the abstract insertion means for the list.                         *)
LEMMA InsertMeans ==
  ASSUME NEW v, Len(Items) < L!MaxLength, ~lost,
         IF L!TailFreed THEN lost' = TRUE /\ L!TailFreed' = FALSE /\ Items' = Items
         ELSE Items' = Append(Items, v) /\ lost' = lost /\ L!TailFreed' = L!TailFreed,
         answer' = answer
  PROVE  L!Sequence!Insert(v)
BY Zenon DEF L!Sequence!Insert, Items

(* An item in front of the tail of a whole list becomes its last one.      *)
LEMMA InsertWhole ==
  ASSUME ListInv, NEW v \in Value, L!insert(v), ~L!TailFreed
  PROVE  ListInv' /\ L!Sequence!Insert(v)
<1>1. ~lost /\ lost' = FALSE /\ lost' = lost /\ length' = length + 1 /\ UNCHANGED answer
  <2>1. ~lost /\ lost' = L!TailFreed /\ length' = length + 1 /\ UNCHANGED answer
    BY Zenon DEF L!insert
  <2>2. L!TailFreed = FALSE
    BY DEF L!TailFreed
  <2>3. lost = FALSE
    BY <2>1, Zenon DEF ListInv
  <2> QED
    BY <2>1, <2>2, <2>3, Zenon
<1>2. PICK size, c :
        Chain(c, size) /\ Whole(c, size)
  BY <1>1 DEF ListInv
<1>3. PICK item \in Item \ live :
        /\ value' = [value EXCEPT ![item] = v]
        /\ L!Linked(item, [next EXCEPT ![item] = NoItem])
        /\ live' = live \cup {item}
  BY DEF L!insert
<1>4. /\ Cardinality(Item) \in Nat /\ size \in Nat /\ L!MaxLength = Cardinality(Item)
      /\ \A k \in 0 .. size - 1 : c[k] \in Item
  BY <1>2, Sizes
<1>5. size < Cardinality(Item) /\ Cardinality(live') = size + 1
  BY <1>2, <1>3, RoomForItem
<1>6. \A k \in 0 .. size - 1 : c[k] # item /\ c[k] \in live
  BY <1>2, <1>3 DEF Whole
<1>7. size > 0 => tail = c[size - 1]
  BY <1>2 DEF Whole, L!TailFreed
<1>8. /\ value \in [Item -> Value \cup {NoValue}] /\ next \in [Item -> Item \cup {NoItem}]
  BY DEF ListInv
<1> DEFINE d == [k \in 0 .. (size + 1) - 1 |-> IF k = size THEN item ELSE c[k]]
<1>9. d \in [0 .. (size + 1) - 1 -> Item] /\ d[size] = item /\ \A k \in 0 .. size - 1 : d[k] = c[k]
  <2>1. \A k \in 0 .. (size + 1) - 1 : k = size \/ k \in 0 .. size - 1
    BY <1>4
  <2>2. size \in 0 .. (size + 1) - 1 /\ \A k \in 0 .. size - 1 : k \in 0 .. (size + 1) - 1 /\ k # size
    BY <1>4
  <2> QED
    BY <1>3, <1>4, <2>1, <2>2
<1>10. \A k \in 0 .. (size + 1) - 1 : k = size \/ k \in 0 .. size - 1
  BY <1>4
<1> HIDE DEF d
<1>11. /\ next' \in [Item -> Item \cup {NoItem}] /\ next'[item] = NoItem
       /\ \A k \in 0 .. size - 1 : next'[c[k]] = IF k + 1 = size THEN item ELSE next[c[k]]
       /\ head' = (IF size = 0 THEN item ELSE head) /\ tail' = item
  <2>1. CASE size = 0
    <3>1. length = 0
      BY <1>2, <2>1 DEF Whole
    <3>2. head' = item /\ tail' = item /\ next' = [next EXCEPT ![item] = NoItem]
      BY <1>3, <3>1 DEF L!Linked
    <3> QED
      BY <1>3, <1>4, <1>6, <1>8, <2>1, <3>2
  <2>2. CASE size # 0
    <3>1. length # 0 /\ tail = c[size - 1] /\ size - 1 \in 0 .. size - 1
      BY <1>2, <1>4, <1>7, <2>2 DEF Whole
    <3>2. head' = head /\ tail' = item
          /\ next' = [[next EXCEPT ![item] = NoItem] EXCEPT ![tail] = item]
      BY <1>3, <3>1 DEF L!Linked
    <3>3. tail \in Item /\ tail # item
      BY <1>4, <1>6, <3>1
    <3>4. next' \in [Item -> Item \cup {NoItem}] /\ next'[item] = NoItem /\ next'[tail] = item
      BY <1>3, <1>8, <3>2, <3>3
    <3>5. ASSUME NEW k \in 0 .. size - 1
          PROVE  next'[c[k]] = IF k + 1 = size THEN item ELSE next[c[k]]
      <4>1. CASE k + 1 = size
        <5>1. k = size - 1
          BY <1>4, <4>1
        <5> QED
          BY <3>1, <3>4, <4>1, <5>1
      <4>2. CASE k + 1 # size
        <5>1. k # size - 1
          BY <1>4, <4>2
        <5>2. c[k] # tail
          BY <1>2, <3>1, <5>1 DEF Chain
        <5> QED
          BY <1>4, <1>6, <1>8, <3>2, <4>2, <5>2
      <4> QED
        BY <4>1, <4>2
    <3> QED
      BY <2>2, <3>2, <3>4, <3>5
  <2> QED
    BY <2>1, <2>2
<1>12. Chain(d, size + 1)'
  <2>1. size + 1 \in 0 .. Cardinality(Item)
    BY <1>4, <1>5
  <2>2. ASSUME NEW j \in 0 .. (size + 1) - 1, NEW k \in 0 .. (size + 1) - 1, d[j] = d[k]
        PROVE  j = k
    <3>1. CASE j = size
      BY <1>6, <1>9, <1>10, <2>2, <3>1
    <3>2. CASE k = size
      BY <1>6, <1>9, <1>10, <2>2, <3>2
    <3>3. CASE j \in 0 .. size - 1 /\ k \in 0 .. size - 1
      <4>1. c[j] = c[k]
        BY <1>9, <2>2, <3>3
      <4> QED
        BY <1>2, <3>3, <4>1 DEF Chain
    <3> QED
      BY <1>10, <3>1, <3>2, <3>3
  <2>3. head' = IF size + 1 = 0 THEN NoItem ELSE d[0]
    <3>1. CASE size = 0
      BY <1>9, <1>11, <3>1
    <3>2. CASE size # 0
      <4>1. 0 \in 0 .. size - 1 /\ size + 1 # 0
        BY <1>4, <3>2
      <4> QED
        BY <1>2, <1>9, <1>11, <3>2, <4>1 DEF Chain
    <3> QED
      BY <3>1, <3>2
  <2>4. ASSUME NEW k \in 0 .. (size + 1) - 1
        PROVE  next'[d[k]] = IF k + 1 = size + 1 THEN NoItem ELSE d[k + 1]
    <3>1. CASE k = size
      BY <1>9, <1>11, <3>1
    <3>2. CASE k \in 0 .. size - 1
      <4>1. next'[c[k]] = IF k + 1 = size THEN item ELSE next[c[k]]
        BY <1>11, <3>2
      <4>2. next[c[k]] = IF k + 1 = size THEN NoItem ELSE c[k + 1]
        BY <1>2, <3>2 DEF Chain
      <4>3. k + 1 # size + 1 /\ (k + 1 # size => k + 1 \in 0 .. size - 1)
        BY <1>4, <3>2
      <4> QED
        BY <1>9, <3>2, <4>1, <4>2, <4>3
    <3> QED
      BY <1>10, <3>1, <3>2
  <2> QED
    BY <1>9, <2>1, <2>2, <2>3, <2>4 DEF Chain
<1>13. Whole(d, size + 1)'
  <2>1. live' = {d[k] : k \in 0 .. (size + 1) - 1}
    <3>1. live = {c[k] : k \in 0 .. size - 1}
      BY <1>2 DEF Whole
    <3>2. size \in 0 .. (size + 1) - 1 /\ \A k \in 0 .. size - 1 : k \in 0 .. (size + 1) - 1
      BY <1>4
    <3> QED
      BY <1>3, <1>9, <1>10, <3>1, <3>2
  <2>2. length' = size + 1
    BY <1>1, <1>2 DEF Whole
  <2>3. tail' = d[(size + 1) - 1]
    <3>1. (size + 1) - 1 = size
      BY <1>4
    <3> QED
      BY <1>9, <1>11, <3>1
  <2> QED
    BY <1>5, <2>1, <2>2, <2>3 DEF Whole
<1>14. ListInv'
  <2>1. value' \in [Item -> Value \cup {NoValue}]
    BY <1>3, <1>8
  <2>2. size + 1 \in 0 .. Cardinality(Item)
    BY <1>4, <1>5
  <2> QED
    BY <1>1, <1>9, <1>11, <1>12, <1>13, <2>1, <2>2 DEF ListInv
<1>15. Items' = Append(Items, v)
  <2>1. Items \in Seq(Value \cup {NoValue}) /\ Len(Items) = size
    BY <1>2, ItemsType
  <2>2. Items = [k \in 1 .. size |-> value[c[k - 1]]]
    BY <1>2, ItemsAre DEF Values
  <2>3. Items' = [k \in 1 .. size + 1 |-> value'[d[k - 1]]]
    BY <1>12, ItemsAreNext
  <2>4. ASSUME NEW k \in 1 .. size + 1
        PROVE  value'[d[k - 1]] = IF k <= size THEN Items[k] ELSE v
    <3>1. CASE k = size + 1
      <4>1. k - 1 = size /\ ~(k <= size)
        BY <1>4, <3>1
      <4> QED
        BY <1>3, <1>8, <1>9, <4>1
    <3>2. CASE k # size + 1
      <4>1. k - 1 \in 0 .. size - 1 /\ k \in 1 .. size /\ k <= size
        BY <1>4, <3>2
      <4>2. value'[c[k - 1]] = value[c[k - 1]]
        BY <1>3, <1>4, <1>6, <1>8, <4>1
      <4> QED
        BY <1>9, <2>2, <4>1, <4>2
    <3> QED
      BY <3>1, <3>2
  <2>5. Items' = [k \in 1 .. size + 1 |-> IF k <= size THEN Items[k] ELSE v]
    BY <2>3, <2>4
  <2>6. Append(Items, v) = [k \in 1 .. size + 1 |-> IF k <= size THEN Items[k] ELSE v]
    <3>1. /\ Append(Items, v) \in Seq(Value \cup {NoValue}) /\ Len(Append(Items, v)) = size + 1
          /\ \A k \in 1 .. size : Append(Items, v)[k] = Items[k]
          /\ Append(Items, v)[size + 1] = v
      BY <2>1, AppendProperties
    <3>2. Append(Items, v) = [k \in 1 .. size + 1 |-> Append(Items, v)[k]]
      BY <3>1, EntryByEntry
    <3>3. \A k \in 1 .. size + 1 : IF k <= size THEN k \in 1 .. size ELSE k = size + 1
      BY <1>4
    <3> QED
      BY <3>1, <3>2, <3>3
  <2> QED
    BY <2>5, <2>6
<1>16. L!TailFreed = FALSE /\ L!TailFreed' = FALSE
  BY <1>3, <1>11 DEF L!TailFreed
<1>17. Len(Items) < L!MaxLength
  BY <1>2, <1>4, <1>5, ItemsType
<1>18. L!Sequence!Insert(v)
  BY <1>1, <1>15, <1>16, <1>17, InsertMeans
<1> QED
  BY <1>14, <1>18

(* Behind a freed tail an insertion is lost, and the chain stays.          *)
LEMMA InsertLost ==
  ASSUME ListInv, NEW v \in Value, L!insert(v), L!TailFreed
  PROVE  ListInv' /\ L!Sequence!Insert(v)
<1>1. ~lost /\ lost' = TRUE /\ UNCHANGED answer
  <2>1. ~lost /\ lost' = L!TailFreed /\ UNCHANGED answer
    BY Zenon DEF L!insert
  <2>2. L!TailFreed = TRUE
    BY DEF L!TailFreed
  <2> QED
    BY <2>1, <2>2, Zenon
<1>2. PICK size, c : Chain(c, size) /\ Whole(c, size)
  BY <1>1 DEF ListInv
<1>3. PICK item \in Item \ live :
        /\ value' = [value EXCEPT ![item] = v]
        /\ L!Linked(item, [next EXCEPT ![item] = NoItem])
        /\ live' = live \cup {item}
  BY DEF L!insert
<1>4. /\ Cardinality(Item) \in Nat /\ size \in Nat /\ L!MaxLength = Cardinality(Item)
      /\ \A k \in 0 .. size - 1 : c[k] \in Item
  BY <1>2, Sizes
<1>5. size < Cardinality(Item)
  BY <1>2, <1>3, RoomForItem
<1>6. length # 0 /\ tail \notin live
  BY <1>2, <1>4 DEF Whole, L!TailFreed
<1>7. \A k \in 0 .. size - 1 : c[k] # item /\ c[k] # tail
  BY <1>2, <1>3, <1>6 DEF Whole
<1>8. /\ value \in [Item -> Value \cup {NoValue}] /\ next \in [Item -> Item \cup {NoItem}]
  BY DEF ListInv
<1>9. /\ head' = head /\ tail' = item
      /\ next' = [[next EXCEPT ![item] = NoItem] EXCEPT ![tail] = item]
  BY <1>3, <1>6 DEF L!Linked
<1>10. next' \in [Item -> Item \cup {NoItem}] /\ value' \in [Item -> Value \cup {NoValue}]
  BY <1>3, <1>8, <1>9
<1>11. \A k \in 0 .. size - 1 : next'[c[k]] = next[c[k]] /\ value'[c[k]] = value[c[k]]
  BY <1>3, <1>4, <1>7, <1>8, <1>9
<1>12. Chain(c, size)'
  BY <1>2, <1>9, <1>11 DEF Chain
<1>13. ListInv'
  <2>1. tail' \in live'
    BY <1>3, <1>9
  <2>2. size \in 0 .. Cardinality(Item) /\ c \in [0 .. size - 1 -> Item]
    BY <1>2 DEF Chain
  <2> QED
    BY <1>1, <1>10, <1>12, <2>1, <2>2 DEF ListInv
<1>14. Items' = Items
  <2>1. Items = [k \in 1 .. size |-> value[c[k - 1]]]
    BY <1>2, ItemsAre DEF Values
  <2>2. Items' = [k \in 1 .. size |-> value'[c[k - 1]]]
    BY <1>12, ItemsAreNext
  <2>3. \A k \in 1 .. size : k - 1 \in 0 .. size - 1
    BY <1>4
  <2> QED
    BY <1>11, <2>1, <2>2, <2>3
<1>15. L!TailFreed' = FALSE
  BY <1>3, <1>9 DEF L!TailFreed
<1>16. Len(Items) < L!MaxLength
  BY <1>2, <1>4, <1>5, ItemsType
<1>17. L!Sequence!Insert(v)
  BY <1>1, <1>14, <1>15, <1>16, InsertMeans
<1> QED
  BY <1>13, <1>17

(* get_value changes the answer only, and gives what the sequence holds.   *)
LEMMA GetStep ==
  ASSUME ListInv, NEW index \in 0 .. L!MaxLength, L!get_value(index)
  PROVE  ListInv' /\ L!Sequence!GetValue(index)
<1>1. /\ answer' = IF index \in L!Reached THEN value[L!At[index]] ELSE NoValue
      /\ UNCHANGED <<value, next, head, tail, length, live, lost>>
  BY DEF L!get_value
<1>2. ListInv' /\ L!TailFreed' = L!TailFreed /\ Items' = Items /\ lost' = lost
  BY <1>1, ListStays
<1>5. PICK size, c : Chain(c, size)
  BY DEF ListInv
<1>6. /\ L!Reached = 0 .. size - 1
      /\ \A k \in 0 .. size - 1 : L!At[k] = c[k]
      /\ Items = [k \in 1 .. size |-> value[c[k - 1]]]
  BY <1>5, ItemsAre DEF Values
<1>7. Len(Items) = size /\ size \in Nat /\ L!MaxLength \in Nat
  BY <1>5, ItemsType, Sizes
<1>8. answer' = IF index < Len(Items) THEN Items[index + 1] ELSE NoValue
  <2>1. CASE index < size
    <3>1. index \in 0 .. size - 1 /\ index + 1 \in 1 .. size /\ (index + 1) - 1 = index
      BY <1>7, <2>1
    <3> QED
      BY <1>1, <1>6, <1>7, <2>1, <3>1
  <2>2. CASE ~(index < size)
    <3>1. index \notin 0 .. size - 1
      BY <1>7, <2>2
    <3> QED
      BY <1>1, <1>6, <1>7, <2>2, <3>1
  <2> QED
    BY <2>1, <2>2
<1> QED
  BY <1>2, <1>8, Zenon DEF L!Sequence!GetValue, Items

(* The walk of remove stops at the index or at the last item.              *)
LEMMA StopIs ==
  ASSUME NEW c, NEW size, Chain(c, size), size > 0, NEW index \in Int
  PROVE  L!Stop(index) = IF index <= 0 THEN 0 ELSE IF index < size THEN index ELSE size - 1
<1>1. size \in Nat /\ L!Reached = 0 .. size - 1
  BY ItemsAre, Sizes
<1>2. CASE index <= 0
  BY <1>2 DEF L!Stop
<1>3. CASE ~(index <= 0)
  <2> DEFINE stop == IF index < size THEN index ELSE size - 1
  <2>1. L!Stop(index) =
          CHOOSE k \in 0 .. size - 1 : k <= index /\ (k = index \/ k + 1 \notin 0 .. size - 1)
    BY <1>1, <1>3 DEF L!Stop
  <2>2. stop \in 0 .. size - 1 /\ stop <= index /\ (stop = index \/ stop + 1 \notin 0 .. size - 1)
    BY <1>1, <1>3
  <2>3. ASSUME NEW k \in 0 .. size - 1, k <= index, k = index \/ k + 1 \notin 0 .. size - 1
        PROVE  k = stop
    BY <1>1, <1>3, <2>3
  <2>4. L!Stop(index) = stop
    <3> HIDE DEF stop
    <3>1. PICK k : k = L!Stop(index)
      OBVIOUS
    <3>2. k \in 0 .. size - 1 /\ k <= index /\ (k = index \/ k + 1 \notin 0 .. size - 1)
      BY <2>1, <2>2, <3>1
    <3> QED
      BY <2>3, <3>1, <3>2
  <2> QED
    BY <1>3, <2>4
<1> QED
  BY <1>2, <1>3

(* The chain without the item at p.                                        *)
Without(c, size, p) == [k \in 0 .. (size - 1) - 1 |-> IF k < p THEN c[k] ELSE c[k + 1]]

(* Taking an item out of the chain.                                        *)
LEMMA TakeOut ==
  ASSUME ListInv, NEW c, NEW size, Chain(c, size), Whole(c, size), NEW p \in 0 .. size - 1,
         value' = value, ~lost, lost' = lost, length' = length - 1, live' = live \ {c[p]},
         head' = IF p = 0 THEN next[head] ELSE head,
         next' = IF p = 0 THEN next ELSE [next EXCEPT ![c[p - 1]] = next[c[p]]],
         size > 1 => tail' = c[IF p = size - 1 THEN size - 2 ELSE size - 1] \/ tail' \notin live'
  PROVE  ListInv' /\ Chain(Without(c, size, p), size - 1)'
<1> DEFINE d == Without(c, size, p)
<1>1. /\ Cardinality(Item) \in Nat /\ size \in Nat /\ size <= Cardinality(Item) /\ size > 0
      /\ \A k \in 0 .. size - 1 : c[k] \in Item
  BY Sizes
<1>2. /\ next \in [Item -> Item \cup {NoItem}]
      /\ \A k \in 0 .. size - 1 : next[c[k]] = IF k + 1 = size THEN NoItem ELSE c[k + 1]
      /\ \A j, k \in 0 .. size - 1 : c[j] = c[k] => j = k
      /\ head = c[0]
  BY <1>1 DEF Chain, ListInv
<1>3. \A k \in 0 .. (size - 1) - 1 :
        /\ k \in 0 .. size - 1 /\ k + 1 \in 0 .. size - 1
        /\ d[k] = IF k < p THEN c[k] ELSE c[k + 1]
  BY <1>1 DEF Without
<1>4. d \in [0 .. (size - 1) - 1 -> Item]
  BY <1>1, <1>3 DEF Without
<1> HIDE DEF d
<1>5. ASSUME NEW j \in 0 .. (size - 1) - 1, NEW k \in 0 .. (size - 1) - 1, d[j] = d[k]
      PROVE  j = k
  <2>1. PICK x \in 0 .. size - 1 : x = (IF j < p THEN j ELSE j + 1) /\ d[j] = c[x]
    BY <1>3
  <2>2. PICK y \in 0 .. size - 1 : y = (IF k < p THEN k ELSE k + 1) /\ d[k] = c[y]
    BY <1>3
  <2>3. x = y
    BY <1>2, <1>5, <2>1, <2>2
  <2> QED
    BY <1>1, <2>1, <2>2, <2>3
<1>6. next' \in [Item -> Item \cup {NoItem}]
  <2>1. p # 0 => p - 1 \in 0 .. size - 1
    BY <1>1
  <2>2. next[c[p]] \in Item \cup {NoItem}
    BY <1>1, <1>2
  <2> QED
    BY <1>1, <1>2, <2>1, <2>2
<1>7. ASSUME NEW k \in 0 .. (size - 1) - 1
      PROVE  next'[d[k]] = IF k + 1 = size - 1 THEN NoItem ELSE d[k + 1]
  <2>1. k \in Nat /\ k + 1 < size /\ k \in 0 .. size - 1 /\ k + 1 \in 0 .. size - 1
    BY <1>1, <1>3
  <2>2. CASE k + 1 < p
    <3>1. d[k] = c[k] /\ k # p - 1 /\ p - 1 \in 0 .. size - 1 /\ p # 0 /\ k + 1 # size - 1
      BY <1>1, <1>3, <2>1, <2>2
    <3>2. d[k + 1] = c[k + 1] /\ next[c[k]] = c[k + 1]
      <4>1. k + 1 \in 0 .. (size - 1) - 1 /\ k + 1 # size
        BY <1>1, <2>1, <2>2
      <4> QED
        BY <1>2, <1>3, <2>1, <2>2, <4>1
    <3>3. c[k] # c[p - 1]
      BY <1>2, <2>1, <3>1
    <3>4. next'[c[k]] = next[c[k]]
      BY <1>1, <1>2, <2>1, <3>1, <3>3
    <3> QED
      BY <3>1, <3>2, <3>4
  <2>3. CASE k + 1 = p
    <3>1. d[k] = c[k] /\ k = p - 1 /\ p # 0
      BY <1>1, <1>3, <2>1, <2>3
    <3>2. next'[c[k]] = next[c[p]]
      BY <1>1, <1>2, <2>1, <3>1
    <3>3. next[c[p]] = IF p + 1 = size THEN NoItem ELSE c[p + 1]
      BY <1>2
    <3>4. CASE p + 1 = size
      <4>1. k + 1 = size - 1
        BY <1>1, <2>3, <3>4
      <4> QED
        BY <3>1, <3>2, <3>3, <3>4, <4>1
    <3>5. CASE p + 1 # size
      <4>1. k + 1 # size - 1 /\ p \in 0 .. (size - 1) - 1 /\ ~(p < p)
        BY <1>1, <2>3, <3>5
      <4>2. d[p] = c[p + 1]
        BY <1>3, <4>1
      <4> QED
        BY <2>3, <3>1, <3>2, <3>3, <3>5, <4>1, <4>2
    <3> QED
      BY <3>4, <3>5
  <2>4. CASE k + 1 > p
    <3>1. d[k] = c[k + 1] /\ (p # 0 => k + 1 # p - 1 /\ p - 1 \in 0 .. size - 1)
      BY <1>1, <1>3, <2>1, <2>4
    <3>2. next'[c[k + 1]] = next[c[k + 1]]
      <4>1. p # 0 => c[k + 1] # c[p - 1]
        BY <1>2, <2>1, <3>1
      <4> QED
        BY <1>1, <1>2, <2>1, <3>1, <4>1
    <3>3. next[c[k + 1]] = IF (k + 1) + 1 = size THEN NoItem ELSE c[(k + 1) + 1]
      BY <1>2, <2>1
    <3>4. CASE (k + 1) + 1 = size
      <4>1. k + 1 = size - 1
        BY <1>1, <2>1, <3>4
      <4> QED
        BY <3>1, <3>2, <3>3, <3>4, <4>1
    <3>5. CASE (k + 1) + 1 # size
      <4>1. k + 1 # size - 1 /\ k + 1 \in 0 .. (size - 1) - 1 /\ ~(k + 1 < p)
        BY <1>1, <2>1, <2>4, <3>5
      <4>2. d[k + 1] = c[(k + 1) + 1]
        BY <1>3, <4>1
      <4> QED
        BY <3>1, <3>2, <3>3, <3>5, <4>1, <4>2
    <3> QED
      BY <3>4, <3>5
  <2> QED
    BY <1>1, <2>1, <2>2, <2>3, <2>4
<1>8. head' = IF size - 1 = 0 THEN NoItem ELSE d[0]
  <2>1. CASE size - 1 = 0
    <3>1. p = 0 /\ 0 + 1 = size /\ 0 \in 0 .. size - 1
      BY <1>1, <2>1
    <3> QED
      BY <1>2, <2>1, <3>1
  <2>2. CASE size - 1 # 0
    <3>1. 0 \in 0 .. (size - 1) - 1 /\ 0 \in 0 .. size - 1 /\ 0 + 1 # size
      BY <1>1, <2>2
    <3>2. d[0] = IF p = 0 THEN c[0 + 1] ELSE c[0]
      BY <1>3, <3>1
    <3> QED
      BY <1>2, <2>2, <3>1, <3>2
  <2> QED
    BY <2>1, <2>2
<1>9. size - 1 \in 0 .. Cardinality(Item)
  BY <1>1
<1>10. Chain(d, size - 1)'
  BY <1>4, <1>5, <1>7, <1>8, <1>9 DEF Chain
<1>11. live' = {d[k] : k \in 0 .. (size - 1) - 1}
  <2>1. live = {c[k] : k \in 0 .. size - 1}
    BY DEF Whole
  <2>2. ASSUME NEW x \in live' PROVE \E k \in 0 .. (size - 1) - 1 : x = d[k]
    <3>1. PICK j \in 0 .. size - 1 : x = c[j] /\ j # p
      BY <2>1
    <3>2. CASE j < p
      <4>1. j \in 0 .. (size - 1) - 1
        BY <1>1, <3>2
      <4> QED
        BY <1>3, <3>1, <3>2, <4>1
    <3>3. CASE j > p
      <4>1. j - 1 \in 0 .. (size - 1) - 1 /\ ~(j - 1 < p) /\ (j - 1) + 1 = j
        BY <1>1, <3>3
      <4> QED
        BY <1>3, <3>1, <4>1
    <3> QED
      BY <1>1, <3>1, <3>2, <3>3
  <2>3. ASSUME NEW k \in 0 .. (size - 1) - 1 PROVE d[k] \in live'
    <3>1. PICK x \in 0 .. size - 1 : d[k] = c[x] /\ x # p
      <4>1. CASE k < p
        BY <1>1, <1>3, <4>1
      <4>2. CASE ~(k < p)
        <5>1. k + 1 # p
          BY <1>1, <4>2
        <5> QED
          BY <1>3, <4>2, <5>1
      <4> QED
        BY <4>1, <4>2
    <3>2. c[x] # c[p]
      BY <1>2, <3>1
    <3> QED
      BY <2>1, <3>1, <3>2
  <2> QED
    BY <2>2, <2>3
<1>12. Cardinality(live') = size - 1
  <2>1. live = {c[k] : k \in 0 .. size - 1} /\ Cardinality(live) = size
    BY DEF Whole
  <2>2. live \subseteq Item /\ c[p] \in live
    BY <1>1, <2>1
  <2>3. IsFiniteSet(live)
    BY <2>2, ItemAssumption, FS_Subset
  <2>4. Cardinality(live \ {c[p]}) = Cardinality(live) - 1
    BY <2>2, <2>3, FS_RemoveElement
  <2> QED
    BY <2>1, <2>4
<1>13. size - 1 > 0 => tail' = d[(size - 1) - 1] \/ tail' \notin live'
  <2>1. ASSUME size > 1 PROVE d[(size - 1) - 1] = c[IF p = size - 1 THEN size - 2 ELSE size - 1]
    <3>1. /\ (size - 1) - 1 \in 0 .. (size - 1) - 1 /\ (size - 1) - 1 = size - 2
          /\ ((size - 1) - 1) + 1 = size - 1
          /\ (size - 1) - 1 < p <=> p = size - 1
      BY <1>1, <2>1
    <3> QED
      BY <1>3, <3>1
  <2>2. size - 1 > 0 => size > 1
    BY <1>1
  <2> QED
    BY <2>1, <2>2
<1>14. Whole(d, size - 1)'
  <2>1. length' = size - 1
    BY DEF Whole
  <2> QED
    BY <1>11, <1>12, <1>13, <2>1 DEF Whole
<1>15. ListInv'
  <2>1. lost' \in BOOLEAN /\ value' \in [Item -> Value \cup {NoValue}]
    BY Zenon DEF ListInv
  <2>2. ~lost'
    BY Zenon
  <2> QED
    BY <1>4, <1>6, <1>9, <1>10, <1>14, <2>1, <2>2 DEF ListInv
<1> QED
  BY <1>10, <1>15 DEF d

(* The sequence without the entry at the same place.                       *)
LEMMA ItemsWithout ==
  ASSUME ListInv, NEW c, NEW size, Chain(c, size), NEW p \in 0 .. size - 1,
         Chain(Without(c, size, p), size - 1)', value' = value
  PROVE  /\ Items' = L!Sequence!RemoveAt(Items, p + 1)
         /\ Len(Items) = size /\ Len(Items') = size - 1
<1>1. size \in Nat /\ size > 0
  BY Sizes
<1>2. Items \in Seq(Value \cup {NoValue}) /\ Len(Items) = size
  BY ItemsType
<1>3. Items = [k \in 1 .. size |-> value[c[k - 1]]]
  BY ItemsAre DEF Values
<1>4. Items' = [k \in 1 .. size - 1 |-> value[Without(c, size, p)[k - 1]]]
  BY ItemsAreNext
<1> DEFINE before == SubSeq(Items, 1, (p + 1) - 1)
           behind == SubSeq(Items, (p + 1) + 1, Len(Items))
<1>5. /\ before \in Seq(Value \cup {NoValue}) /\ Len(before) = p
      /\ \A k \in 1 .. p : before[k] = Items[k]
  <2>1. (p + 1) - 1 = p /\ p \in 0 .. Len(Items) /\ 1 \in 1 .. Len(Items) + 1
    BY <1>1, <1>2
  <2> QED
    BY <1>1, <1>2, <2>1, SubSeqProperties
<1>6. /\ behind \in Seq(Value \cup {NoValue}) /\ Len(behind) = (size - 1) - p
      /\ \A k \in 1 .. (size - 1) - p : behind[k] = Items[k + p + 1]
  <2>1. (p + 1) + 1 = p + 2 /\ p + 2 \in 1 .. Len(Items) + 1 /\ Len(Items) \in 0 .. Len(Items)
    BY <1>1, <1>2
  <2>2. /\ behind \in Seq(Value \cup {NoValue})
        /\ Len(behind) = IF p + 2 <= size THEN size - (p + 2) + 1 ELSE 0
        /\ \A k \in 1 .. size - (p + 2) + 1 : behind[k] = Items[(p + 2) + k - 1]
    BY <1>1, <1>2, <2>1, SubSeqProperties
  <2>3. (IF p + 2 <= size THEN size - (p + 2) + 1 ELSE 0) = (size - 1) - p
    BY <1>1
  <2>4. size - (p + 2) + 1 = (size - 1) - p
        /\ \A k \in 1 .. (size - 1) - p : (p + 2) + k - 1 = k + p + 1
    BY <1>1
  <2> QED
    BY <2>2, <2>3, <2>4
<1> HIDE DEF before, behind
<1>7. /\ before \o behind \in Seq(Value \cup {NoValue})
      /\ Len(before \o behind) = size - 1
      /\ \A k \in 1 .. size - 1 : (before \o behind)[k] = IF k <= p THEN Items[k] ELSE Items[k + 1]
  <2>1. /\ before \o behind \in Seq(Value \cup {NoValue})
        /\ Len(before \o behind) = Len(before) + Len(behind)
        /\ \A k \in 1 .. Len(before) + Len(behind) :
             (before \o behind)[k] = IF k <= Len(before) THEN before[k] ELSE behind[k - Len(before)]
    <3> DEFINE T == Value \cup {NoValue}
    <3>1. before \in Seq(T) /\ behind \in Seq(T)
      BY <1>5, <1>6
    <3> HIDE DEF T
    <3>2. before \o behind \in Seq(T)
      BY <3>1, ConcatProperties
    <3>3. Len(before \o behind) = Len(before) + Len(behind)
      BY <3>1, ConcatProperties
    <3>4. \A k \in 1 .. Len(before) + Len(behind) :
            (before \o behind)[k] = IF k <= Len(before) THEN before[k] ELSE behind[k - Len(before)]
      BY <3>1, ConcatProperties
    <3> QED
      BY <3>2, <3>3, <3>4 DEF T
  <2>2. Len(before) + Len(behind) = size - 1
    BY <1>1, <1>5, <1>6
  <2>3. ASSUME NEW k \in 1 .. size - 1
        PROVE  (before \o behind)[k] = IF k <= p THEN Items[k] ELSE Items[k + 1]
    <3>1. (before \o behind)[k] = IF k <= p THEN before[k] ELSE behind[k - p]
      BY <1>5, <2>1, <2>2
    <3>2. CASE k <= p
      <4>1. k \in 1 .. p
        BY <3>2
      <4> QED
        BY <1>5, <3>1, <3>2, <4>1
    <3>3. CASE ~(k <= p)
      <4>1. k - p \in 1 .. (size - 1) - p /\ (k - p) + p + 1 = k + 1
        BY <1>1, <3>3
      <4> QED
        BY <1>6, <3>1, <3>3, <4>1
    <3> QED
      BY <3>2, <3>3
  <2> QED
    BY <2>1, <2>2, <2>3
<1>8. ASSUME NEW k \in 1 .. size - 1
      PROVE  value[Without(c, size, p)[k - 1]] = IF k <= p THEN Items[k] ELSE Items[k + 1]
  <2>1. /\ k - 1 \in 0 .. (size - 1) - 1 /\ (k - 1 < p <=> k <= p) /\ (k - 1) + 1 = k
        /\ k \in 1 .. size /\ k + 1 \in 1 .. size /\ (k + 1) - 1 = k
    BY <1>1
  <2>2. Without(c, size, p)[k - 1] = IF k <= p THEN c[k - 1] ELSE c[k]
    BY <2>1 DEF Without
  <2> QED
    BY <1>3, <2>1, <2>2
<1>9. before \o behind = [k \in 1 .. size - 1 |-> (before \o behind)[k]]
  BY <1>7, EntryByEntry
<1>10. Items' = before \o behind
  BY <1>4, <1>7, <1>8, <1>9
<1> QED
  BY <1>2, <1>7, <1>10 DEF before, behind, L!Sequence!RemoveAt

(* What the abstract removal means for the list.                           *)
LEMMA RemoveMeans ==
  ASSUME NEW index, NEW place, Items # <<>>, ~lost, lost' = lost,
         place = IF index < 0 \/ Len(Items) = 1 THEN 1 ELSE index + 1,
         place \in 1 .. Len(Items), Items' = L!Sequence!RemoveAt(Items, place),
         L!TailFreed' = (/\ L!TailFreed \/ (place = Len(Items))
                         /\ Len(Items') > 1 \/ (Len(Items') = 1 /\ place > 1)),
         answer' = TRUE
  PROVE  L!Sequence!RemoveItem(index)
<1>1. L!Sequence!Place(index) = place
  BY Zenon DEF L!Sequence!Place, Items
<1> QED
  BY <1>1, Zenon DEF L!Sequence!RemoveItem, Items

(* remove takes the first item.                                            *)
LEMMA RemoveFirstStep ==
  ASSUME ListInv, NEW index \in -1 .. L!MaxLength, L!RemoveFirst(index)
  PROVE  ListInv' /\ L!Sequence!RemoveItem(index)
<1>1. ~lost /\ lost' = lost /\ value' = value /\ head # NoItem /\ L!Stop(index) = 0
  BY Zenon DEF L!RemoveFirst, L!Freed
<1>2. /\ head' = next[head] /\ next' = next /\ length' = length - 1
      /\ live' = live \ {head} /\ tail' = (IF length = 2 THEN head' ELSE tail) /\ answer' = TRUE
  BY DEF L!RemoveFirst, L!Freed, L!TailAfter
<1>3. PICK size, c : Chain(c, size) /\ Whole(c, size)
  BY <1>1 DEF ListInv
<1>4. /\ size \in Nat /\ L!MaxLength \in Nat /\ \A k \in 0 .. size - 1 : c[k] \in Item
  BY <1>3, Sizes
<1>5. size > 0 /\ head = c[0] /\ 0 \in 0 .. size - 1 /\ length = size
  BY <1>1, <1>3, <1>4 DEF Chain, Whole
<1>6. index \in Int /\ (index <= 0 \/ size = 1)
  <2>1. index \in Int
    BY <1>4
  <2>2. L!Stop(index) = IF index <= 0 THEN 0 ELSE IF index < size THEN index ELSE size - 1
    BY <1>3, <1>5, <2>1, StopIs
  <2> QED
    BY <1>1, <1>4, <2>1, <2>2
<1>7. tail = c[size - 1] \/ tail \notin live
  BY <1>3, <1>5 DEF Whole
<1>8. size = 2 => tail' = c[1]
  <2>1. size = 2 => 0 + 1 # size /\ 0 + 1 = 1
    BY <1>4
  <2> QED
    BY <1>2, <1>3, <1>5, <2>1 DEF Chain
<1>9. size > 1 => tail' = c[IF 0 = size - 1 THEN size - 2 ELSE size - 1] \/ tail' \notin live'
  <2>1. size > 1 => 0 # size - 1
    BY <1>4
  <2>2. size = 2 => size - 1 = 1
    BY <1>4
  <2>3. size # 2 => tail' = tail
    BY <1>2, <1>5
  <2> QED
    BY <1>2, <1>7, <1>8, <2>1, <2>2, <2>3
<1>10. ListInv' /\ Chain(Without(c, size, 0), size - 1)'
  BY <1>1, <1>2, <1>3, <1>5, <1>9, TakeOut
<1>11. /\ Items' = L!Sequence!RemoveAt(Items, 0 + 1)
       /\ Len(Items) = size /\ Len(Items') = size - 1
  BY <1>1, <1>3, <1>5, <1>10, ItemsWithout
<1>12. Items # <<>>
  BY <1>5, <1>11
<1>13. IF size > 2 THEN L!TailFreed' = L!TailFreed ELSE L!TailFreed' = FALSE
  <2>1. CASE size = 1
    <3>1. ~(length' > 0)
      BY <1>2, <1>5, <2>1
    <3> QED
      BY <2>1, <3>1 DEF L!TailFreed
  <2>2. CASE size = 2
    <3>1. 1 \in 0 .. size - 1 /\ 1 # 0
      BY <2>2
    <3>2. c[1] \in live /\ c[1] # c[0]
      BY <1>3, <1>5, <3>1 DEF Chain, Whole
    <3>3. tail' \in live'
      BY <1>2, <1>5, <1>8, <2>2, <3>2
    <3> QED
      BY <2>2, <3>3 DEF L!TailFreed
  <2>3. CASE size > 2
    <3>1. size - 1 \in 0 .. size - 1 /\ size - 1 # 0
      BY <1>4, <2>3
    <3>2. c[size - 1] # c[0]
      BY <1>3, <1>5, <3>1 DEF Chain
    <3>3. tail' = tail /\ length > 0 /\ length' > 0
      BY <1>2, <1>4, <1>5, <2>3
    <3>4. tail \notin live' <=> tail \notin live
      BY <1>2, <1>5, <1>7, <3>2
    <3> QED
      BY <2>3, <3>3, <3>4 DEF L!TailFreed
  <2>4. size = 1 \/ size = 2 \/ size > 2
    BY <1>4, <1>5
  <2> QED
    BY <2>1, <2>2, <2>3, <2>4
<1>14. 1 = (IF index < 0 \/ Len(Items) = 1 THEN 1 ELSE index + 1) /\ 1 \in 1 .. Len(Items)
  BY <1>4, <1>5, <1>6, <1>11
<1>15. L!TailFreed' = (/\ L!TailFreed \/ (1 = Len(Items))
                       /\ Len(Items') > 1 \/ (Len(Items') = 1 /\ 1 > 1))
  <2>1. CASE size > 2
    <3>1. Len(Items') > 1 /\ 1 # Len(Items)
      BY <1>4, <1>11, <2>1
    <3>2. L!TailFreed' = L!TailFreed
      BY <1>13, <2>1
    <3>3. L!TailFreed \in BOOLEAN
      BY DEF L!TailFreed
    <3> QED
      BY <3>1, <3>2, <3>3
  <2>2. CASE ~(size > 2)
    <3>1. ~(Len(Items') > 1) /\ ~(1 > 1)
      BY <1>4, <1>11, <2>2
    <3>2. L!TailFreed' = FALSE
      BY <1>13, <2>2
    <3> QED
      BY <3>1, <3>2
  <2> QED
    BY <2>1, <2>2
<1>16. Items' = L!Sequence!RemoveAt(Items, 1)
  <2>1. 0 + 1 = 1
    OBVIOUS
  <2> QED
    BY <1>11, <2>1
<1>17. L!Sequence!RemoveItem(index)
  BY <1>1, <1>2, <1>12, <1>14, <1>15, <1>16, RemoveMeans
<1> QED
  BY <1>10, <1>17

(* remove takes a later item.                                              *)
LEMMA RemoveLaterStep ==
  ASSUME ListInv, NEW index \in -1 .. L!MaxLength, L!RemoveLater(index)
  PROVE  ListInv' /\ L!Sequence!RemoveItem(index)
<1>1. /\ ~lost /\ lost' = lost /\ value' = value /\ head # NoItem
      /\ L!Stop(index) = index /\ index > 0
  BY Zenon DEF L!RemoveLater, L!Freed
<1>2. /\ head' = head /\ tail' = tail /\ length' = length - 1
      /\ next' = [next EXCEPT ![L!At[index - 1]] = next[L!At[index]]]
      /\ live' = live \ {L!At[index]} /\ answer' = TRUE
  BY DEF L!RemoveLater, L!Freed
<1>3. PICK size, c : Chain(c, size) /\ Whole(c, size)
  BY <1>1 DEF ListInv
<1>4. /\ size \in Nat /\ L!MaxLength \in Nat /\ \A k \in 0 .. size - 1 : c[k] \in Item
  BY <1>3, Sizes
<1>5. size > 0 /\ length = size
  BY <1>1, <1>3, <1>4 DEF Chain, Whole
<1>6. index \in 0 .. size - 1 /\ index - 1 \in 0 .. size - 1 /\ size > 1 /\ index # 0
  <2>1. index \in Int
    BY <1>4
  <2>2. L!Stop(index) = IF index <= 0 THEN 0 ELSE IF index < size THEN index ELSE size - 1
    BY <1>3, <1>5, <2>1, StopIs
  <2> QED
    BY <1>1, <1>4, <1>5, <2>1, <2>2
<1>7. L!At[index - 1] = c[index - 1] /\ L!At[index] = c[index]
  BY <1>3, <1>6, ItemsAre
<1>8. tail = c[size - 1] \/ tail \notin live
  BY <1>3, <1>5 DEF Whole
<1>9. size - 1 \in 0 .. size - 1 /\ (c[size - 1] = c[index] <=> index = size - 1)
  <2>1. size - 1 \in 0 .. size - 1
    BY <1>4, <1>5
  <2> QED
    BY <1>3, <1>6, <2>1 DEF Chain
<1>10. tail' = c[IF index = size - 1 THEN size - 2 ELSE size - 1] \/ tail' \notin live'
  BY <1>2, <1>7, <1>8, <1>9
<1>11. ListInv' /\ Chain(Without(c, size, index), size - 1)'
  <2>1. next' = [next EXCEPT ![c[index - 1]] = next[c[index]]] /\ live' = live \ {c[index]}
    BY <1>2, <1>7
  <2> QED
    BY <1>1, <1>2, <1>3, <1>6, <1>10, <2>1, TakeOut
<1>12. /\ Items' = L!Sequence!RemoveAt(Items, index + 1)
       /\ Len(Items) = size /\ Len(Items') = size - 1
  BY <1>1, <1>3, <1>6, <1>11, ItemsWithout
<1>13. Items # <<>>
  BY <1>5, <1>12
<1>14. L!TailFreed' = (L!TailFreed \/ index = size - 1)
  <2>1. c[size - 1] \in live
    BY <1>3, <1>9 DEF Whole
  <2>2. length > 0 /\ length' > 0
    BY <1>2, <1>4, <1>5, <1>6
  <2>3. tail \notin live' <=> tail \notin live \/ index = size - 1
    BY <1>2, <1>7, <1>8, <1>9, <2>1
  <2> QED
    BY <1>2, <2>2, <2>3 DEF L!TailFreed
<1>15. L!TailFreed' = (/\ L!TailFreed \/ (index + 1 = Len(Items))
                       /\ Len(Items') > 1 \/ (Len(Items') = 1 /\ index + 1 > 1))
  <2>1. index = size - 1 <=> index + 1 = Len(Items)
    BY <1>4, <1>6, <1>12
  <2>2. Len(Items') > 1 \/ (Len(Items') = 1 /\ index + 1 > 1)
    <3>1. index + 1 > 1 /\ (size - 1 > 1 \/ size - 1 = 1)
      BY <1>4, <1>6
    <3> QED
      BY <1>12, <3>1
  <2> QED
    BY <1>14, <2>1, <2>2
<1>16. /\ index + 1 = (IF index < 0 \/ Len(Items) = 1 THEN 1 ELSE index + 1)
       /\ index + 1 \in 1 .. Len(Items)
  BY <1>4, <1>6, <1>12
<1>17. L!Sequence!RemoveItem(index)
  BY <1>1, <1>2, <1>12, <1>13, <1>15, <1>16, RemoveMeans
<1> QED
  BY <1>11, <1>17

(* remove finds nothing to take.                                           *)
LEMMA RemoveNoneStep ==
  ASSUME ListInv, NEW index \in -1 .. L!MaxLength, L!RemoveNone(index)
  PROVE  ListInv' /\ L!Sequence!RemoveItem(index)
<1>1. /\ ~lost /\ head # NoItem /\ L!Stop(index) > 0 /\ L!Stop(index) < index
      /\ answer' = FALSE /\ UNCHANGED <<value, next, head, tail, length, live, lost>>
  BY DEF L!RemoveNone
<1>2. PICK size, c : Chain(c, size) /\ Whole(c, size)
  BY <1>1 DEF ListInv
<1>3. size \in Nat /\ L!MaxLength \in Nat /\ size > 0
  BY <1>1, <1>2, Sizes DEF Chain
<1>4. index \in Int /\ index >= size /\ size > 1
  <2>1. index \in Int
    BY <1>3
  <2>2. L!Stop(index) = IF index <= 0 THEN 0 ELSE IF index < size THEN index ELSE size - 1
    BY <1>2, <1>3, <2>1, StopIs
  <2> QED
    BY <1>1, <1>3, <2>1, <2>2
<1>5. Len(Items) = size
  BY <1>2, ItemsType
<1>6. ListInv' /\ L!TailFreed' = L!TailFreed /\ Items' = Items /\ lost' = lost
  BY <1>1, ListStays
<1>9. L!Sequence!Place(index) = index + 1
  <2>1. L!Sequence!Place(index) = IF index < 0 \/ Len(Items) = 1 THEN 1 ELSE index + 1
    BY Zenon DEF L!Sequence!Place, Items
  <2> QED
    BY <1>3, <1>4, <1>5, <2>1
<1>10. index + 1 \notin 1 .. Len(Items) /\ Items # <<>>
  BY <1>3, <1>4, <1>5
<1>12. L!Sequence!RemoveItem(index)
  BY <1>1, <1>6, <1>9, <1>10, Zenon DEF L!Sequence!RemoveItem, Items
<1> QED
  BY <1>6, <1>12

-----------------------------------------------------------------------------
(* The refinement                                                          *)

(* The list starts as the empty sequence.                                  *)
LEMMA ListInit == L!Init => ListInv /\ L!Sequence!Init
<1> SUFFICES ASSUME L!Init PROVE ListInv /\ L!Sequence!Init
  OBVIOUS
<1> DEFINE c == [k \in 0 .. 0 - 1 |-> NoItem]
<1>1. 0 .. 0 - 1 = {} /\ Cardinality(Item) \in Nat
  BY ItemAssumption, FS_CardinalityType
<1>2. c \in [0 .. 0 - 1 -> Item]
  BY <1>1
<1> HIDE DEF c
<1>3. 0 \in 0 .. Cardinality(Item)
  BY <1>1
<1>4. Chain(c, 0)
  BY <1>1, <1>2, <1>3 DEF Chain, L!Init
<1>5. Whole(c, 0)
  <2>1. Cardinality({}) = 0
    BY FS_EmptySet
  <2> QED
    BY <1>1, <2>1 DEF Whole, L!Init
<1>6. ListInv
  BY <1>2, <1>3, <1>4, <1>5 DEF ListInv, L!Init
<1>7. Items = <<>>
  BY <1>4, <1>6, ItemsType
<1>8. L!TailFreed = FALSE
  BY DEF L!TailFreed, L!Init
<1>9. answer = NoValue /\ lost = FALSE
  BY DEF L!Init
<1>10. L!Sequence!Init
  BY <1>7, <1>8, <1>9, Zenon DEF L!Sequence!Init, Items
<1> QED
  BY <1>6, <1>10

(* Every step of the list is a step of the sequence, or none.              *)
LEMMA ListStep ==
  ListInv /\ [L!Next]_L!vars => ListInv' /\ [L!Sequence!Next]_L!Sequence!vars
<1> SUFFICES ASSUME ListInv, [L!Next]_L!vars
             PROVE  ListInv' /\ [L!Sequence!Next]_L!Sequence!vars
  OBVIOUS
<1>1. ASSUME NEW v \in Value, L!insert(v) PROVE ListInv' /\ L!Sequence!Next
  <2>1. ListInv' /\ L!Sequence!Insert(v)
    BY <1>1, InsertWhole, InsertLost
  <2> QED
    BY <2>1 DEF L!Sequence!Next
<1>2. ASSUME NEW index \in 0 .. L!MaxLength, L!get_value(index) PROVE ListInv' /\ L!Sequence!Next
  <2>1. ListInv' /\ L!Sequence!GetValue(index)
    BY <1>2, GetStep
  <2> QED
    BY <2>1 DEF L!Sequence!Next
<1>3. ASSUME NEW index \in -1 .. L!MaxLength, L!remove(index) PROVE ListInv' /\ L!Sequence!Next
  <2>1. ListInv' /\ L!Sequence!RemoveItem(index)
    BY <1>3, RemoveFirstStep, RemoveLaterStep, RemoveNoneStep DEF L!remove
  <2> QED
    BY <2>1 DEF L!Sequence!Next
<1>4. CASE UNCHANGED L!vars
  <2>1. UNCHANGED <<value, next, head, tail, length, answer, live, lost>>
    BY <1>4 DEF L!vars
  <2>2. ListInv' /\ L!TailFreed' = L!TailFreed /\ Items' = Items /\ lost' = lost
    BY <2>1, ListStays
  <2>3. UNCHANGED L!Sequence!vars
    BY <2>1, <2>2 DEF L!Sequence!vars, Items
  <2> QED
    BY <2>2, <2>3
<1> QED
  BY <1>1, <1>2, <1>3, <1>4 DEF L!Next

(* For every finite heap of items, the list template implements a sequence *)
(* with the three reservations of ItemSequence (List.hpp:35-112).          *)
THEOREM ListIsSequence == LibrarySpec => IsSequence
<1>1. LibraryInit => L!Init
  BY DEF LibraryInit
<1>2. [LibraryNext]_<<part, vars, text, list>> => [L!Next]_L!vars
  BY DEF LibraryNext, list, L!vars
<1> QED
  BY <1>1, <1>2, ListInit, ListStep, PTL DEF LibrarySpec, IsSequence, L!IsSequence, L!Sequence!Spec

=============================================================================
