--------------------------- MODULE KeyboardProofs ---------------------------
(* Proofs about the keyboard buffer and the interrupt table, for every     *)
(* size of the buffer and every set of codes.                              *)
EXTENDS Keyboard, SequenceTheorems, TLAPS

-----------------------------------------------------------------------------
(* The buffer                                                              *)

(* The remainder of sums and differences of two counters.                  *)
LEMMA Remainder ==
  ASSUME NEW n \in Nat \ {0}, NEW x \in Int, 0 <= x, x < 2 * n
  PROVE  x % n = IF x < n THEN x ELSE x - n
<1>1. CASE x < n
  BY <1>1
<1>2. CASE ~(x < n)
  BY <1>2
<1> QED
  BY <1>1, <1>2

(* The remainder of a small negative number.                               *)
LEMMA NegativeRemainder ==
  ASSUME NEW n \in Nat \ {0}, NEW x \in Int, -n <= x, x < 0
  PROVE  x % n = x + n
OBVIOUS

(* A function on the numbers up to n is a sequence.                        *)
LEMMA FunctionIsSeq ==
  ASSUME NEW S, NEW n \in Nat, NEW f \in [1 .. n -> S]
  PROVE  f \in Seq(S) /\ Len(f) = n
OBVIOUS

(* Before the first key comes, the reader finds none.                      *)
EmptyBefore == key_buffer_tail = 0 => key_buffer_head = 0 /\ pc = "idle"

BufferInv == TypeOK /\ EmptyBefore

(* The number of codes that wait, and the slot of the i-th of them, without *)
(* remainders.                                                             *)
Distance == key_buffer_tail - Taken
HowMany ==
  IF Distance = 0 THEN IF Committed THEN KEY_BUFFER_SIZE ELSE 0
  ELSE IF Distance = KEY_BUFFER_SIZE \/ Distance = -KEY_BUFFER_SIZE THEN KEY_BUFFER_SIZE
  ELSE IF Distance > 0 THEN Distance ELSE Distance + KEY_BUFFER_SIZE
InRing(n) == IF n < KEY_BUFFER_SIZE THEN n ELSE n - KEY_BUFFER_SIZE
At(i) == InRing(Taken + i - 1)

View ==
  /\ Taken \in 0 .. KEY_BUFFER_SIZE
  /\ HowMany \in 0 .. KEY_BUFFER_SIZE
  /\ WaitingCodes \in Seq(Code \cup {NoCode})
  /\ Len(WaitingCodes) = HowMany
  /\ \A i \in 1 .. HowMany : WaitingCodes[i] = key_buffer[At(i)]

(* The codes that wait are a run of slots that starts over at the end.     *)
LEMMA BufferView == BufferInv => View
<1> SUFFICES ASSUME BufferInv PROVE View
  OBVIOUS
<1>1. /\ KEY_BUFFER_SIZE \in Nat \ {0, 1}
      /\ key_buffer_head \in 0 .. KEY_BUFFER_SIZE
      /\ key_buffer_tail \in 0 .. KEY_BUFFER_SIZE
      /\ pc = "advance" => key_buffer_head \in 0 .. KEY_BUFFER_SIZE - 1
      /\ key_buffer \in [0 .. KEY_BUFFER_SIZE - 1 -> Code \cup {NoCode}]
  BY SizeAssumption DEF BufferInv, TypeOK, Slot
<1>2. Taken \in 0 .. KEY_BUFFER_SIZE
  BY <1>1 DEF Taken
<1>3. Distance \in Int /\ -KEY_BUFFER_SIZE <= Distance /\ Distance <= KEY_BUFFER_SIZE
  BY <1>1, <1>2 DEF Distance
<1>4. HowMany \in 0 .. KEY_BUFFER_SIZE
  BY <1>1, <1>3 DEF HowMany
<1>5. Waiting = HowMany
  <2>1. Distance % KEY_BUFFER_SIZE =
          IF Distance < 0 THEN Distance + KEY_BUFFER_SIZE
          ELSE IF Distance < KEY_BUFFER_SIZE THEN Distance ELSE Distance - KEY_BUFFER_SIZE
    <3>1. KEY_BUFFER_SIZE \in Nat \ {0} /\ Distance < 2 * KEY_BUFFER_SIZE
      BY <1>1, <1>3
    <3> HIDE DEF Distance
    <3>2. CASE Distance < 0
      BY <1>3, <3>1, <3>2, NegativeRemainder
    <3>3. CASE 0 <= Distance
      <4>1. Distance % KEY_BUFFER_SIZE =
              IF Distance < KEY_BUFFER_SIZE THEN Distance ELSE Distance - KEY_BUFFER_SIZE
        BY <1>3, <3>1, <3>3, Remainder
      <4> QED
        BY <1>3, <3>3, <4>1
    <3> QED
      BY <1>3, <3>2, <3>3
  <2>2. Taken = key_buffer_tail <=> Distance = 0
    BY <1>1, <1>2 DEF Distance
  <2>3. Waiting = LET n == Distance % KEY_BUFFER_SIZE IN
                  IF n # 0 THEN n
                  ELSE IF Distance = 0 /\ ~Committed THEN 0 ELSE KEY_BUFFER_SIZE
    BY <2>2 DEF Waiting, Distance
  <2> HIDE DEF Distance
  <2> QED
    BY <1>1, <1>3, <2>1, <2>3 DEF HowMany
<1>6. ASSUME NEW i \in 1 .. HowMany
      PROVE  (Taken + i - 1) % KEY_BUFFER_SIZE = At(i) /\ At(i) \in 0 .. KEY_BUFFER_SIZE - 1
  <2>1. /\ Taken + i - 1 \in Int /\ 0 <= Taken + i - 1
        /\ Taken + i - 1 < 2 * KEY_BUFFER_SIZE
    BY <1>1, <1>2, <1>4
  <2> QED
    <3>0. PICK x \in Int : x = Taken + i - 1
      BY <2>1
    <3>1. KEY_BUFFER_SIZE \in Nat \ {0} /\ x \in Int /\ -KEY_BUFFER_SIZE <= x
          /\ x < 2 * KEY_BUFFER_SIZE /\ 0 <= x
      BY <1>1, <2>1, <3>0
    <3>2. At(i) = IF x < KEY_BUFFER_SIZE THEN x ELSE x - KEY_BUFFER_SIZE
      BY <1>1, <1>2, <3>0 DEF At, InRing
    <3>3. x % KEY_BUFFER_SIZE = At(i)
      BY <3>1, <3>2, Remainder
    <3>4. At(i) \in 0 .. KEY_BUFFER_SIZE - 1
      BY <3>1, <3>2
    <3> QED
      BY <3>0, <3>3, <3>4
<1>7. WaitingCodes = [i \in 1 .. HowMany |-> key_buffer[At(i)]]
  BY <1>5, <1>6 DEF WaitingCodes
<1>8. WaitingCodes \in [1 .. HowMany -> Code \cup {NoCode}]
  BY <1>1, <1>6, <1>7
<1>9. WaitingCodes \in Seq(Code \cup {NoCode}) /\ Len(WaitingCodes) = HowMany
  BY <1>4, <1>8, FunctionIsSeq
<1> QED
  BY <1>2, <1>4, <1>7, <1>9 DEF View

(* The counters stay in range.                                             *)
LEMMA BufferStep == BufferInv /\ [Next]_vars => BufferInv'
<1> SUFFICES ASSUME BufferInv, [Next]_vars PROVE BufferInv'
  OBVIOUS
<1> USE SizeAssumption DEF BufferInv, TypeOK, EmptyBefore, Slot
<1>1. ASSUME NEW k \in Code, keyboard_int_handler(k) PROVE BufferInv'
  <2>1. Wrapped(key_buffer_tail) \in 0 .. KEY_BUFFER_SIZE - 1
    BY DEF Wrapped
  <2>2. /\ key_buffer' = [key_buffer EXCEPT ![Wrapped(key_buffer_tail)] = k]
        /\ key_buffer_tail' = Wrapped(key_buffer_tail) + 1
        /\ UNCHANGED <<key_buffer_head, pc, result>>
    BY <1>1 DEF keyboard_int_handler
  <2> QED
    BY <2>1, <2>2
<1>2. CASE FindsNone
  BY <1>2 DEF FindsNone
<1>3. CASE FindsSome
  BY <1>3 DEF FindsSome, IsEmpty
<1>4. CASE WrapsHead
  BY <1>4 DEF WrapsHead, Wrapped
<1>5. CASE Loads
  BY <1>5 DEF Loads
<1>6. CASE Advances
  BY <1>6 DEF Advances
<1>7. CASE UNCHANGED vars
  BY <1>7 DEF vars
<1> QED
  BY <1>1, <1>2, <1>3, <1>4, <1>5, <1>6, <1>7 DEF Next, in_scancode

(* The empty buffer.                                                       *)
LEMMA BufferStart == Init => BufferInv
BY SizeAssumption DEF Init, BufferInv, TypeOK, EmptyBefore, Slot

-----------------------------------------------------------------------------
(* The buffer implements the queue of KeyQueue                             *)

(* Two sequences of codes are equal when they agree in all places.         *)
LEMMA SameCodes ==
  ASSUME NEW s \in Seq(Code \cup {NoCode}), NEW u \in Seq(Code \cup {NoCode}),
         Len(s) = Len(u), \A i \in 1 .. Len(s) : s[i] = u[i]
  PROVE  s = u
BY SeqEqual

(* The slots between the two counters t and s are not the next one to be   *)
(* filled, w.                                                              *)
LEMMA RingPlaces ==
  ASSUME NEW n \in Nat, n > 1, NEW t \in 0 .. n, NEW s \in 0 .. n,
         NEW w, w = IF s = n THEN 0 ELSE s,
         NEW h \in 0 .. n - 1, NEW i \in 1 .. h,
         h = s - t \/ (s < t /\ h = s - t + n),
         NEW a, a = IF t + i - 1 < n THEN t + i - 1 ELSE t + i - 1 - n
  PROVE  a # w /\ a \in 0 .. n - 1
<1>1. CASE h = s - t
  BY <1>1
<1>2. CASE s < t /\ h = s - t + n
  BY <1>2
<1> QED
  BY <1>1, <1>2

(* HowMany, of a size n, a distance d and the number z that equal counters *)
(* mean.                                                                   *)
Count(n, d, z) ==
  IF d = 0 THEN z
  ELSE IF d = n \/ d = -n THEN n
  ELSE IF d > 0 THEN d ELSE d + n

(* The handler's new code joins the queue, or replaces a full one.         *)
LEMMA HandlerIsPress ==
  ASSUME BufferInv, BufferInv', NEW k \in Code, keyboard_int_handler(k), View, View'
  PROVE  Queue!Press(k) \/ Queue!Overrun(k)
<1> DEFINE N == KEY_BUFFER_SIZE
           w == Wrapped(key_buffer_tail)
<1>1. /\ N \in Nat \ {0, 1} /\ key_buffer_tail \in 0 .. N
      /\ w \in 0 .. N - 1
      /\ key_buffer \in [0 .. N - 1 -> Code \cup {NoCode}]
      /\ w = IF key_buffer_tail = N THEN 0 ELSE key_buffer_tail
  BY SizeAssumption DEF BufferInv, TypeOK, Wrapped, Slot
<1>2. /\ key_buffer' = [key_buffer EXCEPT ![w] = k]
      /\ key_buffer_tail' = w + 1
      /\ Taken' = Taken /\ Committed' = Committed /\ result' = result
  BY DEF keyboard_int_handler, Taken, Committed
<1>3. /\ Taken \in 0 .. N /\ HowMany \in 0 .. N /\ HowMany' \in 0 .. N
      /\ WaitingCodes \in Seq(Code \cup {NoCode}) /\ Len(WaitingCodes) = HowMany
      /\ WaitingCodes' \in Seq(Code \cup {NoCode}) /\ Len(WaitingCodes') = HowMany'
      /\ \A i \in 1 .. HowMany : WaitingCodes[i] = key_buffer[At(i)]
      /\ \A i \in 1 .. HowMany' : WaitingCodes'[i] = key_buffer'[At(i)]
  BY <1>2 DEF View, At, InRing
<1>4. Distance = key_buffer_tail - Taken /\ Distance' = w + 1 - Taken
  <2>1. Distance' = key_buffer_tail' - Taken'
    BY DEF Distance
  <2>2. Distance = key_buffer_tail - Taken
    BY DEF Distance
  <2> QED
    BY <1>1, <1>2, <1>3, <2>1, <2>2
<1> HIDE DEF w
<1>5. CASE HowMany < N /\ HowMany' = HowMany + 1
  <2>1. At(HowMany + 1) = w
    BY <1>1, <1>3, <1>4, <1>5 DEF At, InRing, HowMany
  <2>2. ASSUME NEW i \in 1 .. HowMany PROVE At(i) # w /\ At(i) \in 0 .. N - 1
    <3>1. /\ HowMany = 0 => Distance = 0
          /\ HowMany # 0 => HowMany = Distance \/ (Distance < 0 /\ HowMany = Distance + N)
      BY <1>1, <1>3, <1>4, <1>5 DEF HowMany
    <3>2. At(i) = IF Taken + i - 1 < N THEN Taken + i - 1 ELSE Taken + i - 1 - N
      BY <1>1, <1>3 DEF At, InRing
    <3>3. HowMany \in 0 .. N - 1 /\ N \in Nat /\ N > 1
      BY <1>1, <1>3, <1>5
    <3>4. \/ HowMany = key_buffer_tail - Taken
          \/ key_buffer_tail < Taken /\ HowMany = key_buffer_tail - Taken + N
      BY <1>1, <1>3, <1>4, <3>1
    <3> QED
      BY <1>1, <1>3, <3>2, <3>3, <3>4, RingPlaces
  <2>3. /\ \A i \in 1 .. HowMany : WaitingCodes'[i] = WaitingCodes[i]
        /\ WaitingCodes'[HowMany + 1] = k
    <3>1. ASSUME NEW i \in 1 .. HowMany PROVE WaitingCodes'[i] = WaitingCodes[i]
      <4>1. i \in 1 .. HowMany'
        BY <1>3, <1>5
      <4>2. key_buffer'[At(i)] = key_buffer[At(i)]
        BY <1>1, <1>2, <2>2
      <4> QED
        BY <1>3, <4>1, <4>2
    <3>2. HowMany + 1 \in 1 .. HowMany' /\ key_buffer'[w] = k
      BY <1>1, <1>2, <1>3, <1>5
    <3> QED
      BY <1>3, <2>1, <3>1, <3>2
  <2>4. /\ Append(WaitingCodes, k) \in Seq(Code \cup {NoCode})
        /\ Len(Append(WaitingCodes, k)) = HowMany + 1
        /\ \A i \in 1 .. HowMany : Append(WaitingCodes, k)[i] = WaitingCodes[i]
        /\ Append(WaitingCodes, k)[HowMany + 1] = k
    BY <1>3, AppendProperties
  <2>5. WaitingCodes' = Append(WaitingCodes, k)
    BY <1>3, <1>5, <2>3, <2>4, SameCodes
  <2> QED
    BY <1>2, <1>3, <1>5, <2>5 DEF Queue!Press
<1>6. CASE HowMany = N - 1 /\ HowMany' = 0
  <2>1. WaitingCodes' = <<>>
    BY <1>3, <1>6, EmptySeq
  <2> QED
    BY <1>1, <1>2, <1>3, <1>6, <2>1 DEF Queue!Overrun
<1>7. CASE HowMany = N /\ HowMany' = 1
  <2>1. At(1) = w
    BY <1>1, <1>3, <1>4, <1>7 DEF At, InRing, HowMany
  <2>2. WaitingCodes'[1] = k
    BY <1>1, <1>2, <1>3, <1>7, <2>1
  <2>3. WaitingCodes' = <<k>>
    BY <1>3, <1>7, <2>2
  <2> QED
    BY <1>1, <1>2, <1>3, <1>7, <2>3 DEF Queue!Overrun
<1> QED
  <2>1. PICK z \in {0, N} : z = IF Committed THEN N ELSE 0
    OBVIOUS
  <2>2. /\ HowMany = Count(N, key_buffer_tail - Taken, z)
        /\ HowMany' = Count(N, w + 1 - Taken, z)
    BY <1>2, <1>4, <2>1 DEF HowMany, Count
  <2>3. \/ HowMany < N /\ HowMany' = HowMany + 1
        \/ HowMany = N - 1 /\ HowMany' = 0
        \/ HowMany = N /\ HowMany' = 1
    <3>1. PICK n, t, s : n = N /\ t = Taken /\ s = key_buffer_tail
      OBVIOUS
    <3>2. /\ n \in Nat /\ n > 1 /\ t \in 0 .. n /\ s \in 0 .. n /\ z \in {0, n}
          /\ w = IF s = n THEN 0 ELSE s
      BY <1>1, <1>3, <3>1
    <3>3. PICK h, g : h = Count(n, s - t, z) /\ g = Count(n, w + 1 - t, z)
      OBVIOUS
    <3>4. (h < n /\ g = h + 1) \/ (h = n - 1 /\ g = 0) \/ (h = n /\ g = 1)
      <4>1. CASE s = n
        BY <3>2, <3>3, <4>1 DEF Count
      <4>2. CASE s # n
        BY <3>2, <3>3, <4>2 DEF Count
      <4> QED
        BY <4>1, <4>2
    <3> QED
      BY <2>2, <3>1, <3>3, <3>4
  <2> QED
    BY <1>5, <1>6, <1>7, <2>3

(* The load takes the oldest code, although the counter moves later.       *)
LEMMA LoadIsTake ==
  ASSUME BufferInv, BufferInv', Loads, View, View'
  PROVE  Queue!Take
<1> DEFINE N == KEY_BUFFER_SIZE
           S == Code \cup {NoCode}
<1>1. /\ N \in Nat \ {0, 1} /\ key_buffer_tail \in 1 .. N
      /\ key_buffer_head \in 0 .. N - 1
  BY SizeAssumption DEF BufferInv, TypeOK, EmptyBefore, Slot, Loads
<1>2. /\ result' = key_buffer[key_buffer_head]
      /\ Taken = key_buffer_head /\ Taken' = Taken + 1
      /\ Committed /\ ~Committed'
      /\ key_buffer' = key_buffer /\ key_buffer_tail' = key_buffer_tail
  BY DEF Loads, Taken, Committed
<1>3. /\ HowMany \in 0 .. N /\ HowMany' \in 0 .. N
      /\ WaitingCodes \in Seq(S) /\ Len(WaitingCodes) = HowMany
      /\ WaitingCodes' \in Seq(S) /\ Len(WaitingCodes') = HowMany'
      /\ \A i \in 1 .. HowMany : WaitingCodes[i] = key_buffer[At(i)]
      /\ \A i \in 1 .. HowMany' : WaitingCodes'[i] = key_buffer'[At(i)']
  BY DEF View
<1>4. Distance = key_buffer_tail - Taken /\ Distance' = key_buffer_tail - (Taken + 1)
  BY <1>2 DEF Distance
<1>5. HowMany > 0 /\ HowMany' = HowMany - 1
  BY <1>1, <1>2, <1>4 DEF HowMany
<1>6. \A i \in 1 .. HowMany - 1 : At(i)' = At(i + 1)
  <2> SUFFICES ASSUME NEW i \in 1 .. HowMany - 1 PROVE At(i)' = At(i + 1)
    OBVIOUS
  <2>1. At(i)' = InRing(Taken' + i - 1)
    BY DEF At, InRing
  <2>2. At(i + 1) = InRing(Taken + (i + 1) - 1)
    BY DEF At, InRing
  <2>3. Taken \in Nat /\ i \in Nat
    BY <1>1, <1>2, <1>3
  <2>4. Taken' + i - 1 = Taken + (i + 1) - 1
    BY <1>2, <2>3
  <2> QED
    BY <2>1, <2>2, <2>4
<1>7. At(1) = key_buffer_head
  BY <1>1, <1>2 DEF At, InRing
<1>8. WaitingCodes # <<>>
  BY <1>3, <1>5, EmptySeq
<1>9. /\ Tail(WaitingCodes) \in Seq(S) /\ Len(Tail(WaitingCodes)) = HowMany - 1
      /\ \A i \in 1 .. HowMany - 1 : Tail(WaitingCodes)[i] = WaitingCodes[i + 1]
  BY <1>3, <1>8, HeadTailProperties
<1>10. \A i \in 1 .. HowMany - 1 : WaitingCodes'[i] = WaitingCodes[i + 1]
  <2> SUFFICES ASSUME NEW i \in 1 .. HowMany - 1
               PROVE  WaitingCodes'[i] = WaitingCodes[i + 1]
    OBVIOUS
  <2>1. i \in 1 .. HowMany' /\ i + 1 \in 1 .. HowMany
    BY <1>3, <1>5
  <2> QED
    BY <1>2, <1>3, <1>6, <2>1
<1>11. WaitingCodes' = Tail(WaitingCodes)
  BY <1>3, <1>5, <1>9, <1>10, SameCodes
<1>12. Head(WaitingCodes) = result'
  <2>1. Head(WaitingCodes) = WaitingCodes[1]
    BY <1>8
  <2> QED
    BY <1>2, <1>3, <1>5, <1>7, <2>1
<1> QED
  BY <1>8, <1>11, <1>12 DEF Queue!Take

(* The other steps of the reader leave the codes that wait alone.          *)
LEMMA ReaderIsSilent ==
  ASSUME BufferInv, BufferInv', FindsSome \/ WrapsHead \/ Advances, View, View'
  PROVE  UNCHANGED <<WaitingCodes, result>>
<1> DEFINE N == KEY_BUFFER_SIZE
<1>1. /\ N \in Nat \ {0, 1} /\ key_buffer_tail \in 0 .. N
      /\ key_buffer_head \in 0 .. N
      /\ key_buffer_tail = 0 => key_buffer_head = 0 /\ pc = "idle"
  BY SizeAssumption DEF BufferInv, TypeOK, EmptyBefore
<1>2. key_buffer' = key_buffer /\ key_buffer_tail' = key_buffer_tail /\ result' = result
  BY DEF FindsSome, WrapsHead, Advances
<1>3. /\ Taken \in 0 .. N /\ Taken' \in 0 .. N /\ HowMany \in 0 .. N
      /\ WaitingCodes \in Seq(Code \cup {NoCode}) /\ Len(WaitingCodes) = HowMany
      /\ WaitingCodes' \in Seq(Code \cup {NoCode}) /\ Len(WaitingCodes') = HowMany'
      /\ \A i \in 1 .. HowMany : WaitingCodes[i] = key_buffer[At(i)]
      /\ \A i \in 1 .. HowMany' : WaitingCodes'[i] = key_buffer'[At(i)']
  BY DEF View
<1>4. /\ Distance = key_buffer_tail - Taken
      /\ Distance' = key_buffer_tail' - Taken'
  BY DEF Distance
<1>5. \/ /\ Taken' = Taken
         /\ Committed' = Committed \/ Distance # 0
      \/ Taken = N /\ Taken' = 0 /\ Committed /\ Committed'
  <2>1. CASE FindsSome
    <3>1. Taken' = Taken /\ Taken # key_buffer_tail
      BY <2>1 DEF FindsSome, IsEmpty, Taken
    <3>2. Distance # 0
      BY <1>1, <1>3, <1>4, <3>1
    <3> QED
      BY <3>1, <3>2
  <2>2. CASE WrapsHead
    BY <1>1, <2>2 DEF WrapsHead, Wrapped, Taken, Committed
  <2>3. CASE Advances
    BY <1>1, <2>3 DEF Advances, Taken, Committed
  <2> QED
    BY <2>1, <2>2, <2>3
<1>6. HowMany' = HowMany
  <2>1. CASE Taken' = Taken /\ (Committed' = Committed \/ Distance # 0)
    <3>1. Distance' = Distance
      BY <1>2, <1>4, <2>1
    <3> QED
      BY <2>1, <3>1 DEF HowMany
  <2>2. CASE Taken = N /\ Taken' = 0 /\ Committed /\ Committed'
    <3>1. key_buffer_tail \in 1 .. N
      BY <1>1, <2>2 DEF Committed
    <3>2. Distance = key_buffer_tail - N /\ Distance' = key_buffer_tail
      BY <1>2, <1>4, <2>2, <3>1
    <3> QED
      BY <1>1, <2>2, <3>1, <3>2 DEF HowMany
  <2> QED
    BY <1>5, <2>1, <2>2
<1>7. \A i \in 1 .. HowMany : At(i)' = At(i)
  <2> SUFFICES ASSUME NEW i \in 1 .. HowMany PROVE At(i)' = At(i)
    OBVIOUS
  <2>1. At(i)' = InRing(Taken' + i - 1)
    BY DEF At, InRing
  <2>2. At(i) = InRing(Taken + i - 1)
    BY DEF At
  <2>3. CASE Taken' = Taken
    BY <2>1, <2>2, <2>3
  <2>4. CASE Taken = N /\ Taken' = 0
    BY <1>1, <1>3, <2>1, <2>2, <2>4 DEF InRing
  <2> QED
    BY <1>5, <2>3, <2>4
<1>8. WaitingCodes' = WaitingCodes
  BY <1>2, <1>3, <1>6, <1>7, SameCodes
<1> QED
  BY <1>2, <1>8

(* Every step of the buffer is one of the queue, or leaves it as it is.    *)
LEMMA BufferStepIsQueueStep ==
  BufferInv /\ [Next]_vars => [Queue!Next]_(Queue!vars)
<1> SUFFICES ASSUME BufferInv, [Next]_vars PROVE [Queue!Next]_(Queue!vars)
  OBVIOUS
<1>1. BufferInv'
  BY BufferStep
<1>2. View
  BY BufferView
<1>3. BufferInv' => View'
  BY BufferView, PTL
<1>4. View'
  BY <1>1, <1>3
<1>5. ASSUME NEW k \in Code, keyboard_int_handler(k) PROVE Queue!Next
  BY <1>1, <1>2, <1>4, <1>5, HandlerIsPress DEF Queue!Next
<1>6. CASE FindsNone
  <2>1. Distance = 0 /\ ~Committed
    BY <1>6, SizeAssumption DEF FindsNone, IsEmpty, Distance, Taken, Committed,
       BufferInv, TypeOK
  <2>2. WaitingCodes = <<>>
    BY <1>2, <2>1, EmptySeq DEF View, HowMany
  <2>3. WaitingCodes' = WaitingCodes
    BY <1>6 DEF FindsNone, WaitingCodes, Waiting, Taken, Committed
  <2>4. result' = NoCode
    BY <1>6 DEF FindsNone
  <2> QED
    BY <2>2, <2>3, <2>4 DEF Queue!Next, Queue!FindNone
<1>7. CASE Loads
  BY <1>1, <1>2, <1>4, <1>7, LoadIsTake DEF Queue!Next
<1>8. CASE FindsSome \/ WrapsHead \/ Advances
  BY <1>1, <1>2, <1>4, <1>8, ReaderIsSilent DEF Queue!vars
<1>9. CASE UNCHANGED vars
  <2>1. WaitingCodes' = WaitingCodes /\ result' = result
    BY <1>9 DEF vars, WaitingCodes, Waiting, Taken, Committed
  <2> QED
    BY <2>1 DEF Queue!vars
<1> QED
  BY <1>5, <1>6, <1>7, <1>8, <1>9 DEF Next, in_scancode

(* The empty buffer is the empty queue.                                    *)
LEMMA BufferStartIsQueueStart == Init => Queue!Init
<1> SUFFICES ASSUME Init PROVE Queue!Init
  OBVIOUS
<1>1. View
  BY BufferStart, BufferView
<1>2. Distance = 0 /\ ~Committed
  BY DEF Init, Distance, Taken, Committed
<1>3. WaitingCodes = <<>>
  BY <1>1, <1>2, EmptySeq DEF View, HowMany
<1> QED
  BY <1>3 DEF Init, Queue!Init

(* Wherever the handler interrupts the reader, the buffer does what the    *)
(* queue of KeyQueue may do: no code is reordered, duplicated or made up,  *)
(* and none is lost before the buffer is full (tty.c:146-174).  That what  *)
(* waits is delivered, the fairness of IsQueue, is left to TLC.            *)
THEOREM BufferIsQueue == Spec => Queue!Init /\ [][Queue!Next]_(Queue!vars)
BY BufferStart, BufferStep, BufferStartIsQueueStart, BufferStepIsQueueStep, PTL DEF Spec

-----------------------------------------------------------------------------
(* The interrupt table and the controller                                  *)

Steps == {"cli", "type", "copy", "patch", "low", "high"}
Target == {"template", "default"} \cup I!Irq
Frame == [vector : I!Vector, flag : BOOLEAN, at : {"handler", "eoi", "iret"}]

(* Types, and no interrupt before the user program runs, or in another.    *)
ProcessorOK ==
  /\ idtr \in BOOLEAN /\ iflag \in BOOLEAN
  /\ idt \in [I!Vector -> I!Gate]
  /\ wrapper \in Seq(Target)
  /\ statement \in 1 .. 9 /\ step \in Steps
  /\ mask \subseteq I!Irq /\ pending \subseteq I!Irq /\ in_service \subseteq I!Irq
  /\ DOMAIN wanted = I!Vector
  /\ statement > 1 => idtr
  /\ statement = 9 \/ ~iflag
  /\ stack = <<>> \/ (~iflag /\ statement = 9 /\ \E f \in Frame : stack = <<f>>)

(* Only the interrupt that is handled is in service.                       *)
InService ==
  \/ in_service = {}
  \/ /\ stack # <<>> /\ stack[1].at # "iret"
     /\ in_service = {stack[1].vector}

(* The gate of v is complete once its last statement has run.              *)
LastSet(v) == IF v = "timer" THEN 6 ELSE 7
Complete(v) ==
  /\ wanted[v] = v /\ idt[v].type = TRUE
  /\ idt[v].low = idt[v].high /\ idt[v].low \in 1 .. Len(wrapper)
  /\ wrapper[idt[v].low] = v
GatesSet == \A v \in I!Irq : statement > LastSet(v) => Complete(v)

(* How far set_int_handler has come with the gate it fills in.  No gate    *)
(* that is complete uses the new wrapper.                                  *)
SetProgress ==
  LET v == I!Current.vector
      h == I!Current.handler IN
  I!Current.op = "set" =>
    /\ step # "cli" => wanted[v] = h
    /\ step \notin {"cli", "type"} => idt[v].type = TRUE
    /\ step \in {"patch", "low", "high"} =>
         /\ Len(wrapper) > 0
         /\ \A w \in I!Irq : statement > LastSet(w) => idt[w].low # Len(wrapper)
    /\ step \in {"low", "high"} => wrapper[Len(wrapper)] = h
    /\ step = "high" => idt[v].low = Len(wrapper)

GateInv == ProcessorOK /\ InService /\ GatesSet /\ SetProgress

(* The statements of Program.                                              *)
LEMMA ProgramText ==
  /\ Len(I!Program) = 9
  /\ I!Program[1].op = "lidt" /\ I!Program[5].op = "init_PIC"
  /\ I!Program[8].op = "enter_usermode" /\ I!Program[9].op = "run"
  /\ \A n \in {2, 3, 4, 6, 7} : I!Program[n].op = "set"
  /\ I!Program[2] = I!Set("other", "default")
  /\ I!Program[3] = I!Set("timer", "default")
  /\ I!Program[4] = I!Set("keyboard", "default")
  /\ I!Program[6] = I!Set("timer", "timer")
  /\ I!Program[7] = I!Set("keyboard", "keyboard")
BY DEF I!Program, I!Set

(* What the current statement is, for the numbers a statement has.         *)
LEMMA CurrentStatement ==
  ASSUME statement \in 1 .. 9
  PROVE  /\ I!Current.op = "lidt" <=> statement = 1
         /\ I!Current.op = "init_PIC" <=> statement = 5
         /\ I!Current.op = "enter_usermode" <=> statement = 8
         /\ I!Current.op = "run" <=> statement = 9
         /\ I!Current.op = "set" <=> statement \in {2, 3, 4, 6, 7}
         /\ I!Current.op = "set" =>
              /\ I!Current.vector \in I!Vector /\ I!Current.handler \in Target
              /\ statement < 5 => I!Current.handler = "default"
              /\ statement = 6 => I!Current = I!Set("timer", "timer")
              /\ statement = 7 => I!Current = I!Set("keyboard", "keyboard")
<1>1. statement \in {1, 2, 3, 4, 5, 6, 7, 8, 9}
  OBVIOUS
<1> QED
  BY <1>1, ProgramText DEF I!Current, I!Set, I!Vector, I!Irq, Target

(* The kernel starts with interrupts disabled and an empty table.          *)
LEMMA GateStart == I!Init => GateInv
<1> SUFFICES ASSUME I!Init PROVE GateInv
  OBVIOUS
<1>1. ProcessorOK
  <2>1. /\ idtr \in BOOLEAN /\ iflag \in BOOLEAN /\ ~iflag
        /\ statement = 1 /\ step \in Steps /\ stack = <<>>
        /\ mask \subseteq I!Irq /\ pending \subseteq I!Irq /\ in_service \subseteq I!Irq
    BY DEF I!Init, I!StartupFlag, Steps
  <2>2. idt \in [I!Vector -> I!Gate] /\ DOMAIN wanted = I!Vector
    BY DEF I!Init, I!Gate
  <2>3. wrapper \in Seq(Target)
    BY DEF I!Init
  <2> QED
    BY <2>1, <2>2, <2>3 DEF ProcessorOK
<1>2. InService /\ GatesSet
  BY DEF I!Init, InService, GatesSet, LastSet
<1>3. SetProgress
  BY <1>1, CurrentStatement DEF I!Init, SetProgress, ProcessorOK
<1> QED
  BY <1>1, <1>2, <1>3 DEF GateInv

(* The gates stay complete when the table and the wrappers do not change.  *)
LEMMA GatesKept ==
  ASSUME GateInv, UNCHANGED <<idt, wrapper, wanted>>,
         statement' = statement \/ (statement' = statement + 1 /\ statement \notin {6, 7})
  PROVE  GatesSet'
BY DEF GateInv, ProcessorOK, GatesSet, LastSet, Complete, I!Irq

(* A statement that has not begun has made no progress.                    *)
LEMMA NoProgress ==
  ASSUME statement' \in 1 .. 9, step' = "cli"
  PROVE  SetProgress'
BY DEF SetProgress

(* What the kernel has done is kept by all but the kernel.                 *)
LEMMA ProgressKept ==
  ASSUME GateInv, UNCHANGED I!kernel
  PROVE  GatesSet' /\ SetProgress'
BY DEF GateInv, I!kernel, GatesSet, Complete, SetProgress, I!Current

(* Each store of set_int_handler brings the gate forward, with interrupts  *)
(* disabled, and none touches a gate that is complete.                     *)
LEMMA SetStepKeepsGates == GateInv /\ I!SetStep => GateInv'
<1> SUFFICES ASSUME GateInv, I!SetStep PROVE GateInv'
  OBVIOUS
<1> DEFINE v == I!Current.vector
           h == I!Current.handler
<1>1. /\ stack = <<>> /\ I!Current.op = "set"
      /\ UNCHANGED <<idtr, mask, pending, in_service, stack>>
  BY DEF I!SetStep, I!Kernel
<1>2. /\ statement \in {2, 3, 4, 6, 7} /\ v \in I!Vector /\ h \in Target
      /\ statement = 6 => v = "timer" /\ h = "timer"
      /\ statement = 7 => v = "keyboard" /\ h = "keyboard"
      /\ ~iflag /\ in_service = {}
  BY <1>1, CurrentStatement DEF GateInv, ProcessorOK, InService, I!Set
<1>3. InService'
  BY <1>1, <1>2 DEF InService
<1>4. Len(wrapper) \in Nat
  BY DEF GateInv, ProcessorOK
<1>5. CASE step # "high"
  <2>1. statement' = statement /\ I!Current' = I!Current
    BY <1>5 DEF I!SetStep, I!Goto, I!Current
  <2>2. CASE step = "cli"
    <3>1. /\ step' = "type" /\ iflag' = FALSE /\ UNCHANGED <<idt, wrapper>>
          /\ wanted' = [wanted EXCEPT ![v] = h]
      BY <2>2 DEF I!SetStep, I!Goto
    <3>2. ProcessorOK'
      BY <1>1, <1>2, <2>1, <3>1 DEF GateInv, ProcessorOK, Steps
    <3>3. GatesSet'
      BY <1>2, <2>1, <3>1 DEF GateInv, ProcessorOK, GatesSet, LastSet, Complete, I!Irq
    <3>4. SetProgress'
      BY <1>2, <2>1, <3>1 DEF GateInv, ProcessorOK, SetProgress
    <3> QED
      BY <1>3, <3>2, <3>3, <3>4 DEF GateInv
  <2>3. CASE step = "type"
    <3>1. /\ step' = "copy" /\ UNCHANGED <<wrapper, iflag, wanted>>
          /\ idt' = [idt EXCEPT ![v].type = TRUE]
      BY <2>3 DEF I!SetStep, I!Goto
    <3>2. ProcessorOK'
      BY <1>1, <1>2, <2>1, <3>1 DEF GateInv, ProcessorOK, Steps, I!Gate
    <3>3. GatesSet'
      BY <1>2, <2>1, <3>1 DEF GateInv, ProcessorOK, GatesSet, LastSet, Complete, I!Irq, I!Gate
    <3>4. SetProgress'
      BY <1>2, <2>1, <2>3, <3>1 DEF GateInv, ProcessorOK, SetProgress, I!Gate
    <3> QED
      BY <1>3, <3>2, <3>3, <3>4 DEF GateInv
  <2>4. CASE step = "copy"
    <3>1. /\ step' = "patch" /\ UNCHANGED <<idt, iflag, wanted>>
          /\ wrapper' = Append(wrapper, "template")
      BY <2>4 DEF I!SetStep, I!Goto
    <3>2. /\ wrapper' \in Seq(Target) /\ Len(wrapper') = Len(wrapper) + 1
          /\ \A n \in 1 .. Len(wrapper) : wrapper'[n] = wrapper[n]
      <4>1. wrapper \in Seq(Target) /\ "template" \in Target
        BY DEF GateInv, ProcessorOK, Target
      <4> QED
        BY <3>1, <4>1, AppendProperties
    <3>3. ProcessorOK'
      BY <1>1, <1>2, <2>1, <3>1, <3>2 DEF GateInv, ProcessorOK, Steps
    <3>4. GatesSet'
      BY <1>4, <2>1, <3>1, <3>2 DEF GateInv, GatesSet, Complete
    <3>5. \A w \in I!Irq : statement > LastSet(w) => idt[w].low # Len(wrapper')
      BY <1>4, <3>2 DEF GateInv, GatesSet, Complete
    <3>6. SetProgress'
      BY <1>4, <2>1, <2>4, <3>1, <3>2, <3>5 DEF GateInv, SetProgress, LastSet
    <3> QED
      BY <1>3, <3>3, <3>4, <3>6 DEF GateInv
  <2>5. CASE step = "patch"
    <3>1. /\ step' = "low" /\ UNCHANGED <<idt, iflag, wanted>>
          /\ wrapper' = [wrapper EXCEPT ![Len(wrapper)] = h]
      BY <2>5 DEF I!SetStep, I!Goto, I!New
    <3>2. Len(wrapper) > 0
      BY <1>1, <2>5 DEF GateInv, SetProgress
    <3>3. /\ wrapper' \in Seq(Target) /\ Len(wrapper') = Len(wrapper)
          /\ wrapper'[Len(wrapper)] = h
          /\ \A n \in 1 .. Len(wrapper) : n # Len(wrapper) => wrapper'[n] = wrapper[n]
      <4>1. wrapper \in Seq(Target)
        BY DEF GateInv, ProcessorOK
      <4> QED
        BY <1>2, <1>4, <3>1, <3>2, <4>1, ExceptSeq
    <3>4. ProcessorOK'
      BY <1>1, <1>2, <2>1, <3>1, <3>3 DEF GateInv, ProcessorOK, Steps
    <3>5. \A w \in I!Irq : statement > LastSet(w) => idt[w].low # Len(wrapper)
      BY <1>1, <2>5 DEF GateInv, SetProgress
    <3>6. GatesSet'
      BY <2>1, <3>1, <3>3, <3>5 DEF GateInv, GatesSet, Complete, LastSet
    <3>7. SetProgress'
      BY <1>1, <2>1, <2>5, <3>1, <3>3 DEF GateInv, SetProgress, LastSet
    <3> QED
      BY <1>3, <3>4, <3>6, <3>7 DEF GateInv
  <2>6. CASE step = "low"
    <3>1. /\ step' = "high" /\ UNCHANGED <<wrapper, iflag, wanted>>
          /\ idt' = [idt EXCEPT ![v].low = Len(wrapper)]
      BY <2>6 DEF I!SetStep, I!Goto, I!New
    <3>2. ProcessorOK'
      BY <1>1, <1>2, <1>4, <2>1, <3>1 DEF GateInv, ProcessorOK, Steps, I!Gate
    <3>3. GatesSet'
      BY <1>2, <2>1, <3>1 DEF GateInv, ProcessorOK, GatesSet, LastSet, Complete, I!Irq, I!Gate
    <3>4. \A w \in I!Irq : statement > LastSet(w) => idt'[w].low # Len(wrapper)
      BY <1>1, <1>2, <2>6, <3>1 DEF GateInv, ProcessorOK, SetProgress, LastSet, I!Irq
    <3>5. SetProgress'
      BY <1>1, <1>2, <2>1, <2>6, <3>1, <3>4 DEF GateInv, ProcessorOK, SetProgress, LastSet, I!Gate
    <3> QED
      BY <1>3, <3>2, <3>3, <3>5 DEF GateInv
  <2> QED
    BY <1>5, <2>2, <2>3, <2>4, <2>5, <2>6 DEF GateInv, ProcessorOK, Steps
<1>6. CASE step = "high"
  <2>1. /\ statement' = statement + 1 /\ step' = "cli"
        /\ UNCHANGED <<wrapper, iflag, wanted>>
        /\ idt' = [idt EXCEPT ![v].high = Len(wrapper)]
    BY <1>6 DEF I!SetStep, I!NextStatement, I!New
  <2>2. ProcessorOK'
    <3>1. idt' \in [I!Vector -> I!Gate]
      BY <1>2, <1>4, <2>1 DEF GateInv, ProcessorOK, I!Gate
    <3>2. statement' \in 1 .. 9 /\ statement > 1 /\ step' \in Steps
      BY <1>2, <2>1 DEF Steps
    <3> QED
      BY <1>1, <1>2, <2>1, <3>1, <3>2 DEF GateInv, ProcessorOK
  <2>3. /\ wanted[v] = h /\ idt[v].type = TRUE /\ idt[v].low = Len(wrapper)
        /\ Len(wrapper) > 0 /\ wrapper[Len(wrapper)] = h
    BY <1>1, <1>6 DEF GateInv, SetProgress
  <2>4. statement \in {6, 7} =>
          /\ wanted'[v] = v /\ idt'[v].type = TRUE /\ idt'[v].low = idt'[v].high
          /\ idt'[v].low \in 1 .. Len(wrapper') /\ wrapper'[idt'[v].low] = v
    <3> SUFFICES ASSUME statement \in {6, 7} 
                 PROVE  /\ wanted'[v] = v /\ idt'[v].type = TRUE /\ idt'[v].low = idt'[v].high
                        /\ idt'[v].low \in 1 .. Len(wrapper') /\ wrapper'[idt'[v].low] = v
      OBVIOUS
    <3>1. v = h /\ v \in {"timer", "keyboard"}
      BY <1>2
    <3>2. /\ idt'[v].type = TRUE /\ idt'[v].low = Len(wrapper) /\ idt'[v].high = Len(wrapper)
      BY <1>2, <2>1, <2>3 DEF GateInv, ProcessorOK, I!Gate
    <3> QED
      BY <1>4, <2>1, <2>3, <3>1, <3>2
  <2>5. ASSUME NEW w \in I!Irq, statement > LastSet(w) PROVE Complete(w)'
    <3>1. w # v /\ Complete(w)
      BY <1>2, <2>5 DEF GateInv, GatesSet, LastSet, I!Irq
    <3> QED
      BY <2>1, <3>1 DEF GateInv, ProcessorOK, Complete, I!Vector
  <2>6. GatesSet'
    <3> SUFFICES ASSUME NEW w \in I!Irq, statement + 1 > LastSet(w) PROVE Complete(w)'
      BY <2>1 DEF GatesSet, LastSet
    <3>1. CASE statement > LastSet(w)
      BY <2>5, <3>1
    <3>2. CASE ~(statement > LastSet(w))
      <4>1. statement \in {6, 7} /\ v = w
        BY <1>2, <3>2 DEF LastSet, I!Irq
      <4> QED
        BY <2>4, <4>1 DEF Complete
    <3> QED
      BY <3>1, <3>2
  <2>7. SetProgress'
    BY <1>2, <2>1, NoProgress
  <2> QED
    BY <1>3, <2>2, <2>6, <2>7 DEF GateInv
<1> QED
  BY <1>5, <1>6

(* The other statements of the kernel.                                     *)
LEMMA BootKeepsGates ==
  GateInv /\ (I!lidt \/ I!init_PIC \/ I!enter_usermode) => GateInv'
<1> SUFFICES ASSUME GateInv, I!lidt \/ I!init_PIC \/ I!enter_usermode PROVE GateInv'
  OBVIOUS
<1>1. /\ stack = <<>> /\ stack' = stack /\ statement \in {1, 5, 8} /\ in_service = {}
      /\ statement' = statement + 1 /\ step' = "cli" /\ in_service' = {}
      /\ UNCHANGED <<idt, wrapper, wanted>>
  <2>1. stack = <<>> /\ in_service = {} /\ statement \in 1 .. 9
    BY DEF GateInv, InService, ProcessorOK, I!lidt, I!init_PIC, I!enter_usermode, I!Kernel
  <2> QED
    BY <2>1, CurrentStatement DEF I!lidt, I!init_PIC, I!enter_usermode, I!Kernel,
       I!NextStatement
<1>2. /\ idtr' \in BOOLEAN /\ iflag' \in BOOLEAN /\ idtr'
      /\ statement' = 9 \/ ~iflag'
      /\ mask' \subseteq I!Irq /\ pending' \subseteq I!Irq
  <2>1. CASE I!lidt
    BY <1>1, <2>1 DEF I!lidt, GateInv, ProcessorOK
  <2>2. CASE I!init_PIC
    BY <1>1, <2>2, CurrentStatement DEF I!init_PIC, I!Kernel, GateInv, ProcessorOK
  <2>3. CASE I!enter_usermode
    BY <1>1, <2>3, CurrentStatement DEF I!enter_usermode, I!Kernel, GateInv, ProcessorOK
  <2> QED
    BY <2>1, <2>2, <2>3
<1>3. ProcessorOK'
  BY <1>1, <1>2 DEF GateInv, ProcessorOK, Steps
<1>4. InService'
  BY <1>1 DEF InService
<1>5. GatesSet'
  BY <1>1, GatesKept
<1>6. SetProgress'
  BY <1>1, NoProgress
<1> QED
  BY <1>3, <1>4, <1>5, <1>6 DEF GateInv

(* The stack holds one interrupt at most.                                  *)
LEMMA OneFrame ==
  ASSUME GateInv, stack # <<>>
  PROVE  /\ ~iflag /\ statement = 9 /\ Len(stack) = 1 /\ stack[1] \in Frame
         /\ stack = <<stack[1]>> /\ Tail(stack) = <<>>
<1>1. ~iflag /\ statement = 9 /\ \E f \in Frame : stack = <<f>>
  BY DEF GateInv, ProcessorOK
<1>2. PICK f \in Frame : stack = <<f>>
  BY <1>1
<1>3. stack[1] = f /\ Len(stack) = 1
  BY <1>2
<1>4. Tail(stack) = <<>>
  BY <1>2
<1> QED
  BY <1>1, <1>2, <1>3, <1>4

(* An interrupt that is taken finds no other one.                          *)
LEMMA EnterKeepsGates ==
  ASSUME GateInv, NEW v \in I!Vector, I!Enter(v), UNCHANGED <<I!kernel, mask>>,
         pending' \subseteq I!Irq, in_service' \in {{}, {v}}, in_service' \subseteq I!Irq,
         stack = <<>>, statement = 9
  PROVE  GateInv'
<1>1. stack' = <<[vector |-> v, flag |-> iflag, at |-> "handler"]>> /\ iflag' = FALSE
  BY DEF I!Enter, I!FlagInside
<1>2. [vector |-> v, flag |-> iflag, at |-> "handler"] \in Frame
  BY DEF GateInv, ProcessorOK, Frame
<1>3. ProcessorOK'
  BY <1>1, <1>2 DEF GateInv, ProcessorOK, I!kernel
<1>4. InService'
  BY <1>1 DEF InService
<1> QED
  BY <1>3, <1>4, ProgressKept DEF GateInv

(* The wrapper ends the service it was entered for, and returns.           *)
LEMMA WrapperKeepsGates == GateInv /\ I!Wrapper => GateInv'
<1> SUFFICES ASSUME GateInv, I!Wrapper PROVE GateInv'
  OBVIOUS
<1>1. /\ stack # <<>> /\ UNCHANGED <<I!kernel, mask, pending>>
  BY DEF I!Wrapper, I!Handler, I!EndOfInterrupt, I!Iret
<1>2. /\ ~iflag /\ statement = 9 /\ Len(stack) = 1 /\ stack[1] \in Frame
      /\ stack = <<stack[1]>> /\ Tail(stack) = <<>>
  BY <1>1, OneFrame
<1>3. ProcessorOK' /\ InService'
  <2>1. CASE I!Handler
    <3>1. /\ stack' = <<[stack[1] EXCEPT !.at = "eoi"]>> /\ iflag' = iflag
          /\ in_service' = in_service
      BY <1>2, <2>1 DEF I!Handler
    <3>2. [stack[1] EXCEPT !.at = "eoi"] \in Frame
      BY <1>2 DEF Frame
    <3>3. ProcessorOK'
      BY <1>1, <1>2, <3>1, <3>2 DEF GateInv, ProcessorOK, I!kernel
    <3>4. stack'[1].at = "eoi" /\ stack'[1].vector = stack[1].vector /\ stack' # <<>>
      BY <1>2, <3>1 DEF Frame
    <3> QED
      BY <3>1, <3>3, <3>4 DEF GateInv, InService
  <2>2. CASE I!EndOfInterrupt
    <3>1. /\ stack' = <<[stack[1] EXCEPT !.at = "iret"]>> /\ iflag' = iflag
          /\ in_service' = {}
      BY <1>2, <2>2 DEF I!EndOfInterrupt, I!AfterEoi
    <3>2. [stack[1] EXCEPT !.at = "iret"] \in Frame
      BY <1>2 DEF Frame
    <3> QED
      BY <1>1, <1>2, <3>1, <3>2 DEF GateInv, ProcessorOK, InService, I!kernel
  <2>3. CASE I!Iret
    <3>1. /\ stack' = <<>> /\ iflag' \in BOOLEAN /\ in_service = {} /\ in_service' = {}
      BY <1>2, <2>3 DEF I!Iret, I!FlagAfter, GateInv, InService, Frame
    <3> QED
      BY <1>1, <1>2, <3>1 DEF GateInv, ProcessorOK, InService, I!kernel
  <2> QED
    BY <2>1, <2>2, <2>3 DEF I!Wrapper
<1> QED
  BY <1>1, <1>3, ProgressKept DEF GateInv

(* Every step keeps the invariant.                                         *)
LEMMA GateStep == GateInv /\ [I!Next]_processor => GateInv'
<1> SUFFICES ASSUME GateInv, [I!Next]_processor PROVE GateInv'
  OBVIOUS
<1>1. CASE I!Boot
  BY <1>1, SetStepKeepsGates, BootKeepsGates DEF I!Boot
<1>2. CASE I!Wrapper
  BY <1>2, WrapperKeepsGates
<1>3. CASE I!gen_interrupt
  <2>1. /\ stack = <<>> /\ statement = 9 /\ in_service = {} /\ in_service' = {}
        /\ I!Enter("other") /\ UNCHANGED <<I!kernel, mask, pending>>
        /\ pending \subseteq I!Irq /\ "other" \in I!Vector
    BY <1>3, CurrentStatement DEF I!gen_interrupt, I!Kernel, GateInv, ProcessorOK, InService,
       I!Vector
  <2> QED
    BY <2>1, EnterKeepsGates
<1>4. ASSUME NEW v \in I!Irq, I!Take(v) PROVE GateInv'
  <2>1. /\ iflag /\ I!Enter(v) /\ UNCHANGED <<I!kernel, mask>>
        /\ pending' = pending \ {v} /\ in_service' = {v}
    BY <1>4 DEF I!Take, I!Deliverable
  <2>2. stack = <<>> /\ statement = 9 /\ pending' \subseteq I!Irq /\ v \in I!Vector
    BY <2>1 DEF GateInv, ProcessorOK, I!Vector
  <2> QED
    BY <2>1, <2>2, EnterKeepsGates
<1>5. ASSUME NEW v \in I!Irq, I!enable(v) \/ I!Raise(v) PROVE GateInv'
  <2>1. /\ UNCHANGED <<I!kernel, iflag, in_service, stack>>
        /\ mask' \subseteq mask /\ pending' \subseteq pending \cup {v}
    BY <1>5 DEF I!enable, I!Raise
  <2>2. ProcessorOK' /\ InService'
    BY <2>1 DEF GateInv, ProcessorOK, InService, I!kernel
  <2> QED
    BY <2>1, <2>2, ProgressKept DEF GateInv
<1>6. CASE UNCHANGED processor
  <2>1. UNCHANGED I!kernel
    BY <1>6 DEF processor, I!kernel
  <2>2. ProcessorOK' /\ InService'
    BY <1>6 DEF processor, GateInv, ProcessorOK, InService
  <2> QED
    BY <2>1, <2>2, ProgressKept DEF GateInv
<1> QED
  BY <1>1, <1>2, <1>3, <1>4, <1>5, <1>6 DEF I!Next

-----------------------------------------------------------------------------
(* The two parts together                                                  *)

(* A step of the whole is a step of each part, or leaves it alone.         *)
LEMMA KeyboardStepOfParts ==
  ASSUME [KeyboardNext]_<<vars, processor>>
  PROVE  [Next]_vars /\ [I!Next]_processor
<1>1. CASE RunHandler
  <2>1. [Next]_vars
    BY <1>1 DEF RunHandler, Next
  <2>2. I!Next
    BY <1>1 DEF RunHandler, I!Next, I!Wrapper
  <2> QED
    BY <2>1, <2>2
<1>2. CASE Reader
  BY <1>2 DEF Reader, Next
<1>3. CASE UNCHANGED vars /\ (I!Boot \/ I!EndOfInterrupt \/ I!Iret \/ I!gen_interrupt)
  BY <1>3 DEF I!Next, I!Wrapper
<1>4. CASE UNCHANGED vars /\ \E v \in I!Irq : I!enable(v) \/ I!Raise(v) \/ I!Take(v)
  BY <1>4 DEF I!Next
<1>5. CASE UNCHANGED <<vars, processor>>
  BY <1>5
<1> QED
  BY <1>1, <1>2, <1>3, <1>4, <1>5 DEF KeyboardNext

KeyboardInv == BufferInv /\ GateInv

(* The inductive invariant of the keyboard.                                *)
LEMMA KeyboardInvHolds == KeyboardSpec => []KeyboardInv
<1>1. KeyboardInit => KeyboardInv
  BY BufferStart, GateStart DEF KeyboardInit, KeyboardInv
<1>2. KeyboardInv /\ [KeyboardNext]_<<vars, processor>> => KeyboardInv'
  BY KeyboardStepOfParts, BufferStep, GateStep DEF KeyboardInv
<1> QED
  BY <1>1, <1>2, PTL DEF KeyboardSpec

(* Both parts keep their types: the reader's slot is one of the ring, and  *)
(* handlers do not nest (tty.c:150-153, 165-169, interrupts.c:20).         *)
THEOREM KeyboardTypes == KeyboardSpec => []TypesOK
<1>1. KeyboardInv => TypesOK
  <2> SUFFICES ASSUME KeyboardInv PROVE TypesOK
    OBVIOUS
  <2>1. TypeOK
    BY DEF KeyboardInv, BufferInv
  <2>2. \A w \in 1 .. Len(wrapper) : wrapper[w] \in {"template", "default"} \cup I!Irq
    BY DEF KeyboardInv, GateInv, ProcessorOK, Target
  <2>3. Len(stack) <= 1
    <3>1. stack # <<>> => Len(stack) = 1
      BY OneFrame DEF KeyboardInv
    <3>2. stack = <<>> => Len(stack) = 0
      OBVIOUS
    <3>3. PICK n \in {0, 1} : n = Len(stack)
      BY <3>1, <3>2
    <3> QED
      BY <3>3
  <2> QED
    BY <2>1, <2>2, <2>3 DEF TypesOK, I!TypeOK, KeyboardInv, GateInv, ProcessorOK
<1> QED
  BY <1>1, KeyboardInvHolds, PTL

(* An interrupt that can be taken finds its gate complete and leading to   *)
(* its own handler, whatever the lines did while the table was filled in   *)
(* (interrupts.c:11-41, startup.asm:89).                                   *)
THEOREM KeyboardGateIsComplete == KeyboardSpec => []GateIsComplete
<1>1. KeyboardInv => GateIsComplete
  <2> SUFFICES ASSUME KeyboardInv, NEW v \in I!Irq, I!Deliverable(v)
               PROVE  I!Reached(v) = wanted[v] /\ wanted[v] = v
    BY DEF GateIsComplete, I!GateIsComplete
  <2>1. statement = 9 /\ idtr
    BY DEF I!Deliverable, KeyboardInv, GateInv, ProcessorOK
  <2>2. Complete(v)
    BY <2>1 DEF KeyboardInv, GateInv, GatesSet, LastSet
  <2> QED
    BY <2>1, <2>2 DEF Complete, I!Reached
<1> QED
  BY <1>1, KeyboardInvHolds, PTL

(* No end of interrupt ends the service of another interrupt               *)
(* (interrupts.asm:18-20).                                                 *)
THEOREM KeyboardEndsOwnService == KeyboardSpec => []EndsOwnService
<1>1. KeyboardInv => EndsOwnService
  BY DEF KeyboardInv, GateInv, InService, EndsOwnService, I!EndsOwnService
<1> QED
  BY <1>1, KeyboardInvHolds, PTL

(* Run by way of the interrupt table, the buffer still does only what the  *)
(* queue of KeyQueue may do (tty.c:146-174, interrupts.asm:11-23).         *)
THEOREM KeyboardIsQueue == KeyboardSpec => Queue!Init /\ [][Queue!Next]_(Queue!vars)
<1>1. KeyboardInit => Queue!Init
  BY BufferStartIsQueueStart DEF KeyboardInit
<1>2. KeyboardInv /\ [KeyboardNext]_<<vars, processor>> => [Queue!Next]_(Queue!vars)
  BY KeyboardStepOfParts, BufferStepIsQueueStep DEF KeyboardInv
<1> QED
  BY <1>1, <1>2, KeyboardInvHolds, PTL DEF KeyboardSpec

=============================================================================
