------------------------------- MODULE StdLib -------------------------------
(***************************************************************************)
(* memcpy of kernel/stdlib.c, one action per word or byte it stores.       *)
(*                                                                         *)
(* The kernel uses it to move table entries over themselves (add_virt_     *)
(* block, kmalloc, kfree, the scrolling of the screen), so what matters is *)
(* what it does when the two areas overlap.  A word is four bytes, and     *)
(* accesses need not be aligned.  No area wraps around the end of memory.  *)
(***************************************************************************)
EXTENDS Integers

CONSTANTS Last,      \* the last address of memory
          Contents   \* what memory may hold when memcpy is called

Address == 0 .. Last
Byte == Address     \* what a byte holds: where it came from
WordSize == 4

ASSUME LastAssumption == Last \in Nat
ASSUME ContentsAssumption == Contents \subseteq [Address -> Byte]

VARIABLES mem,
          old,               \* history: memory before the call
          dest, src, count,  \* the arguments
          pc, i              \* the loop that runs, and its index

vars == <<mem, old, dest, src, count, pc, i>>

(* The number of whole words.                                              *)
n == count \div WordSize

(* Mutant of Backwards: always copy upwards.                               *)
NeverBackwards == FALSE

Backwards == ~(dest < src)

Init ==
  /\ mem \in Contents
  /\ old = mem
  /\ dest \in Address /\ src \in Address /\ count \in 0 .. Last + 1
  /\ dest + count <= Last + 1 /\ src + count <= Last + 1
  /\ IF Backwards THEN pc = "bytes down" /\ i = count ELSE pc = "words up" /\ i = 0

(* size bytes at offset k are loaded from src and stored to dest.          *)
Move(k, size) ==
  mem' = [a \in Address |-> IF a \in dest + k .. dest + k + size - 1
                            THEN mem[a - dest + src] ELSE mem[a]]

Goto(loop, index) == pc' = loop /\ i' = index

WordUp ==
  /\ pc = "words up" /\ i < n
  /\ Move(i * WordSize, WordSize)
  /\ Goto(pc, i + 1)
  /\ UNCHANGED <<old, dest, src, count>>

WordsUpEnd ==
  /\ pc = "words up" /\ i >= n
  /\ Goto("bytes up", n * WordSize)
  /\ UNCHANGED <<mem, old, dest, src, count>>

ByteUp ==
  /\ pc = "bytes up" /\ i < count
  /\ Move(i, 1)
  /\ Goto(pc, i + 1)
  /\ UNCHANGED <<old, dest, src, count>>

BytesLeft == i > n * WordSize

ByteDown ==
  /\ pc = "bytes down" /\ BytesLeft
  /\ Move(i - 1, 1)
  /\ Goto(pc, i - 1)
  /\ UNCHANGED <<old, dest, src, count>>

BytesDownEnd ==
  /\ pc = "bytes down" /\ ~BytesLeft
  /\ Goto("words down", n)
  /\ UNCHANGED <<mem, old, dest, src, count>>

WordDown ==
  /\ pc = "words down" /\ i > 0
  /\ Move((i - 1) * WordSize, WordSize)
  /\ Goto(pc, i - 1)
  /\ UNCHANGED <<old, dest, src, count>>

Return ==
  /\ \/ pc = "bytes up" /\ i >= count
     \/ pc = "words down" /\ i = 0
  /\ Goto("done", 0)
  /\ UNCHANGED <<mem, old, dest, src, count>>

Next ==
  WordUp \/ WordsUpEnd \/ ByteUp \/ ByteDown \/ BytesDownEnd \/ WordDown \/ Return

Spec == Init /\ [][Next]_vars

-----------------------------------------------------------------------------
(* Properties                                                              *)

(* Memory with the source area copied to the destination in one piece.     *)
Copied(m) ==
  [a \in Address |-> IF a \in dest .. dest + count - 1 THEN m[a - dest + src] ELSE m[a]]

(* When memcpy returns, the destination holds what the source held when it *)
(* was called, and nothing else has changed, however the areas overlap and *)
(* whatever the count is modulo the word size (stdlib.c:19-45).            *)
CopiesAsOnePiece == pc = "done" => mem = Copied(old)

(* No byte is overwritten before it has been read: what is left to copy is *)
(* still there (stdlib.c:23-43).                                           *)
Done ==
  CASE pc = "words up" -> 0 .. i * WordSize - 1
    [] pc = "bytes up" -> 0 .. i - 1
    [] pc = "bytes down" -> i .. count - 1
    [] pc = "words down" -> i * WordSize .. count - 1
    [] OTHER -> 0 .. count - 1

RestUntouched ==
  \A k \in (0 .. count - 1) \ Done : mem[src + k] = old[src + k]

-----------------------------------------------------------------------------
(* The types of memcpy's variables, and that its areas lie in memory.      *)
TypeOK ==
  /\ mem \in [Address -> Byte] /\ old \in [Address -> Byte]
  /\ dest \in Nat /\ src \in Nat /\ count \in Nat
  /\ dest + count <= Last + 1 /\ src + count <= Last + 1
  /\ pc \in {"words up", "bytes up", "bytes down", "words down", "done"}
  /\ i \in Nat

(* Each loop runs away from the overlap, and its index within the count.   *)
InBounds ==
  /\ pc = "words up" => dest < src /\ i <= n
  /\ pc = "bytes up" => dest < src /\ n * WordSize <= i /\ i <= count
  /\ pc = "bytes down" => src <= dest /\ n * WordSize <= i /\ i <= count
  /\ pc = "words down" => src <= dest /\ i <= n

(* The inductive invariant: exactly the bytes done so far are copied, and  *)
(* all others are as they were when memcpy was called (stdlib.c:23-43).    *)
IInv ==
  /\ TypeOK
  /\ InBounds
  /\ \A a \in Address : mem[a] = IF a - dest \in Done THEN old[a - dest + src] ELSE old[a]

=============================================================================
