------------------------------ MODULE Strings ------------------------------
(***************************************************************************)
(* The string functions of kernel/stdlib.c, in memory full of strings.     *)
(*                                                                         *)
(* A string is the address of a run of characters that a 0 ends; strings   *)
(* and destinations may overlap.  char is signed.  A call is made with     *)
(* strings that end in memory and a destination with room for all of the   *)
(* source.  memcpy copies as if in one piece (StdLib).                     *)
(***************************************************************************)
EXTENDS Integers, Sequences, FiniteSetsExt

CONSTANTS Last,      \* the last address of memory
          Byte,      \* the values of a char, 0 among them
          MaxWord    \* the largest size_t

Address == 0 .. Last
NULL == -1

VARIABLE mem

Init == mem \in [Address -> Byte]

-----------------------------------------------------------------------------
(* Searching and comparing, in memory m.  The loops stop at the first      *)
(* place that meets a condition; Hits are the places that do.              *)

memchr(m, a, value, count) ==
  LET Hits == {k \in a .. Last : k - a < count /\ m[k] = value}
  IN IF Hits = {} THEN NULL ELSE Min(Hits)

strlen(m, a) == memchr(m, a, 0, MaxWord) - a

String(m) == {a \in Address : \E k \in a .. Last : m[k] = 0}

strchr(m, a, value) ==
  IF value = 0 THEN a + strlen(m, a) ELSE memchr(m, a, value, strlen(m, a))

memcmp(m, a, b, count) ==
  LET Hits == {k \in 0 .. count - 1 : m[a + k] # m[b + k]}
  IN IF Hits = {} THEN 0 ELSE IF m[a + Min(Hits)] > m[b + Min(Hits)] THEN 1 ELSE -1

(* Mutant of Ended: a string that ends first counts as equal.              *)
EndedEqual(x, y) == 0

(* The answer when one string has ended: the shorter one is the greater.   *)
Ended(x, y) == IF x = 0 /\ y # 0 THEN 1 ELSE IF x # 0 /\ y = 0 THEN -1 ELSE 0

strcmp(m, a, b) ==
  LET Hits == {k \in 0 .. Last - Max({a, b}) :
                 m[a + k] = 0 \/ m[b + k] = 0 \/ m[a + k] # m[b + k]}
      x == m[a + Min(Hits)]
      y == m[b + Min(Hits)]
  IN IF x = 0 \/ y = 0 THEN Ended(x, y) ELSE IF x > y THEN 1 ELSE -1

-----------------------------------------------------------------------------
(* Copying                                                                 *)

Copied(dest, src, count) ==
  [k \in Address |->
     IF k \in dest .. dest + count - 1 THEN mem[k - dest + src] ELSE mem[k]]

Whole(src) == strlen(mem, src) + 1

strcpy(dest, src) ==
  /\ dest + strlen(mem, src) \in Address
  /\ mem' = Copied(dest, src, Whole(src))

(* Mutant of Room: no place is kept for the final 0.                       *)
RoomForAll(max_count) == max_count

(* max_count - 1, as an unsigned number.                                   *)
Room(max_count) == (max_count - 1) % (MaxWord + 1)

(* The loop that stores the final 0 measures src once more, after the      *)
(* copy, and does not run if src is longer than what was copied.           *)
strncpy(dest, src, max_count) ==
  LET len == Min({Room(max_count), strlen(mem, src)})
      copy == Copied(dest, src, len)
  IN /\ dest + strlen(mem, src) \in Address
     /\ src \in String(copy)
     /\ mem' = IF strlen(copy, src) < len + 1 THEN [copy EXCEPT ![dest + len] = 0] ELSE copy

Next ==
  \/ \E dest \in Address, src \in String(mem) : strcpy(dest, src)
  \/ \E dest \in Address, src \in String(mem), max_count \in 0 .. Last + 1 :
       strncpy(dest, src, max_count)

Spec == Init /\ [][Next]_mem

-----------------------------------------------------------------------------
(* Properties                                                              *)

(* The characters of a string, without the 0.                              *)
Text(m, a) == SubSeq([k \in 1 .. Last + 1 |-> m[k - 1]], a + 1, a + strlen(m, a))

(* strcmp is a total order of the texts, and 0 means that they are the     *)
(* same, as the shell takes it (shell.c:175); memcmp over the whole of a   *)
(* string agrees that they are.  strchr finds the first occurrence of a    *)
(* character, the end of the string for 0, and nothing behind the string   *)
(* (stdlib.c:47-69, 83-99).                                                *)
ReadsStrings ==
  \A a \in String(mem) :
    /\ \A b \in String(mem) :
         LET ab == strcmp(mem, a, b) IN
         /\ ab = 0 <=> Text(mem, a) = Text(mem, b)
         /\ strcmp(mem, b, a) = -ab
         /\ \A c \in String(mem) :
              ab >= 0 /\ strcmp(mem, b, c) >= 0 => strcmp(mem, a, c) >= 0
         /\ strlen(mem, a) <= Last - b =>
              (memcmp(mem, a, b, strlen(mem, a) + 1) = 0 <=> ab = 0)
    /\ \A v \in Byte :
         LET found == strchr(mem, a, v)
             end == a + strlen(mem, a) IN
         IF v \in {mem[k] : k \in a .. end}
         THEN found \in a .. end /\ mem[found] = v /\ \A k \in a .. found - 1 : mem[k] # v
         ELSE found = NULL

(* Nothing changes outside of count characters from dest on.               *)
Within(dest, count) ==
  \A k \in Address : mem'[k] # mem[k] => k \in dest .. dest + count - 1

(* dest is the string that src was.                                        *)
Arrives(dest, src) == dest \in String(mem') /\ Text(mem', dest) = Text(mem, src)

(* Behind what it stores nothing changes, and the destination becomes the  *)
(* string the source was: by strcpy also when the two overlap, by strncpy  *)
(* when they are apart and the source fits.  strncpy stores at most        *)
(* max_count characters, the final 0 included, for every max_count but 0,  *)
(* where its unsigned bound wraps (stdlib.c:71-81).                        *)
CopyStep ==
  \A dest \in Address, src \in String(mem) :
    LET len == strlen(mem, src) IN
    /\ strcpy(dest, src) => Within(dest, len + 1) /\ Arrives(dest, src)
    /\ \A max_count \in 1 .. Last + 1 : strncpy(dest, src, max_count) =>
         /\ Within(dest, max_count)
         /\ len < max_count /\ (dest > src + len \/ src > dest + len) =>
              Arrives(dest, src)

(* Every copy keeps to that (stdlib.c:71-81).                              *)
CopiesStrings == [][CopyStep]_mem

=============================================================================
