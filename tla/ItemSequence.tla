---------------------------- MODULE ItemSequence ----------------------------
(***************************************************************************)
(* What a user of List (kernel/include/List.hpp) may rely on: a sequence   *)
(* of values, with three reservations that are the template's own.  An     *)
(* index outside the list removes the only item if there is just one; a    *)
(* negative one removes the first; and once the last of several items has  *)
(* been removed, an insertion is lost, until the first of two is removed   *)
(* or none is left.  After a loss nothing more is promised but reading.    *)
(***************************************************************************)
EXTENDS Integers, Sequences, SequencesExt

CONSTANTS Value,      \* what an item may hold
          NoValue,    \* what get_value returns beyond the end
          MaxLength   \* bound: items in the list at once

VARIABLES items, answer,
          loose,   \* an insertion would be lost
          lost     \* one has been

vars == <<items, answer, loose, lost>>

Init == items = <<>> /\ answer = NoValue /\ loose = FALSE /\ lost = FALSE

Insert(v) ==
  /\ Len(items) < MaxLength
  /\ ~lost
  /\ IF loose
     THEN lost' = TRUE /\ loose' = FALSE /\ UNCHANGED items
     ELSE items' = Append(items, v) /\ UNCHANGED <<lost, loose>>
  /\ UNCHANGED answer

GetValue(index) ==
  /\ answer' = IF index < Len(items) THEN items[index + 1] ELSE NoValue
  /\ UNCHANGED <<items, loose, lost>>

(* The place of the item that is removed; past the end if there is none.   *)
Place(index) == IF index < 0 \/ Len(items) = 1 THEN 1 ELSE index + 1

RemoveItem(index) ==
  /\ items # <<>> /\ ~lost
  /\ UNCHANGED lost
  /\ IF Place(index) \in 1 .. Len(items)
     THEN /\ items' = RemoveAt(items, Place(index))
          /\ loose' = /\ loose \/ (Place(index) = Len(items))
                      /\ Len(items') > 1 \/ (Len(items') = 1 /\ Place(index) > 1)
          /\ answer' = TRUE
     ELSE answer' = FALSE /\ UNCHANGED <<items, loose>>

Next ==
  \/ \E v \in Value : Insert(v)
  \/ \E index \in 0 .. MaxLength : GetValue(index)
  \/ \E index \in -1 .. MaxLength : RemoveItem(index)

Spec == Init /\ [][Next]_vars

=============================================================================
