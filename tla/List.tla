-------------------------------- MODULE List --------------------------------
(***************************************************************************)
(* The linked list template of kernel/include/List.hpp, over a heap of     *)
(* items.  A call runs to its end before the next one begins.  kmalloc     *)
(* hands out any item that is not in use, possibly one just freed, and     *)
(* succeeds; what a freed item holds stays until it is handed out again.   *)
(***************************************************************************)
EXTENDS Integers, Sequences, FiniteSets

CONSTANTS Item,       \* the addresses of items
          NULL,
          Value,      \* what an item may hold
          NoValue     \* what get_value returns beyond the end

MaxLength == Cardinality(Item)

VARIABLES
  value, next,          \* the items' fields
  head, tail, length,   \* the list's
  answer,               \* what the last get_value or remove returned
  live,                 \* history: the items that are not free
  lost                  \* history: an item was linked behind a freed one

vars == <<value, next, head, tail, length, answer, live, lost>>

Init ==
  /\ value = [x \in Item |-> NoValue]
  /\ next = [x \in Item |-> NULL]
  /\ head = NULL /\ tail = NULL /\ length = 0
  /\ answer = NoValue
  /\ live = {} /\ lost = FALSE

(* The item that k links lead to from the head (foreach, and the walk of   *)
(* remove).                                                                *)
At[k \in 0 .. MaxLength] ==
  IF k = 0 THEN head ELSE IF At[k - 1] = NULL THEN NULL ELSE next[At[k - 1]]

Reached == {k \in 0 .. MaxLength : At[k] # NULL}

-----------------------------------------------------------------------------
(* insert and append                                                       *)

Linked(item, n) ==
  IF length = 0
  THEN head' = item /\ tail' = item /\ next' = n
  ELSE next' = [n EXCEPT ![tail] = item] /\ tail' = item /\ UNCHANGED head

(* The list goes on behind an item that has been freed.                    *)
TailFreed == length > 0 /\ tail \notin live

insert(v) ==
  /\ ~lost
  /\ lost' = TailFreed
  /\ \E item \in Item \ live :
       /\ value' = [value EXCEPT ![item] = v]
       /\ Linked(item, [next EXCEPT ![item] = NULL])
       /\ live' = live \cup {item}
  /\ length' = length + 1
  /\ UNCHANGED answer

get_value(index) ==
  /\ answer' = IF index \in Reached THEN value[At[index]] ELSE NoValue
  /\ UNCHANGED <<value, next, head, tail, length, live, lost>>

-----------------------------------------------------------------------------
(* remove.  The walk stops at the index or on the last item.               *)

Stop(index) ==
  IF index <= 0 THEN 0
  ELSE CHOOSE k \in Reached : k <= index /\ (k = index \/ k + 1 \notin Reached)

Freed(item) ==
  /\ live' = live \ {item}
  /\ length' = length - 1
  /\ answer' = TRUE
  /\ UNCHANGED <<value, lost>>

(* Mutant of TailAfter: the tail is left on the item before.               *)
TailStays == tail

TailAfter == IF length = 2 THEN head' ELSE tail

RemoveFirst(index) ==
  /\ head # NULL /\ ~lost
  /\ Stop(index) = 0
  /\ head' = next[head]
  /\ tail' = TailAfter
  /\ Freed(head)
  /\ UNCHANGED next

(* The index of the last item is length - 1, so this is never taken.       *)
StopsBehind(index) == Stop(index) = length

(* The tail stays, also when the item that goes is the last one.           *)
RemoveLater(index) ==
  /\ head # NULL /\ ~lost
  /\ Stop(index) = index /\ index > 0 /\ ~StopsBehind(index)
  /\ next' = [next EXCEPT ![At[index - 1]] = next[At[index]]]
  /\ Freed(At[index])
  /\ UNCHANGED <<head, tail>>

RemoveNone(index) ==
  /\ head # NULL /\ ~lost
  /\ Stop(index) > 0 /\ Stop(index) < index /\ ~StopsBehind(index)
  /\ answer' = FALSE
  /\ UNCHANGED <<value, next, head, tail, length, live, lost>>

remove(index) == RemoveFirst(index) \/ RemoveLater(index) \/ RemoveNone(index)

Next ==
  \/ \E v \in Value : insert(v)
  \/ \E index \in 0 .. MaxLength : get_value(index)
  \/ \E index \in -1 .. MaxLength : remove(index)

Spec == Init /\ [][Next]_vars

-----------------------------------------------------------------------------
(* Properties                                                              *)

(* The list implements the sequence of ItemSequence (List.hpp:35-112).     *)
Sequence ==
  INSTANCE ItemSequence WITH
    items <- [k \in 1 .. Cardinality(Reached) |-> value[At[k - 1]]], loose <- TailFreed

IsSequence == Sequence!Spec

=============================================================================
