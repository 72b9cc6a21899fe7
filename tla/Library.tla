------------------------------ MODULE Library -------------------------------
(***************************************************************************)
(* The kernel's library: memcpy (StdLib), the string functions (Strings)   *)
(* and the list template (List).  They share no state, so a behaviour is   *)
(* one of one of them.                                                     *)
(***************************************************************************)
EXTENDS StdLib, FiniteSets

CONSTANTS LastChar, Char, MaxWord,       \* of Strings
          Item, NoItem, Value, NoValue   \* of List

(* A char is a signed number.  size_t counts all of memory.                *)
ASSUME CharAssumption == {0, 1} \subseteq Char /\ Char \subseteq Int
ASSUME SizeAssumption == LastChar \in Nat /\ MaxWord \in Nat /\ LastChar < MaxWord

(* The heap is finite, and no item lies at NULL.                           *)
ASSUME ItemAssumption == IsFiniteSet(Item) /\ NoItem \notin Item

VARIABLES part, text,
          value, next, head, tail, length, answer, live, lost

list == <<value, next, head, tail, length, answer, live, lost>>

S == INSTANCE Strings WITH Last <- LastChar, Byte <- Char, mem <- text
L == INSTANCE List WITH NULL <- NoItem

(* Memory without a string.                                                *)
NoText == [a \in S!Address |-> 1]

LibraryInit ==
  \/ part = "memcpy" /\ Init /\ L!Init /\ text = NoText
  \/ /\ part \in {"strings", "list"}
     /\ mem \in Contents /\ old = mem /\ dest = 0 /\ src = 0 /\ count = 0 /\ i = 0
     /\ pc = "done" /\ L!Init
     /\ IF part = "strings" THEN S!Init ELSE text = NoText

LibraryNext ==
  /\ UNCHANGED part
  /\ \/ part = "memcpy" /\ Next /\ UNCHANGED <<text, list>>
     \/ part = "strings" /\ S!Next /\ UNCHANGED <<vars, list>>
     \/ part = "list" /\ L!Next /\ UNCHANGED <<vars, text>>

LibrarySpec == LibraryInit /\ [][LibraryNext]_<<part, vars, text, list>>

-----------------------------------------------------------------------------
(* Properties                                                              *)

(* As in Strings: strcmp is a total order that tells strings apart, memcmp *)
(* agrees with it, and strchr finds the first occurrence of a character    *)
(* (stdlib.c:47-69, 83-99).                                                *)
ReadsStrings == S!ReadsStrings

(* As in Strings: strcpy and strncpy make the destination the string the   *)
(* source was and keep to their bounds (stdlib.c:71-81).                   *)
CopiesStrings == S!CopiesStrings

(* As in List: the list implements the sequence of ItemSequence            *)
(* (List.hpp:35-112).                                                      *)
IsSequence == L!IsSequence

=============================================================================
