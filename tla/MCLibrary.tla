----------------------------- MODULE MCLibrary -----------------------------
(* The values Library is checked with.                                     *)
EXTENDS Library

(* Two characters, one of them negative.                                   *)
MCChar == {-1, 0, 1}

(* For memcpy all bytes differ: what it does with a byte does not depend   *)
(* on its value.                                                           *)
MCContents == {[a \in Address |-> a]}

=============================================================================
