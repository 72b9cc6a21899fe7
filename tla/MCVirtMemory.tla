---------------------------- MODULE MCVirtMemory ----------------------------
(***************************************************************************)
(* VirtMemory on eighteen pages, of which the upper ten are the kernel's.  *)
(***************************************************************************)
EXTENDS VirtMemory

(* The kernel's space ends where the sums wrap; the user's lies below it.  *)
MCSpaces == {[start |-> 8, end |-> 17], [start |-> 2, end |-> 7]}

(* Frames are interchangeable.                                             *)
FrameSymmetry == Permutations(Frames)

=============================================================================
