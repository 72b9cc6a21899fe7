---------------------------- MODULE MCPhysMemory ----------------------------
(* Instances of PhysMemory for TLC.                                        *)
EXTENDS PhysMemory

(* One pattern an owner may leave in the header words of its page: a block *)
(* of all of RAM that links to page 0.                                     *)
MCScribble == {[next |-> 0, prev |-> 0, size |-> NPages]}

(* A spliced list has overlapping blocks; no property speaks about what    *)
(* the allocator does after that, so exploration stops there.              *)
UntilSpliced == ~spliced

=============================================================================
