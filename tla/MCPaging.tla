------------------------------ MODULE MCPaging ------------------------------
(***************************************************************************)
(* Paging on a few frames and tables of three entries.                     *)
(***************************************************************************)
EXTENDS Paging

(* The last two pages of region 1 and the first two of the kernel's.       *)
MCUsable == 4 .. 7

(* Runs start at frame 0, so a page is mapped to frame 0, or to frame 1    *)
(* when it is the second of its run.                                       *)
MCTarget == {0}

(* A frame comes back cleared, or with a word that looks like an entry.    *)
MCJunk == {[i \in Index |-> Clear], [i \in Index |-> IF i = 1 THEN Present(1) ELSE Clear]}

=============================================================================
