------------------------------ MODULE MCShell -------------------------------
(***************************************************************************)
(* The shell, as TLC runs it and as ConsoleProofs reasons about it.        *)
(***************************************************************************)
EXTENDS Integers, Sequences

CONSTANTS Lines, Code, Bits, Garbage

VARIABLES pc, input, command, argc, argv, argv_state, did, address, spilled

Sh == INSTANCE Shell

ASSUME LinesAssumption == Sh!LinesAreText
ASSUME BitsAssumption == Sh!BitsMakeDigits
ASSUME GarbageAssumption == Sh!GarbageShows

ShellSpec == Sh!Spec

(* As in Shell: a line that begins with its command and has something      *)
(* behind it runs with the words and the number that were typed            *)
(* (shell.c:24-64, 104-144 and 195-231).                                   *)
RunsWhatWasTyped == Sh!RunsWhatWasTyped

(* As in Shell: argv is read only when some line has set it, and from      *)
(* freed memory only for a line without arguments (shell.c:204, 249-250).  *)
StaleOnlyWhenBare == Sh!StaleOnlyWhenBare

(* As in Shell: "physdump takes one value" (shell.c:18).                   *)
DumpTakesOneValue == Sh!DumpTakesOneValue

(* As in Shell: argv's block takes what is stored in it (shell.c:206).     *)
FillsWhatItCounted == Sh!FillsWhatItCounted

-----------------------------------------------------------------------------
(* Lines for TLC: at most one blank before the command and one at the end, *)
(* a command of the table or none, and up to two arguments.                *)

MCCommand == {<<"h", "e", "l", "p">>, <<"p", "d">>, <<"v", "d">>, <<"p">>, <<>>}
MCWord == {<<"1">>, <<"0", "x", "A">>, <<"2", "F", "h">>, <<"1", "0", "2">>, <<"h">>}
MCBlank == {<<>>, <<" ">>}

MCArgs == {<<>>} \cup {<<" ">> \o w : w \in MCWord}
            \cup {<<" ">> \o v \o <<" ", " ">> \o w : v, w \in MCWord}

MCLines == {b \o c \o a \o e : b, e \in MCBlank, c \in MCCommand, a \in MCArgs}

(* The codes of the characters in them.                                    *)
MCCode ==
  [c \in {" ", "0", "1", "2", "A", "F", "d", "e", "h", "l", "p", "v", "x"} |->
     CASE c = " " -> 32 [] c = "0" -> 48 [] c = "1" -> 49 [] c = "2" -> 50
       [] c = "A" -> 65 [] c = "F" -> 70 [] c = "d" -> 100 [] c = "e" -> 101
       [] c = "h" -> 104 [] c = "l" -> 108 [] c = "p" -> 112 [] c = "v" -> 118
       [] c = "x" -> 120]

=============================================================================
