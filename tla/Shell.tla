------------------------------- MODULE Shell --------------------------------
(***************************************************************************)
(* The command shell of kernel/shell.c: pars_input splits a line that      *)
(* in_string has read, do_command picks the command, physdump and virtdump *)
(* read the address they dump from argv[0], and the loop of shell frees    *)
(* what the line needed.                                                   *)
(*                                                                         *)
(* A line or a word is a sequence of characters without the final 0.       *)
(* Positions count from 1, so the code's index i is position i + 1.  The   *)
(* hex dump that is printed is left out; kmalloc is taken to succeed.      *)
(***************************************************************************)
EXTENDS Integers, Sequences, FiniteSetsExt

CONSTANTS Lines,     \* lines the user may type
          Code,      \* the codes of the characters
          Bits,      \* bits of an address, 32 in the code
          Garbage    \* an address read from memory that is not argv's

(* 2^n.                                                                    *)
Power[n \in 0 .. Bits] == IF n = 0 THEN 1 ELSE 2 * Power[n - 1]

(* What MCShell assumes of them: lines are made of characters, a digit has *)
(* four bits, and a word that was typed never reads as garbage.            *)
LinesAreText == Code \in [DOMAIN Code -> Int] /\ Lines \subseteq Seq(DOMAIN Code)
BitsMakeDigits == Bits \in Nat \ {0} /\ Bits % 4 = 0
GarbageShows == Garbage \notin 0 .. Power[Bits] - 1

VARIABLES
  pc,         \* where the loop of shell is
  input,      \* the line
  command,
  argc, argv,
  argv_state, \* history: argv is "wild" (never set), "live" or "freed"
  did,        \* what do_command did with this line
  address,    \* the address it dumped
  spilled     \* history: pars_input stored behind the block of argv

vars == <<pc, input, command, argc, argv, argv_state, did, address, spilled>>

-----------------------------------------------------------------------------
(* pars_input                                                              *)

Space == " "

IsBlank(s, i) == i <= Len(s) /\ s[i] = Space
AtEnd(s, i) == i > Len(s)

SkipBlanks(s, i) == Min({k \in i .. Len(s) + 1 : ~IsBlank(s, k)})
SkipWord(s, i) == Min({k \in i .. Len(s) + 1 : IsBlank(s, k) \/ AtEnd(s, k)})

CommandEnd(s) == SkipWord(s, SkipBlanks(s, 1))
CommandOf(s) == SubSeq(s, SkipBlanks(s, 1), CommandEnd(s) - 1)

(* Nothing, not even a blank, follows the command.                         *)
IsBare(s) == AtEnd(s, CommandEnd(s))

(* The words from position i on.                                           *)
WordsFrom(s, i) ==
  LET words[k \in 1 .. Len(s) + 1] ==
        LET b == SkipBlanks(s, k) IN
        IF AtEnd(s, b) THEN <<>>
        ELSE <<SubSeq(s, b, SkipWord(s, b) - 1)>> \o words[SkipWord(s, b)]
  IN words[i]

(* The words are counted behind the command.  They are copied from the     *)
(* position that the command's LENGTH gives, which is its end only when no *)
(* blank comes before it.                                                  *)
Counted(s) == WordsFrom(s, CommandEnd(s))
CopyStart(s) == Len(CommandOf(s)) + 1
Copied(s) ==
  LET words == WordsFrom(s, CopyStart(s))
  IN SubSeq(words, 1, Min({Len(words), Len(Counted(s))}))

(* Characters, with their final zeros, behind the pointers of an argv.     *)
Stored(words) ==
  LET stored[n \in 0 .. Len(words)] ==
        IF n = 0 THEN 0 ELSE stored[n - 1] + Len(words[n]) + 1
  IN stored[Len(words)]

-----------------------------------------------------------------------------
(* The number in argv[0]: from the last digit, before an 'h', back to the  *)
(* first, behind a "0x", four bits per digit.  The processor takes the     *)
(* shift count modulo the word size.  A character that is no hex digit     *)
(* counts as its distance from '0'.                                        *)

Hex == <<{"0"}, {"1"}, {"2"}, {"3"}, {"4"}, {"5"}, {"6"}, {"7"}, {"8"}, {"9"},
         {"A", "a"}, {"B", "b"}, {"C", "c"}, {"D", "d"}, {"E", "e"}, {"F", "f"}>>
HexDigit == UNION {Hex[v] : v \in DOMAIN Hex}
FromZero(c) == Code[c] - 48

Digit(c) ==
  IF c \in HexDigit THEN (CHOOSE v \in DOMAIN Hex : c \in Hex[v]) - 1 ELSE FromZero(c)

(* Mutant of FirstDigit: the prefix is not skipped.                        *)
FirstCharacter(w) == 1

FirstDigit(w) == IF Len(w) > 1 /\ w[2] = "x" THEN 3 ELSE 1
LastDigit(w) == Min({k \in 1 .. Len(w) + 1 : AtEnd(w, k) \/ w[k] = "h"}) - 1
Shift(w, k) == (4 * (LastDigit(w) - k)) % Bits

HasDigits(w) == FirstDigit(w) <= LastDigit(w)

ParseAddress(w) ==
  LET sum[k \in 1 .. Len(w) + 1] ==
        IF k > LastDigit(w) THEN 0
        ELSE (sum[k + 1] + Digit(w[k]) * Power[Shift(w, k)]) % Power[Bits]
  IN sum[FirstDigit(w)]

-----------------------------------------------------------------------------

(* Mutant of Init: argc is not initialised either.                         *)
InitWildArgc ==
  /\ pc = "prompt"
  /\ input = <<>> /\ command = <<>>
  /\ argc = 1 /\ argv = <<>> /\ argv_state = "wild"
  /\ did = "nothing" /\ address = 0
  /\ spilled = FALSE

(* argv is a local that nothing initialises.                               *)
Init ==
  /\ pc = "prompt"
  /\ input = <<>> /\ command = <<>>
  /\ argc = 0 /\ argv = <<>> /\ argv_state = "wild"
  /\ did = "nothing" /\ address = 0
  /\ spilled = FALSE

ReadLine(l) ==
  /\ pc = "prompt"
  /\ input' = l
  /\ pc' = "parse"
  /\ did' = "nothing" /\ address' = 0
  /\ spilled' = FALSE
  /\ UNCHANGED <<command, argc, argv, argv_state>>

(* The early return: argc and argv stay as they are, the line is not freed.*)
ParseBare ==
  /\ pc = "parse"
  /\ IsBare(input)
  /\ command' = CommandOf(input)
  /\ pc' = "run"
  /\ UNCHANGED <<input, argc, argv, argv_state, did, address, spilled>>

ParseArgs ==
  /\ pc = "parse"
  /\ ~IsBare(input)
  /\ command' = CommandOf(input)
  /\ argc' = Len(Counted(input))
  /\ argv' = Copied(input)
  /\ argv_state' = "live"
  /\ spilled' = (Stored(Copied(input)) > Stored(Counted(input)))
  /\ pc' = "run"
  /\ UNCHANGED <<input, did, address>>

(* do_command.  The table has five entries, of which two are empty.        *)
commands == <<<<"h", "e", "l", "p">>, <<"p", "d">>, <<"v", "d">>, <<>>, <<>>>>

Says(what) ==
  /\ pc = "run"
  /\ did' = what
  /\ pc' = "release"
  /\ UNCHANGED <<input, command, argc, argv, argv_state, address, spilled>>

Help == command = commands[1] /\ Says("help")
Invalid == command \notin {commands[i] : i \in 1 .. 3} /\ Says("invalid")
TakesOneValue == argc = 1
Complains == ~TakesOneValue /\ Says("complain")

(* What a stale argv leads to is anybody's guess, and so is a word that    *)
(* has no digits, which is read backwards past its beginning.              *)
Dumps ==
  /\ pc = "run"
  /\ TakesOneValue
  /\ address' = IF argv_state = "live" /\ HasDigits(argv[1])
                THEN ParseAddress(argv[1]) ELSE Garbage
  /\ did' = "dump"
  /\ pc' = "release"
  /\ UNCHANGED <<input, command, argc, argv, argv_state, spilled>>

(* The two differ in how they reach the memory: physdump through the       *)
(* TEMP_PAGE window, which it puts back.                                   *)
physdump == command = commands[2] /\ (Complains \/ Dumps)
virtdump == command = commands[3] /\ (Complains \/ Dumps)

(* kfree(command) and kfree(argv).                                         *)
Release ==
  /\ pc = "release"
  /\ argv_state' = IF argv_state = "live" THEN "freed" ELSE argv_state
  /\ pc' = "prompt"
  /\ UNCHANGED <<input, command, argc, argv, did, address, spilled>>

do_command == Help \/ physdump \/ virtdump \/ Invalid

Next ==
  \/ \E l \in Lines : ReadLine(l)
  \/ ParseBare \/ ParseArgs
  \/ do_command
  \/ Release

Spec == Init /\ [][Next]_vars

-----------------------------------------------------------------------------
(* Properties                                                              *)

Word == Seq(DOMAIN Code)

(* Every variable has its type, and pars_input fills as many entries of    *)
(* argv as argc says (shell.c:217-229).                                    *)
TypeOK ==
  /\ pc \in {"prompt", "parse", "run", "release"}
  /\ input \in Lines \cup {<<>>}
  /\ command \in Word
  /\ argc \in Nat
  /\ argv \in Seq(Word)
  /\ argc <= Len(argv)
  /\ argv_state \in {"wild", "live", "freed"}
  /\ did \in {"nothing", "help", "invalid", "complain", "dump"}
  /\ address \in (0 .. Power[Bits] - 1) \cup {Garbage}
  /\ spilled \in BOOLEAN

(* The words of a line, as a user sees them: the maximal runs of           *)
(* characters that are not blank.                                          *)
Words(s) ==
  LET starts == {i \in DOMAIN s : s[i] # Space /\ (i = 1 \/ s[i - 1] = Space)}
      nth(n) == CHOOSE i \in starts : Cardinality({k \in starts : k < i}) = n - 1
      end(i) == Max({k \in i .. Len(s) : \A m \in i .. k : s[m] # Space})
  IN [n \in 1 .. Cardinality(starts) |-> SubSeq(s, nth(n), end(nth(n)))]

(* A word of hex digits, with or without a "0x" before or an "h" behind    *)
(* them, and the number a user means by it.                                *)
HexFirst(w) == IF Len(w) > 2 /\ w[1] = "0" /\ w[2] = "x" THEN 3 ELSE 1
HexLast(w) == IF w[Len(w)] = "h" THEN Len(w) - 1 ELSE Len(w)

IsHex(w) ==
  HexFirst(w) <= HexLast(w) /\ \A k \in HexFirst(w) .. HexLast(w) : w[k] \in HexDigit

HexValue(w) ==
  LET number[k \in 0 .. Len(w)] ==
        IF k < HexFirst(w) THEN 0 ELSE 16 * number[k - 1] + Digit(w[k])
  IN number[HexLast(w)]

Plain(s) == ~IsBlank(s, 1)

(* Types hold and, for a line that begins with its command and has         *)
(* something behind it, do_command gets the words that were typed, the     *)
(* block of argv takes them in, and a dump starts at the number that was   *)
(* typed (shell.c:24-64, 104-144 and 195-231).                             *)
RunsWhatWasTyped ==
  /\ TypeOK
  /\ pc = "release" /\ Plain(input) /\ ~IsBare(input) =>
       /\ <<command>> \o argv = Words(input)
       /\ argc = Len(Words(input)) - 1
       /\ ~spilled
       /\ did = "dump" /\ IsHex(argv[1]) /\ HexValue(argv[1]) < Power[Bits] =>
            address = HexValue(argv[1])

(* However lines follow each other, argv is read only when some line has   *)
(* set it, and from freed memory only for a line without arguments         *)
(* (shell.c:204 and 249-250).                                              *)
StaleOnlyWhenBare ==
  did = "dump" =>
    /\ argv_state # "wild"
    /\ pc = "release" /\ argv_state = "freed" => Len(Words(input)) = 1

(* "physdump takes one value" (shell.c:18), and so does virtdump: a line   *)
(* is dumped only if it has one word behind the command.                   *)
DumpTakesOneValue == did = "dump" => Len(Words(input)) = 2

(* The second loop of pars_input fills what the first one measured:        *)
(* "Counting argc and total memory size" (shell.c:206).                    *)
FillsWhatItCounted == ~spilled

=============================================================================
