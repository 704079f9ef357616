------------------------------ MODULE MCPrompt ------------------------------
(* What a user types at the prompt, in three parts that share nothing, so  *)
(* that each behavior goes through one of them: paths (PathLaws), lines    *)
(* (CommandLine), and keys (Terminal).                                     *)
(*                                                                         *)
(* Paths: two names, up to five pieces (so "..", "." and empty pieces in   *)
(* every position around two names) typed in directories up to two deep,   *)
(* and a limit of three components.                                        *)
(*                                                                         *)
(* Lines: a history of three lines that goes round more than twice; every  *)
(* line of up to nine blanks and letters; echo with a word that the buffer *)
(* of printf cannot hold and words with '%'; calc with the boundary        *)
(* numbers of a six-bit int, in several spellings, and every number of it  *)
(* alone.                                                                  *)
(*                                                                         *)
(* Keys: two rows of three cells; a buffer of four bytes after prompts of  *)
(* none and one character, so that the line stays in its row, just fills   *)
(* it, and wraps, in the last row too; a ring of two; two scancodes in the *)
(* controller, from keys that print, erase, end the line or do neither.    *)
EXTENDS PathLaws, CommandLine, Terminal

MCHome == <<"a", "b">>

Strings(S, n) == UNION { [1 .. k -> S] : k \in 1 .. n }
Gap == <<" ">>
Shorts  == { <<"-", "3", "2">>, <<"-", "3", "1">>, <<"-", "7">>, <<"-", "1">>, <<"0">>,
             <<"0", "1">>, <<"2">>, <<"+", "7">>, <<"3", "1">>, <<"x">>, <<"3", "2">> }
Ops     == { <<"+">>, <<"-">>, <<"*">>, <<"/">>, <<"+", "/">>, <<"^">> }
Decimal(n) == (IF n < 0 THEN <<"-">> ELSE <<>>)
                \o <<Figures[(Magnitude(n) \div 10) + 1], Figures[(Magnitude(n) % 10) + 1]>>
Calcs == { <<"calc">> \o Gap \o a \o Gap \o op \o Gap \o b : a \in Shorts, op \in Ops, b \in Shorts }
Echos == { <<"echo">> \o Gap \o w : w \in Strings({"a", " ", "%"}, 5) }
           \cup { <<"echo">> \o Gap \o [i \in 1 .. Limit + 2 |-> "a"] \o Gap \o <<"a">> }
OnceLines == Calcs \cup Echos \cup { <<"calc">> \o Gap \o Decimal(n) : n \in -32 .. 31 }
               \cup Strings({"a", " "}, 9) \cup Strings({"a", " ", "HT", "NL"}, 5)
MCSessions == [once    |-> [most |-> 1, lines |-> OnceLines],
               history |-> [most |-> 7, lines |-> { <<"history">>, <<"a">>, <<" ", "HT">> }],
               paths   |-> [most |-> 0, lines |-> {}],
               keys    |-> [most |-> 0, lines |-> {}]]

(* In the parts without lines the session is of somebody who enters none.  *)
Pathing == session = "paths"
Keying  == session = "keys"

NoPaths == path = <<"">> /\ cwd = RootDir /\ place = <<>>

MInit ==
  \/ Pathing /\ Init /\ Booted /\ TInit
  \/ session \in {"once", "history"} /\ LInit /\ NoPaths /\ TInit
  \/ Keying /\ TInit /\ NoPaths /\ Booted

MNext ==
  \/ Pathing /\ Next /\ UNCHANGED <<lvars, tvars>>
  \/ ~Pathing /\ ~Keying /\ LNext /\ UNCHANGED <<vars, tvars>>
  \/ Keying /\ TNext /\ UNCHANGED <<vars, lvars>>

MSpec == MInit /\ [][MNext]_<<vars, lvars, tvars>> /\ WF_tvars(GetLine)
=============================================================================
