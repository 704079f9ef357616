------------------------------ MODULE Teletype ------------------------------
(***************************************************************************)
(* What the console promises: a printer with one roll of paper.            *)
(*                                                                         *)
(* What is typed stays where it was typed until it is overtyped or the     *)
(* paper is torn off; a line feed at the end of the paper pulls out one    *)
(* blank line.  The carriage only reaches the last Height lines.  There is *)
(* no screen here, and no scrolling.                                       *)
(***************************************************************************)
EXTENDS Integers, Sequences

CONSTANTS Width, Height, TabStop, Glyphs, Colors, FirstColor

VARIABLES
  paper,   (* the lines, the oldest first                                  *)
  line,    (* the position in paper of the line the carriage is on         *)
  column,  (* the carriage, 0 .. Width - 1                                 *)
  ink      (* the color of what is typed next                              *)

pvars == <<paper, line, column, ink>>

Blank == [x \in 0 .. Width - 1 |-> <<" ", ink>>]

(* To the start of the next line, on a paper p.                            *)
Feed(p) ==
  /\ line' = line + 1 /\ column' = 0
  /\ paper' = IF line = Len(p) THEN Append(p, Blank) ELSE p
  /\ ink' = ink

Move(to) == column' = to /\ UNCHANGED <<paper, line, ink>>

PInit ==
  /\ ink = FirstColor
  /\ paper = [n \in 1 .. Height |-> Blank]
  /\ line = 1 /\ column = 0

Type(g) ==
  LET typed == [paper EXCEPT ![line][column] = <<g, ink>>]
  IN  \/ column = Width - 1 /\ Feed(typed)
      \/ column < Width - 1 /\ paper' = typed /\ column' = column + 1 /\ UNCHANGED <<line, ink>>

NewLine == Feed(paper)

Return == Move(0)

Tab ==
  LET stop == (column \div TabStop + 1) * TabStop
  IN  IF stop < Width THEN Move(stop) ELSE Feed(paper)

BackSpace ==
  /\ column > 0
  /\ column' = column - 1
  /\ paper' = [paper EXCEPT ![line][column - 1] = <<" ", ink>>]
  /\ UNCHANGED <<line, ink>>

Tear ==
  /\ paper' = [n \in 1 .. Height |-> Blank]
  /\ line' = 1 /\ column' = 0 /\ ink' = ink

Ink(c) == ink' = c /\ UNCHANGED <<paper, line, column>>

Place ==
  /\ line' \in Len(paper) - Height + 1 .. Len(paper)
  /\ column' \in 0 .. Width - 1
  /\ UNCHANGED <<paper, ink>>

PNext ==
  \/ \E g \in Glyphs \cup {" "} : Type(g)
  \/ NewLine \/ Return \/ Tab \/ BackSpace \/ Tear \/ Place
  \/ \E c \in Colors : Ink(c)

PSpec == PInit /\ [][PNext]_pvars
=============================================================================
