------------------------------- MODULE Console -------------------------------
(***************************************************************************)
(* The VGA text console of kernel/console.c (the kernel-mode half).        *)
(*                                                                         *)
(* scr is the state of the console: console_row, console_column,           *)
(* console_color and the cells of console_buffer, by row and column.  The  *)
(* operators are functions of it, so that a caller that prints several     *)
(* characters in one go composes them.  scr.above is not in the code: the  *)
(* lines that have scrolled off since the last clear, kept to say what     *)
(* scrolling must do (Teletype).                                           *)
(***************************************************************************)
EXTENDS Integers, Sequences, FiniteSets

CONSTANTS
  Width,       (* VGA_WIDTH                                                *)
  Height,      (* VGA_HEIGHT                                               *)
  TabStop,     (* 4: tab stops are at its multiples                        *)
  Glyphs,      (* the characters that are printed, the space aside         *)
  Colors,      (* the colors a caller sets                                 *)
  FirstColor,  (* light grey on black, from console_init                   *)
  MaxAbove,    (* bound: the lines that may scroll off before a clear      *)
  MaxInked     (* bound: the cells that are not blank, above included      *)

ASSUME ConsoleAssumption ==
  /\ Width \in Nat \ {0} /\ Height \in Nat \ {0} /\ TabStop \in Nat \ {0}
  /\ FirstColor \in Colors
  /\ MaxAbove \in Nat /\ MaxInked \in Nat
  /\ Glyphs \cap {" ", "NL", "CR", "HT", "BS"} = {}

VARIABLE scr

Rows    == 0 .. Height - 1
Columns == 0 .. Width - 1
Chars   == Glyphs \cup {" ", "NL", "CR", "HT", "BS"}

Entry(c, color)  == <<c, color>>
BlankLine(color) == [x \in Columns |-> Entry(" ", color)]

-----------------------------------------------------------------------------
Scroll_KeepsLast(s) ==
  [s EXCEPT !.cells = [y \in Rows |-> IF y < Height - 1 THEN s.cells[y + 1] ELSE s.cells[y]],
            !.above = Append(@, s.cells[0])]

(* console_scroll: every line one up, and a blank one at the bottom.       *)
Scroll(s) ==
  [s EXCEPT !.cells = [y \in Rows |-> IF y < Height - 1 THEN s.cells[y + 1]
                                      ELSE BlankLine(s.color)],
            !.above = Append(@, s.cells[0])]

NextLine_Late(s) ==
  IF s.row = Height
  THEN [Scroll(s) EXCEPT !.column = 0, !.row = Height - 1]
  ELSE [s EXCEPT !.column = 0, !.row = s.row + 1]

(* What '\n', a tab past the edge and a character in the last column do.   *)
NextLine(s) ==
  IF s.row + 1 = Height
  THEN [Scroll(s) EXCEPT !.column = 0, !.row = Height - 1]
  ELSE [s EXCEPT !.column = 0, !.row = s.row + 1]

TabTo(s) == ((s.column + TabStop) \div TabStop) * TabStop

(* console_putchar *)
PutChar(s, c) ==
  CASE c = "NL" -> NextLine(s)
    [] c = "CR" -> [s EXCEPT !.column = 0]
    [] c = "HT" -> IF TabTo(s) >= Width THEN NextLine(s) ELSE [s EXCEPT !.column = TabTo(s)]
    [] c = "BS" -> IF s.column = 0 THEN s
                   ELSE [s EXCEPT !.column = s.column - 1,
                                  !.cells[s.row][s.column - 1] = Entry(" ", s.color)]
    [] OTHER ->
         LET put == [s EXCEPT !.cells[s.row][s.column] = Entry(c, s.color)]
         IN  IF s.column + 1 = Width THEN NextLine(put)
             ELSE [put EXCEPT !.column = s.column + 1]

(* console_clear *)
Cleared(s) ==
  [s EXCEPT !.cells = [y \in Rows |-> BlankLine(s.color)], !.row = 0, !.column = 0,
            !.above = <<>>]

(* console_init *)
FirstScreen ==
  Cleared([row |-> 0, column |-> 0, color |-> FirstColor,
           cells |-> [y \in Rows |-> BlankLine(FirstColor)], above |-> <<>>])

SetColor(s, color) == [s EXCEPT !.color = color]

(* console_set_cursor *)
SetCursor(s, row, col) ==
  IF row < Height /\ col < Width THEN [s EXCEPT !.row = row, !.column = col] ELSE s

-----------------------------------------------------------------------------
(* The calls.  console_write and console_write_size are putchar for each   *)
(* character in turn.                                                      *)
CInit == scr = FirstScreen

(* All that was printed since the last clear: what scrolled off, then what *)
(* the screen shows.                                                       *)
Paper(s) == s.above \o [n \in 1 .. Height |-> s.cells[n - 1]]

Inked(s) == { at \in (1 .. Len(Paper(s))) \X Columns : Paper(s)[at[1]][at[2]][1] # " " }

CNext ==
  /\ \/ \E c \in Chars : scr' = PutChar(scr, c)
     \/ scr' = Cleared(scr)
     \/ \E color \in Colors : scr' = SetColor(scr, color)
     \/ \E row \in 0 .. Height, col \in 0 .. Width : scr' = SetCursor(scr, row, col)
  /\ Len(scr'.above) <= MaxAbove /\ Cardinality(Inked(scr')) <= MaxInked

CSpec == CInit /\ [][CNext]_scr

-----------------------------------------------------------------------------
(* Types.  The cursor is always on the screen: the next putchar writes to a*)
(* cell of VGA memory and not past it.                                     *)
CTypeOK ==
  /\ scr.row \in Rows /\ scr.column \in Columns /\ scr.color \in Colors
  /\ scr.cells \in [Rows -> [Columns -> (Glyphs \cup {" "}) \X Colors]]
  /\ \A i \in 1 .. Len(scr.above) : scr.above[i] \in [Columns -> (Glyphs \cup {" "}) \X Colors]

Printer == INSTANCE Teletype WITH
  paper <- Paper(scr), line <- Len(scr.above) + scr.row + 1,
  column <- scr.column, ink <- scr.color

(* The console is a window on the printer's paper: scrolling loses no line,*)
(* shows none twice and moves no character, at the last row and column     *)
(* too, whether the line ends by '\n', by a tab or by wrapping, and the    *)
(* line it opens is blank.                                                 *)
PrinterSpec == Printer!PSpec
=============================================================================
