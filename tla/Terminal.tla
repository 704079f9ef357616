------------------------------ MODULE Terminal ------------------------------
(***************************************************************************)
(* keyboard_get_line of kernel/keyboard.c between the two devices: it      *)
(* polls the keyboard of Keyboard, edits a line, and echoes on the screen  *)
(* of Console.  The shell prints a prompt and reads a line, over and over; *)
(* it polls at no other time, so what is typed while a command runs waits  *)
(* in the controller.                                                      *)
(*                                                                         *)
(* The bytes of the caller's buffer up to pos are the sequence line.       *)
(***************************************************************************)
EXTENDS Console, Keyboard

CONSTANTS
  LineSizes,  (* the sizes of the buffers passed to keyboard_get_line:     *)
              (* 512 for a command, 64 for the password                    *)
  Prompts     (* bound: the lengths of the prompts                         *)

ASSUME TerminalAssumption ==
  /\ LineSizes \subseteq Nat \ {0}
  /\ Prompts \subseteq Nat
  /\ Keys \cap Chars # {}

VARIABLES
  size,    (* buffer_size while a line is read, 0 between two reads        *)
  line,    (* buffer[0 .. pos - 1]                                         *)
  start,   (* where the cursor was when the read began, in cells of Paper; *)
           (* not in the code                                              *)
  longest  (* the length that the line has had at most; not in the code    *)

seen  == <<start, longest>>
tvars == <<scr, kvars, size, line, seen>>

Reading == size # 0

Full_Late == Len(line) = size

(* The buffer has room for its NUL only.                                   *)
Full      == Len(line) = size - 1

Cursor(s) == (Len(s.above) + s.row) * Width + s.column

-----------------------------------------------------------------------------
TInit == CInit /\ KInit /\ size = 0 /\ line = <<>> /\ start = 0 /\ longest = 0

(* The user, at any time.                                                  *)
KeyPressed == \E code \in Scancodes : Press(code) /\ UNCHANGED <<scr, size, line, seen>>

(* cmd_clear *)
ClearScreen == ~Reading /\ scr' = Cleared(scr) /\ UNCHANGED <<kvars, size, line, seen>>

(* A prompt of n characters, and the call.  What scrolled off before is    *)
(* forgotten here, so that above is bounded by the line.                   *)
Prompt(n, g) ==
  LET print[k \in 0 .. n] ==
        IF k = 0 THEN [scr EXCEPT !.above = <<>>] ELSE PutChar(print[k - 1], g)
  IN  print[n]

StartLine(n, g, s) ==
  /\ ~Reading
  /\ size' = s
  /\ line' = <<>>
  /\ scr' = Prompt(n, g)
  /\ start' = Cursor(scr') /\ longest' = 0
  /\ UNCHANGED kvars

(* The end of keyboard_get_line.                                           *)
EndLine(s) == scr' = PutChar(s, "NL") /\ size' = 0

Erase_Halfway(s) == PutChar(PutChar(s, "BS"), " ")

(* The echo of a backspace.                                                *)
Erase(s) == PutChar(PutChar(PutChar(s, "BS"), " "), "BS")

PollForKey_Always ==
  /\ Reading /\ ~Full
  /\ Poll
  /\ UNCHANGED <<scr, size, line, seen>>

(* An iteration of the inner loop.                                         *)
PollForKey ==
  /\ Reading /\ ~Full
  /\ ~Available /\ Poll
  /\ UNCHANGED <<scr, size, line, seen>>

Measured == start' = start /\ longest' = IF Len(line') > longest THEN Len(line') ELSE longest

TakeKey_NoBreak ==
  /\ Reading /\ ~Full
  /\ Available /\ Read
  /\ \/ got' = "BS" /\ line # <<>> /\ scr' = Erase(scr) /\ line' = SubSeq(line, 1, Len(line) - 1)
     \/ got' = "BS" /\ line = <<>> /\ UNCHANGED <<scr, line>>
     \/ got' \in Glyphs \cup {" "} /\ line' = Append(line, got') /\ scr' = PutChar(scr, got')
     \/ got' \notin Glyphs \cup {" ", "BS"} /\ UNCHANGED <<scr, line>>
  /\ UNCHANGED size /\ Measured

(* An iteration of the outer loop once there is a key.                     *)
TakeKey ==
  /\ Reading /\ ~Full
  /\ Available /\ Read
  /\ \/ got' \in {"NL", "CR"} /\ EndLine(scr) /\ line' = line
     \/ /\ got' = "BS" /\ size' = size
        /\ IF line # <<>>
           THEN line' = SubSeq(line, 1, Len(line) - 1) /\ scr' = Erase(scr)
           ELSE UNCHANGED <<line, scr>>
     \/ /\ got' \in Glyphs \cup {" "} /\ size' = size
        /\ line' = Append(line, got') /\ scr' = PutChar(scr, got')
     \/ got' \notin Glyphs \cup {" ", "NL", "CR", "BS"} /\ UNCHANGED <<size, line, scr>>
  /\ Measured

(* The loop's own condition fails: the rest of what was typed is left for  *)
(* the next read.                                                          *)
FillLine == Reading /\ Full /\ EndLine(scr) /\ UNCHANGED <<kvars, line, seen>>

GetLine == PollForKey \/ TakeKey \/ FillLine

TNext ==
  \/ KeyPressed \/ ClearScreen \/ GetLine
  \/ \E n \in Prompts, g \in Glyphs, s \in LineSizes : StartLine(n, g, s)

(* Fairness: the processor does nothing but this loop, so its next step is *)
(* taken.  Nothing is asked of the user.                                   *)
TSpec == TInit /\ [][TNext]_tvars /\ WF_tvars(GetLine)

-----------------------------------------------------------------------------
(* Types.  The terminating NUL fits in the caller's buffer; and the cursor *)
(* stays on the screen whatever is echoed.                                 *)
TTypeOK ==
  /\ CTypeOK /\ KTypeOK
  /\ size \in LineSizes \cup {0}
  /\ line \in Seq(Glyphs \cup {" "}) /\ (Reading => Len(line) < size)
  /\ start \in Nat /\ longest \in Nat

GlyphAt(k) == Paper(scr)[(k \div Width) + 1][k % Width][1]

(* The screen shows, from where the read began to the cursor, what is in   *)
(* the buffer, and nothing after it in that row.                           *)
Shown ==
  /\ Cursor(scr) = start + Len(line)
  /\ \A k \in 1 .. Len(line) : GlyphAt(start + k - 1) = line[k]
  /\ \A x \in scr.column .. Width - 1 : scr.cells[scr.row][x][1] = " "

(* As long as the line has not reached the end of the row it began in, what*)
(* the user sees is what the shell will get, through every erasure and     *)
(* retyping, however large the buffer is.                                  *)
EchoFits == Reading /\ (start % Width) + longest < Width => Shown

(* keyboard.c:151 "Echo backspace to console": erasing a character erases  *)
(* it on the screen.                                                       *)
EchoShows == Reading => Shown

(* Between the controller and the ring no key is lost, however fast the    *)
(* user types: get_line polls only when the ring is empty, so that the     *)
(* ring has room for every key that a poll reads.                          *)
NoKeyDropped ==
  [][Len(port') < Len(port) /\ Head(port) \in Keys => Waiting' = Append(Waiting, Head(port))]_tvars

(* Once Enter has been pressed the line ends, wherever the key is on its   *)
(* way to the loop and whatever is typed around it.                        *)
EnterInPort == \E i \in 1 .. Len(port) : port[i] = "NL"
EnterEndsLine == (Reading /\ EnterInPort) ~> ~Reading
=============================================================================
