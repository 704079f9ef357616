------------------------------ MODULE MCKernel ------------------------------
(* The heap and the two devices, each with any caller.  They share         *)
(* nothing, so one of them is used while the others are as after boot;     *)
(* Terminal has the devices together.                                      *)
(*                                                                         *)
(* Heap: 128 bytes with the build's 16-byte headers: room for up to five   *)
(* blocks, exact fits, remainders too small to split off, and refusals.    *)
(* size_t has 9 bits; no request wraps (RequestsFit).                      *)
(*                                                                         *)
(* Console: two rows of three cells with a tab stop inside the row, one    *)
(* character besides the space, two colors; one line may scroll off        *)
(* between clears, and two cells hold the character at a time.             *)
(*                                                                         *)
(* Keyboard: a ring of four, so that three characters wait at most and the *)
(* indices go round; two keys, and room for one scancode in the controller.*)
EXTENDS Heap, Console, Keyboard

MCRequests == {0, 1, 20, 40, 100, 120}
MCCounts   == {0, 3}

ASSUME RequestsFit

MInit == Init /\ CInit /\ KInit

MNext ==
  \/ CInit /\ KInit /\ Next /\ UNCHANGED <<scr, kvars>>
  \/ Init /\ KInit /\ CNext /\ UNCHANGED <<vars, kvars>>
  \/ Init /\ CInit /\ KNext /\ UNCHANGED <<vars, scr>>

MSpec == MInit /\ [][MNext]_<<vars, scr, kvars>>
=============================================================================
