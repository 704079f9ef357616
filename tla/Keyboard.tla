------------------------------ MODULE Keyboard ------------------------------
(***************************************************************************)
(* The keyboard buffer of kernel/keyboard.c (the kernel-mode half): a ring *)
(* of characters that keyboard_poll fills from the controller's data port  *)
(* and keyboard_read empties.  There is no interrupt: a key waits in the   *)
(* controller until somebody polls.                                        *)
(*                                                                         *)
(* A scancode is modelled by what keyboard_us makes of it: the character,  *)
(* "none" for a key the table maps to 0, "up" for a key release.           *)
(***************************************************************************)
EXTENDS Integers, Sequences

CONSTANTS
  RingSize,   (* KEYBOARD_BUFFER_SIZE                                      *)
  Keys,       (* the characters the keys of keyboard_us give               *)
  PortSize    (* bound: the scancodes the controller keeps; it loses the   *)
              (* rest                                                      *)

ASSUME KeyboardAssumption ==
  /\ RingSize \in Nat \ {0} /\ PortSize \in Nat
  /\ Keys \cap {"none", "up"} = {}

VARIABLES
  ring,   (* keyboard_buffer                                               *)
  head,   (* keyboard_buffer_head: where the next character goes           *)
  tail,   (* keyboard_buffer_tail: where the oldest one is                 *)
  port,   (* the scancodes in the controller, the oldest first             *)
  got     (* what the last keyboard_read returned                          *)

buffer == <<ring, head, tail>>
kvars  == <<buffer, port, got>>

Scancodes == Keys \cup {"none", "up"}

(* The characters in the ring, the oldest first.                           *)
Waiting == [i \in 1 .. (head - tail + RingSize) % RingSize |-> ring[(tail + i - 1) % RingSize]]

Available == head # tail

Following_NoWrap(i) == i + 1

(* The index after i.                                                      *)
Following(i) == (i + 1) % RingSize

-----------------------------------------------------------------------------
(* keyboard_init, on a zeroed array.                                       *)
KInit ==
  /\ ring = [i \in 0 .. RingSize - 1 |-> "none"]
  /\ head = 0 /\ tail = 0
  /\ port = <<>>
  /\ got = "none"

Press(code) ==
  /\ Len(port) < PortSize
  /\ port' = Append(port, code)
  /\ UNCHANGED <<buffer, got>>

Poll_Overruns ==
  /\ port # <<>>
  /\ port' = Tail(port)
  /\ IF Head(port) \in Keys
     THEN ring' = [ring EXCEPT ![head] = Head(port)] /\ head' = Following(head)
     ELSE UNCHANGED <<ring, head>>
  /\ UNCHANGED <<tail, got>>

(* keyboard_poll; without a scancode it changes nothing.                   *)
Poll ==
  /\ port # <<>>
  /\ port' = Tail(port)
  /\ IF Head(port) \in Keys /\ Following(head) # tail
     THEN ring' = [ring EXCEPT ![head] = Head(port)] /\ head' = Following(head)
     ELSE UNCHANGED <<ring, head>>
  /\ UNCHANGED <<tail, got>>

(* keyboard_read                                                           *)
Read ==
  /\ IF Available
     THEN got' = ring[tail] /\ tail' = Following(tail)
     ELSE got' = "none" /\ tail' = tail
  /\ UNCHANGED <<ring, head, port>>

(* keyboard_clear_buffer                                                   *)
ClearBuffer == head' = tail /\ UNCHANGED <<ring, tail, port, got>>

KNext ==
  \/ \E code \in Scancodes : Press(code)
  \/ Poll \/ Read \/ ClearBuffer

KSpec == KInit /\ [][KNext]_kvars

-----------------------------------------------------------------------------
(* Types: the indices stay inside the array.                               *)
KTypeOK ==
  /\ ring \in [0 .. RingSize - 1 -> Keys \cup {"none"}]
  /\ head \in 0 .. RingSize - 1 /\ tail \in 0 .. RingSize - 1
  /\ port \in Seq(Scancodes) /\ Len(port) <= PortSize
  /\ got \in Keys \cup {"none"}

Queue == INSTANCE KeyQueue WITH
  due <- port, queue <- Waiting, Codes <- Scancodes, Capacity <- RingSize - 1,
  Nothing <- "none"

(* The ring is a queue: keys come out in the order they were pressed, once *)
(* each, whatever mixture of polls, reads and clears moves the two indices *)
(* round the array; and when it is full a poll loses the new key, not the  *)
(* old ones (head catching up with tail would empty it).                   *)
QueueSpec == Queue!QSpec
=============================================================================
