---------------------------- MODULE TerminalProofs ----------------------------
(***************************************************************************)
(* Theorems about the devices, for every size of the ring, of the screen   *)
(* and of the line buffers and every set of keys, characters and colors.   *)
(* The ring of Keyboard: its indices stay inside the array, and it is the  *)
(* bounded queue of KeyQueue.  The screen of Console: the cursor stays on  *)
(* it, and it is the end of the paper of Teletype.  And Terminal: what     *)
(* holds of the two devices by themselves holds under keyboard_get_line    *)
(* too, the line fits in its buffer and is what its row shows, and no key  *)
(* is dropped.                                                             *)
(***************************************************************************)
EXTENDS Terminal, NatInduction, SequenceTheorems, TLAPS

-----------------------------------------------------------------------------
(* The ring of Keyboard.                                                   *)

Slots == 0 .. RingSize - 1

LEMMA RingNat == RingSize \in Nat \ {0}
  BY KeyboardAssumption

(* The remainder of a number that is less than twice the divisor.          *)
LEMMA Modulo ==
  ASSUME NEW n \in Nat \ {0}, NEW x \in 0 .. 2 * n - 1
  PROVE  x % n = IF x < n THEN x ELSE x - n
<1>1. CASE x < n
  BY <1>1
<1>2. CASE x >= n
  BY <1>2
<1>3. QED
  BY <1>1, <1>2

LEMMA NextRemainder ==
  ASSUME NEW n \in Nat \ {0}, NEW i \in 0 .. n - 1
  PROVE  /\ (i + 1) % n = IF i = n - 1 THEN 0 ELSE i + 1
         /\ (i + 1) % n \in 0 .. n - 1
<1>1. PICK x \in Int : x = i + 1
  OBVIOUS
<1>2. x \in 0 .. 2 * n - 1
  BY <1>1
<1>3. x % n = IF x < n THEN x ELSE x - n
  BY <1>2, Modulo
<1>4. QED
  BY <1>1, <1>3

(* The two sums the ring takes the remainder of.                           *)
LEMMA HeldRemainder ==
  ASSUME NEW n \in Nat \ {0}, NEW h \in 0 .. n - 1, NEW t \in 0 .. n - 1
  PROVE  (h - t + n) % n = IF h >= t THEN h - t ELSE h - t + n
<1>1. PICK x \in Int : x = h - t + n
  OBVIOUS
<1>2. x \in 0 .. 2 * n - 1
  BY <1>1
<1>3. x % n = IF x < n THEN x ELSE x - n
  BY <1>2, Modulo
<1>4. (x < n) = (h < t) /\ x - n = h - t
  BY <1>1
<1>5. CASE h >= t
  BY <1>1, <1>3, <1>4, <1>5
<1>6. CASE h < t
  BY <1>1, <1>3, <1>4, <1>6
<1>7. QED
  BY <1>5, <1>6

LEMMA SlotRemainder ==
  ASSUME NEW n \in Nat \ {0}, NEW t \in 0 .. n - 1, NEW i \in 1 .. n
  PROVE  (t + i - 1) % n = IF t + i - 1 < n THEN t + i - 1 ELSE t + i - 1 - n
<1>1. PICK x \in Int : x = t + i - 1
  OBVIOUS
<1>2. x \in 0 .. 2 * n - 1
  BY <1>1
<1>3. x % n = IF x < n THEN x ELSE x - n
  BY <1>2, Modulo
<1>4. QED
  BY <1>1, <1>3

LEMMA NextSlot ==
  ASSUME NEW i \in Slots
  PROVE  /\ Following(i) = IF i = RingSize - 1 THEN 0 ELSE i + 1
         /\ Following(i) \in Slots
  BY RingNat, NextRemainder DEF Slots, Following

-----------------------------------------------------------------------------
LEMMA KeyTypeNext == KTypeOK /\ [KNext]_kvars => KTypeOK'
<1> SUFFICES ASSUME KTypeOK, [KNext]_kvars PROVE KTypeOK'
  OBVIOUS
<1>0. /\ ring \in [Slots -> Keys \cup {"none"}] /\ head \in Slots /\ tail \in Slots
      /\ port \in Seq(Scancodes) /\ Len(port) <= PortSize /\ Len(port) \in Nat
      /\ got \in Keys \cup {"none"} /\ PortSize \in Nat
  BY KeyboardAssumption, LenProperties DEF KTypeOK, Slots
<1>1. CASE UNCHANGED kvars
  BY <1>1 DEF kvars, buffer, KTypeOK
<1>2. ASSUME NEW code \in Scancodes, Press(code) PROVE KTypeOK'
  <2>1. port' \in Seq(Scancodes) /\ Len(port') <= PortSize
    BY <1>0, <1>2, AppendProperties DEF Press
  <2>2. QED
    BY <1>0, <1>2, <2>1 DEF Press, buffer, KTypeOK, Slots
<1>3. CASE Poll
  <2>1. port' \in Seq(Scancodes) /\ Len(port') <= PortSize
    BY <1>0, <1>3, HeadTailProperties DEF Poll
  <2>2. head' \in Slots
    BY <1>0, <1>3, NextSlot DEF Poll
  <2>3. ring' \in [Slots -> Keys \cup {"none"}]
    BY <1>0, <1>3 DEF Poll
  <2>4. tail' = tail /\ got' = got
    BY <1>3 DEF Poll
  <2>5. QED
    BY <1>0, <2>1, <2>2, <2>3, <2>4 DEF KTypeOK, Slots
<1>4. CASE Read
  <2>1. tail' \in Slots /\ got' \in Keys \cup {"none"}
    BY <1>0, <1>4, NextSlot DEF Read
  <2>2. QED
    BY <1>0, <1>4, <2>1 DEF Read, KTypeOK, Slots
<1>5. CASE ClearBuffer
  BY <1>0, <1>5 DEF ClearBuffer, KTypeOK, Slots
<1>6. QED
  BY <1>1, <1>2, <1>3, <1>4, <1>5 DEF KNext

(* The indices of the ring stay inside the array (keyboard.c:99-101,       *)
(* 120-128, 171-190), for every size of it.                                *)
THEOREM RingTyped == KSpec => []KTypeOK
<1>1. KInit => KTypeOK
  BY RingNat, KeyboardAssumption, EmptySeq DEF KInit, KTypeOK
<1>2. QED
  BY <1>1, KeyTypeNext, PTL DEF KSpec

-----------------------------------------------------------------------------
(* Where the waiting characters are, without remainders.                   *)
Held == IF head >= tail THEN head - tail ELSE head - tail + RingSize
SlotOf(i) == IF tail + i - 1 < RingSize THEN tail + i - 1 ELSE tail + i - 1 - RingSize

WaitingShape ==
  /\ Held \in Nat /\ Held <= RingSize - 1
  /\ \A i \in 1 .. RingSize : SlotOf(i) \in Slots
  /\ Waiting = [i \in 1 .. Held |-> ring[SlotOf(i)]]
  /\ Waiting \in Seq(Keys \cup {"none"})
  /\ Len(Waiting) = Held

LEMMA WaitingIs == KTypeOK => WaitingShape
<1> SUFFICES ASSUME KTypeOK PROVE WaitingShape
  OBVIOUS
<1>0. /\ ring \in [Slots -> Keys \cup {"none"}] /\ head \in Slots /\ tail \in Slots
  BY DEF KTypeOK, Slots
<1>1. /\ Held \in Nat /\ Held <= RingSize - 1
      /\ \A i \in 1 .. RingSize : SlotOf(i) \in Slots
  BY <1>0, RingNat DEF Slots, Held, SlotOf
<1>2. (head - tail + RingSize) % RingSize = Held
  BY <1>0, RingNat, HeldRemainder DEF Slots, Held
<1>3. ASSUME NEW i \in 1 .. RingSize PROVE (tail + i - 1) % RingSize = SlotOf(i)
  BY <1>0, RingNat, SlotRemainder DEF Slots, SlotOf
<1>4. \A i \in 1 .. Held : i \in 1 .. RingSize
  BY <1>1, RingNat
<1>5. Waiting = [i \in 1 .. Held |-> ring[SlotOf(i)]]
  BY <1>2, <1>3, <1>4 DEF Waiting
<1>6. \A i \in 1 .. Held : ring[SlotOf(i)] \in Keys \cup {"none"}
  BY <1>0, <1>1, <1>4
<1>7. QED
  BY <1>1, <1>5, <1>6 DEF WaitingShape

LEMMA ShapeNext == KTypeOK' => WaitingShape'
  BY WaitingIs, PTL

-----------------------------------------------------------------------------
(* The code a poll takes goes to the end of the queue if the ring has room *)
(* for it (keyboard.c:97-101).                                             *)
LEMMA AcceptsOne ==
  ASSUME KTypeOK, KTypeOK', Poll
  PROVE  Queue!Accept
<1>0. /\ ring \in [Slots -> Keys \cup {"none"}] /\ head \in Slots /\ tail \in Slots
  BY DEF KTypeOK, Slots
<1>1. Following(head) = IF head = RingSize - 1 THEN 0 ELSE head + 1
  BY <1>0, NextSlot
<1>2. /\ Held \in Nat /\ Held <= RingSize - 1
      /\ \A i \in 1 .. RingSize : SlotOf(i) \in Slots
      /\ Waiting = [i \in 1 .. Held |-> ring[SlotOf(i)]]
      /\ Waiting \in Seq(Keys \cup {"none"}) /\ Len(Waiting) = Held
  BY WaitingIs DEF WaitingShape
<1>3. (Following(head) # tail) <=> (Held < RingSize - 1)
  BY <1>0, <1>1, RingNat DEF Held, Slots
<1>4. Waiting' = [i \in 1 .. Held' |-> ring'[SlotOf(i)']] /\ Len(Waiting') = Held'
      /\ Waiting' \in Seq(Keys \cup {"none"})
  BY ShapeNext DEF WaitingShape
<1>5. tail' = tail /\ got' = got /\ port # <<>> /\ port' = Tail(port)
  BY DEF Poll
<1>6. ASSUME NEW i \in 1 .. RingSize PROVE SlotOf(i)' = SlotOf(i)
  BY <1>5 DEF SlotOf
<1>7. CASE Head(port) \in Keys /\ Held < RingSize - 1
  <2>1. ring' = [ring EXCEPT ![head] = Head(port)] /\ head' = Following(head)
    BY <1>3, <1>7 DEF Poll
  <2>2. Held' = Held + 1
    BY <1>0, <1>1, <1>3, <1>5, <1>7, <2>1, RingNat DEF Held, Slots
  <2>3. SlotOf(Held + 1) = head
    BY <1>0, RingNat DEF Held, SlotOf, Slots
  <2>4. ASSUME NEW i \in 1 .. Held PROVE SlotOf(i) # head
    BY <1>0, <1>2, RingNat DEF Held, SlotOf, Slots
  <2>5. ASSUME NEW i \in 1 .. Held PROVE ring'[SlotOf(i)] = ring[SlotOf(i)]
    BY <1>0, <1>2, <2>1, <2>4, RingNat
  <2>6. ring'[SlotOf(Held + 1)] = Head(port)
    BY <1>0, <2>1, <2>3
  <2>7. Append(Waiting, Head(port)) \in Seq(Keys \cup {"none"})
        /\ Len(Append(Waiting, Head(port))) = Held + 1
        /\ \A i \in 1 .. Held : Append(Waiting, Head(port))[i] = Waiting[i]
        /\ Append(Waiting, Head(port))[Held + 1] = Head(port)
    BY <1>2, <1>7, AppendProperties
  <2>8. ASSUME NEW i \in 1 .. Held + 1
        PROVE  Waiting'[i] = Append(Waiting, Head(port))[i]
    <3>1. i \in 1 .. RingSize /\ Waiting'[i] = ring'[SlotOf(i)]
      BY <1>2, <1>4, <1>6, <1>7, <2>2, RingNat
    <3>2. CASE i = Held + 1
      BY <2>6, <2>7, <3>1, <3>2
    <3>3. CASE i \in 1 .. Held
      BY <1>2, <2>5, <2>7, <3>1, <3>3
    <3>4. QED
      BY <1>2, <3>2, <3>3
  <2>9. Waiting' = Append(Waiting, Head(port))
    BY <1>2, <1>4, <2>2, <2>7, <2>8, SeqEqual
  <2>10. QED
    BY <1>2, <1>5, <1>7, <2>9 DEF Queue!Accept
<1>8. CASE ~(Head(port) \in Keys /\ Held < RingSize - 1)
  <2>1. ring' = ring /\ head' = head
    BY <1>3, <1>8 DEF Poll
  <2>2. Waiting' = Waiting
    BY <1>5, <2>1 DEF Waiting
  <2>3. QED
    BY <1>2, <1>5, <1>8, <2>2 DEF Queue!Accept
<1>9. QED
  BY <1>7, <1>8

(* keyboard_read takes the head of the queue (keyboard.c:120-128).         *)
LEMMA TakesOne ==
  ASSUME KTypeOK, KTypeOK', Read
  PROVE  Queue!Take
<1>0. /\ ring \in [Slots -> Keys \cup {"none"}] /\ head \in Slots /\ tail \in Slots
  BY DEF KTypeOK, Slots
<1>1. Following(tail) = IF tail = RingSize - 1 THEN 0 ELSE tail + 1
  BY <1>0, NextSlot
<1>2. /\ Held \in Nat /\ Held <= RingSize - 1
      /\ \A i \in 1 .. RingSize : SlotOf(i) \in Slots
      /\ Waiting = [i \in 1 .. Held |-> ring[SlotOf(i)]]
      /\ Waiting \in Seq(Keys \cup {"none"}) /\ Len(Waiting) = Held
  BY WaitingIs DEF WaitingShape
<1>3. Available <=> Held # 0
  BY <1>0, RingNat DEF Available, Held, Slots
<1>4. Waiting' = [i \in 1 .. Held' |-> ring'[SlotOf(i)']] /\ Len(Waiting') = Held'
      /\ Waiting' \in Seq(Keys \cup {"none"}) /\ Held' \in Nat
  BY ShapeNext DEF WaitingShape
<1>5. ring' = ring /\ head' = head /\ port' = port
  BY DEF Read
<1>6. CASE Available
  <2>1. got' = ring[tail] /\ tail' = Following(tail)
    BY <1>6 DEF Read
  <2>2. Held' = Held - 1
    BY <1>0, <1>1, <1>5, <1>6, <2>1, RingNat DEF Available, Held, Slots
  <2>3. ASSUME NEW i \in 1 .. Held - 1 PROVE SlotOf(i)' = SlotOf(i + 1)
    BY <1>0, <1>1, <1>2, <2>1, RingNat DEF SlotOf, Slots
  <2>4. SlotOf(1) = tail
    BY <1>0, RingNat DEF SlotOf, Slots
  <2>5. Waiting # <<>> /\ Head(Waiting) = ring[tail]
    BY <1>2, <1>3, <1>6, <2>4, HeadTailProperties
  <2>6. /\ Tail(Waiting) \in Seq(Keys \cup {"none"}) /\ Len(Tail(Waiting)) = Held - 1
        /\ \A i \in 1 .. Held - 1 : Tail(Waiting)[i] = Waiting[i + 1]
    <3>1. PICK w \in Seq(Keys \cup {"none"}) : w = Waiting
      BY <1>2
    <3>2. /\ Tail(w) \in Seq(Keys \cup {"none"}) /\ Len(Tail(w)) = Len(w) - 1
          /\ \A i \in 1 .. Len(Tail(w)) : Tail(w)[i] = w[i + 1]
      BY <2>5, <3>1, HeadTailProperties
    <3>3. Len(w) = Held
      BY <1>2, <3>1
    <3>4. QED
      BY ONLY <3>1, <3>2, <3>3
  <2>7. ASSUME NEW i \in 1 .. Held - 1 PROVE Waiting'[i] = Tail(Waiting)[i]
    <3>1. i \in 1 .. Held' /\ i + 1 \in 1 .. Held
      BY <1>2, <2>2
    <3>2. Waiting'[i] = ring'[SlotOf(i)'] /\ Waiting[i + 1] = ring[SlotOf(i + 1)]
      BY ONLY <1>2, <1>4, <3>1
    <3>3. QED
      BY <1>5, <2>3, <2>6, <3>2
  <2>8. Waiting' = Tail(Waiting)
    BY <1>2, <1>4, <2>2, <2>6, <2>7, SeqEqual
  <2>9. QED
    BY <1>5, <2>1, <2>5, <2>8 DEF Queue!Take
<1>7. CASE ~Available
  <2>1. got' = "none" /\ tail' = tail
    BY <1>7 DEF Read
  <2>2. Waiting' = Waiting
    BY <1>5, <2>1 DEF Waiting
  <2>3. Waiting = <<>>
    BY <1>2, <1>3, <1>7, EmptySeq
  <2>4. QED
    BY <1>5, <2>1, <2>2, <2>3 DEF Queue!Take
<1>8. QED
  BY <1>6, <1>7

LEMMA QueueStep ==
  ASSUME KTypeOK, KTypeOK', [KNext]_kvars
  PROVE  [Queue!QNext]_<<port, Waiting, got>>
<1>1. CASE UNCHANGED kvars
  BY <1>1 DEF kvars, buffer, Waiting
<1>2. ASSUME NEW code \in Scancodes, Press(code)
      PROVE  Queue!Arrive(code)
  BY <1>2 DEF Press, buffer, Queue!Arrive, Waiting
<1>3. CASE Poll
  BY <1>3, AcceptsOne DEF Queue!QNext
<1>4. CASE Read
  BY <1>4, TakesOne DEF Queue!QNext
<1>5. CASE ClearBuffer
  <2>1. head' = tail' /\ tail' = tail
    BY <1>5 DEF ClearBuffer
  <2>2. Waiting' = [i \in 1 .. Held' |-> ring'[SlotOf(i)']] /\ Len(Waiting') = Held'
        /\ Waiting' \in Seq(Keys \cup {"none"})
    BY ShapeNext DEF WaitingShape
  <2>3. tail' \in Slots
    BY DEF KTypeOK, Slots
  <2>4. Held' = 0
    BY <2>1, <2>3 DEF Held, Slots
  <2>5. Waiting' = <<>>
    BY <2>2, <2>4, EmptySeq
  <2>6. QED
    BY <1>5, <2>5 DEF ClearBuffer, Queue!Forget, Queue!QNext
<1>6. QED
  BY <1>1, <1>2, <1>3, <1>4, <1>5 DEF KNext, Queue!QNext

(* The ring is the bounded queue of KeyQueue for every size of the array:  *)
(* the characters come out in the order they were pressed, once each, and  *)
(* a full ring loses the newest key (keyboard.c:77-128, 171-190).          *)
THEOREM RingIsAQueue == KSpec => QueueSpec
<1>1. KInit => Queue!QInit
  <2> SUFFICES ASSUME KInit PROVE Waiting = <<>>
    BY DEF KInit, Queue!QInit
  <2>2. head = 0 /\ tail = 0
    BY DEF KInit
  <2>3. KTypeOK
    BY RingNat, KeyboardAssumption, EmptySeq DEF KInit, KTypeOK
  <2>4. Held = 0 /\ Len(Waiting) = Held /\ Waiting \in Seq(Keys \cup {"none"})
    BY <2>2, <2>3, WaitingIs DEF Held, WaitingShape
  <2>5. QED
    BY <2>4, EmptySeq
<1>2. KTypeOK /\ KTypeOK' /\ [KNext]_kvars => [Queue!QNext]_<<port, Waiting, got>>
  BY QueueStep
<1>3. QED
  BY <1>1, <1>2, RingTyped, PTL DEF KSpec, QueueSpec, Queue!QSpec
-----------------------------------------------------------------------------
(* The screen of Console.                                                  *)

Cell  == (Glyphs \cup {" "}) \X Colors
Lines == [Columns -> Cell]
State == [row : Rows, column : Columns, color : Colors, cells : [Rows -> Lines],
          above : Seq(Lines)]

(* The states of the screen that FirstScreen and the calls produce.        *)
CInv == scr \in State

LEMMA SizesC ==
  /\ Width \in Nat \ {0} /\ Height \in Nat \ {0} /\ TabStop \in Nat \ {0}
  /\ FirstColor \in Colors
  BY ConsoleAssumption

LEMMA Corner == 0 \in Rows /\ 0 \in Columns /\ Height - 1 \in Rows
  BY SizesC DEF Rows, Columns

LEMMA BlankType ==
  ASSUME NEW color \in Colors
  PROVE  BlankLine(color) \in Lines
<1>1. Entry(" ", color) \in Cell
  BY DEF Entry, Cell
<1>2. QED
  BY <1>1 DEF BlankLine, Lines

(* Writing one cell.                                                       *)
LEMMA CellWritten ==
  ASSUME NEW cells \in [Rows -> Lines], NEW r \in Rows, NEW k \in Columns, NEW c \in Cell
  PROVE  [cells EXCEPT ![r][k] = c] \in [Rows -> Lines]
<1>1. cells[r] \in Lines
  OBVIOUS
<1>2. [cells[r] EXCEPT ![k] = c] \in Lines
  BY <1>1 DEF Lines
<1>3. QED
  BY <1>2

LEMMA Fields ==
  ASSUME NEW s \in State
  PROVE  /\ s.row \in Rows /\ s.column \in Columns /\ s.color \in Colors
         /\ s.cells \in [Rows -> Lines] /\ s.above \in Seq(Lines)
  BY DEF State

LEMMA CursorMoved ==
  ASSUME NEW s \in State, NEW r \in Rows, NEW k \in Columns
  PROVE  /\ [s EXCEPT !.column = k] \in State
         /\ [s EXCEPT !.column = k, !.row = r] \in State
         /\ [s EXCEPT !.row = r, !.column = k] \in State
  BY DEF State

LEMMA ScrollType ==
  ASSUME NEW s \in State
  PROVE  Scroll(s) \in State
<1> DEFINE up == [y \in Rows |-> IF y < Height - 1 THEN s.cells[y + 1] ELSE BlankLine(s.color)]
<1>1. ASSUME NEW y \in Rows PROVE up[y] \in Lines
  <2>1. CASE y < Height - 1
    <3>1. y + 1 \in Rows
      BY <2>1, SizesC DEF Rows
    <3>2. QED
      BY <2>1, <3>1, Fields
  <2>2. CASE ~(y < Height - 1)
    BY <2>2, Fields, BlankType
  <2>3. QED
    BY <2>1, <2>2
<1>2. up \in [Rows -> Lines]
  BY <1>1
<1>3. s.cells[0] \in Lines
  BY Corner, Fields
<1>4. Append(s.above, s.cells[0]) \in Seq(Lines)
  BY <1>3, Fields, AppendProperties
<1> HIDE DEF up
<1>5. [s EXCEPT !.cells = up, !.above = Append(s.above, s.cells[0])] \in State
  BY <1>2, <1>4 DEF State
<1>6. QED
  BY <1>5 DEF Scroll, up

LEMMA NextLineType ==
  ASSUME NEW s \in State
  PROVE  NextLine(s) \in State
<1>1. CASE s.row + 1 = Height
  BY <1>1, ScrollType, Corner, CursorMoved DEF NextLine
<1>2. CASE s.row + 1 # Height
  <2>1. s.row + 1 \in Rows
    BY <1>2, SizesC, Fields DEF Rows
  <2>2. QED
    BY <1>2, <2>1, Corner, CursorMoved DEF NextLine
<1>3. QED
  BY <1>1, <1>2

(* A tab stop after the cursor is a column or past the row.                *)
LEMMA TabNat ==
  ASSUME NEW s \in State
  PROVE  TabTo(s) \in Nat
<1>1. s.column \in Nat
  BY Fields DEF Columns
<1>2. (s.column + TabStop) \div TabStop \in Nat
  BY <1>1, SizesC
<1>3. QED
  BY <1>2, SizesC DEF TabTo

LEMMA PutCharType ==
  ASSUME NEW s \in State, NEW c \in Chars
  PROVE  PutChar(s, c) \in State
<1>1. CASE c = "NL"
  BY <1>1, NextLineType DEF PutChar
<1>2. CASE c = "CR"
  BY <1>2, Corner, CursorMoved DEF PutChar
<1>3. CASE c = "HT"
  <2>1. CASE TabTo(s) >= Width
    BY <1>3, <2>1, NextLineType DEF PutChar
  <2>2. CASE ~(TabTo(s) >= Width)
    <3>1. TabTo(s) \in Columns
      BY <2>2, TabNat, SizesC DEF Columns
    <3>2. PICK k \in Columns : k = TabTo(s)
      BY <3>1
    <3>3. [s EXCEPT !.column = k] \in State
      BY DEF State
    <3>4. PutChar(s, c) = [s EXCEPT !.column = k]
      BY <1>3, <2>2, <3>2 DEF PutChar
    <3>5. QED
      BY <3>3, <3>4
  <2>3. QED
    BY <2>1, <2>2
<1>4. CASE c = "BS"
  <2>1. CASE s.column = 0
    BY <1>4, <2>1 DEF PutChar
  <2>2. CASE s.column # 0
    <3>1. s.column - 1 \in Columns
      <4>1. PICK k \in 0 .. Width - 1 : k = s.column
        BY Fields DEF Columns
      <4>2. k # 0
        BY <2>2, <4>1
      <4>3. k - 1 \in 0 .. Width - 1
        BY <4>2, SizesC
      <4>4. QED
        BY <4>1, <4>3 DEF Columns
    <3>2. Entry(" ", s.color) \in Cell
      BY Fields DEF Entry, Cell
    <3>3. [s.cells EXCEPT ![s.row][s.column - 1] = Entry(" ", s.color)] \in [Rows -> Lines]
      BY <3>1, <3>2, Fields, CellWritten
    <3> DEFINE back == [s EXCEPT !.column = s.column - 1,
                                 !.cells[s.row][s.column - 1] = Entry(" ", s.color)]
    <3>4. PutChar(s, c) = back
      BY <1>4, <2>2 DEF PutChar
    <3>5. back = [s EXCEPT !.column = s.column - 1,
             !.cells = [s.cells EXCEPT ![s.row][s.column - 1] = Entry(" ", s.color)]]
      BY DEF State
    <3> HIDE DEF back
    <3>6. back \in State
      BY <3>1, <3>3, <3>5 DEF State
    <3>7. QED
      BY <3>4, <3>6
  <2>3. QED
    BY <2>1, <2>2
<1>5. CASE c \in Glyphs \cup {" "}
  <2> DEFINE put == [s EXCEPT !.cells[s.row][s.column] = Entry(c, s.color)]
  <2>1. Entry(c, s.color) \in Cell
    BY <1>5, Fields DEF Entry, Cell
  <2>2. [s.cells EXCEPT ![s.row][s.column] = Entry(c, s.color)] \in [Rows -> Lines]
    BY <2>1, Fields, CellWritten
  <2>3. put = [s EXCEPT !.cells = [s.cells EXCEPT ![s.row][s.column] = Entry(c, s.color)]]
    BY DEF State
  <2>4. put \in State
    BY <2>2, <2>3 DEF State
  <2>5. c \notin {"NL", "CR", "HT", "BS"}
    BY <1>5, ConsoleAssumption
  <2>6. PutChar(s, c) = IF s.column + 1 = Width THEN NextLine(put)
                        ELSE [put EXCEPT !.column = s.column + 1]
    BY <2>5 DEF PutChar
  <2> HIDE DEF put
  <2>7. CASE s.column + 1 = Width
    BY <2>4, <2>6, <2>7, NextLineType
  <2>8. CASE s.column + 1 # Width
    <3>1. s.column + 1 \in Columns
      BY <2>8, SizesC, Fields DEF Columns
    <3>2. PICK t \in State : t = put
      BY <2>4
    <3>3. PICK k \in Columns : k = s.column + 1
      BY <3>1
    <3>4. [t EXCEPT !.column = k] \in State
      BY DEF State
    <3>5. PutChar(s, c) = [t EXCEPT !.column = k]
      BY <2>6, <2>8, <3>2, <3>3
    <3>6. QED
      BY <3>4, <3>5
  <2>9. QED
    BY <2>7, <2>8
<1>6. QED
  BY <1>1, <1>2, <1>3, <1>4, <1>5 DEF Chars

LEMMA ClearedType ==
  ASSUME NEW s, s.color \in Colors,
         s \in [row : Rows, column : Columns, color : Colors, cells : [Rows -> Lines],
                above : Seq(Lines)]
  PROVE  Cleared(s) \in State
<1> DEFINE blank == [y \in Rows |-> BlankLine(s.color)]
<1>1. blank \in [Rows -> Lines]
  BY BlankType
<1>2. << >> \in Seq(Lines)
  BY EmptySeq
<1> HIDE DEF blank
<1>3. [s EXCEPT !.cells = blank, !.row = 0, !.column = 0, !.above = <<>>] \in State
  BY <1>1, <1>2, Corner DEF State
<1>4. QED
  BY <1>3 DEF Cleared, blank

LEMMA FirstIs == \E raw \in State : raw.color = FirstColor /\ FirstScreen = Cleared(raw)
<1> DEFINE cells == [y \in Rows |-> BlankLine(FirstColor)]
           raw   == [row |-> 0, column |-> 0, color |-> FirstColor, cells |-> cells, above |-> <<>>]
<1>1. cells \in [Rows -> Lines]
  BY BlankType, SizesC
<1>2. << >> \in Seq(Lines)
  BY EmptySeq
<1>3. FirstScreen = Cleared(raw)
  BY DEF FirstScreen
<1> HIDE DEF cells
<1>4. raw \in State /\ raw.color = FirstColor
  BY <1>1, <1>2, Corner, SizesC DEF State
<1> HIDE DEF raw
<1>5. QED
  BY <1>3, <1>4

LEMMA ScreenInit == CInit => CInv
<1>1. PICK raw \in State : FirstScreen = Cleared(raw)
  BY FirstIs
<1>2. Cleared(raw) \in State
  BY Fields, ClearedType DEF State
<1>3. QED
  BY <1>1, <1>2 DEF CInit, CInv

LEMMA ScreenNext == CInv /\ [CNext]_scr => CInv'
<1>1. SUFFICES ASSUME CInv, [CNext]_scr PROVE CInv'
  OBVIOUS
<1>2. scr \in State
  BY <1>1 DEF CInv
<1>3. CASE \E c \in Chars : scr' = PutChar(scr, c)
  BY <1>2, <1>3, PutCharType DEF CInv
<1>4. CASE scr' = Cleared(scr)
  BY <1>2, <1>4, Fields, ClearedType DEF CInv, State
<1>5. CASE \E color \in Colors : scr' = SetColor(scr, color)
  BY <1>2, <1>5 DEF CInv, SetColor, State
<1>6. CASE \E row \in 0 .. Height, col \in 0 .. Width : scr' = SetCursor(scr, row, col)
  <2>1. PICK row \in 0 .. Height, col \in 0 .. Width : scr' = SetCursor(scr, row, col)
    BY <1>6
  <2>2. CASE row < Height /\ col < Width
    <3>1. row \in Rows /\ col \in Columns
      BY <2>2, SizesC DEF Rows, Columns
    <3>2. scr' = [scr EXCEPT !.row = row, !.column = col]
      BY <2>1, <2>2 DEF SetCursor
    <3>3. QED
      BY <1>2, <3>1, <3>2, CursorMoved DEF CInv
  <2>3. CASE ~(row < Height /\ col < Width)
    BY <1>2, <2>1, <2>3 DEF SetCursor, CInv
  <2>4. QED
    BY <2>2, <2>3
<1>7. CASE scr' = scr
  BY <1>2, <1>7 DEF CInv
<1>8. QED
  BY <1>1, <1>3, <1>4, <1>5, <1>6, <1>7 DEF CNext

(* The cursor never leaves the screen and every cell holds a character in  *)
(* a color, whatever is printed and wherever the cursor is set: each       *)
(* console_putchar writes inside VGA memory.                               *)
THEOREM ScreenTyped == CSpec => []CTypeOK
<1>1. CInv => CTypeOK
  <2>1. SUFFICES ASSUME CInv PROVE CTypeOK
    OBVIOUS
  <2>2. scr.row \in Rows /\ scr.column \in Columns /\ scr.color \in Colors
    BY <2>1, Fields DEF CInv
  <2>3. scr.cells \in [Rows -> [Columns -> (Glyphs \cup {" "}) \X Colors]]
    BY <2>1, Fields DEF CInv, Lines, Cell
  <2>4. \A i \in 1 .. Len(scr.above) : scr.above[i] \in Lines
    BY <2>1, Fields, ElementOfSeq DEF CInv
  <2>5. QED
    BY <2>2, <2>3, <2>4 DEF CTypeOK, Lines, Cell
<1>2. QED
  BY <1>1, ScreenInit, ScreenNext, PTL DEF CSpec
-----------------------------------------------------------------------------
(* The screen as the paper of Teletype.                                    *)
LineOf(s) == Len(s.above) + s.row + 1

LEMMA PaperIs ==
  ASSUME NEW s \in State
  PROVE  /\ Paper(s) \in Seq(Lines) /\ Len(s.above) \in Nat
         /\ Len(Paper(s)) = Len(s.above) + Height
         /\ \A i \in 1 .. Len(s.above) : Paper(s)[i] = s.above[i]
         /\ \A y \in Rows : Paper(s)[Len(s.above) + y + 1] = s.cells[y]
<1> DEFINE window == [n \in 1 .. Height |-> s.cells[n - 1]]
<1>1. s.above \in Seq(Lines) /\ Len(s.above) \in Nat
  BY Fields, LenProperties
<1>2. ASSUME NEW n \in 1 .. Height PROVE s.cells[n - 1] \in Lines
  <2>1. n - 1 \in Rows
    BY SizesC DEF Rows
  <2>2. QED
    BY <2>1, Fields
<1>3. window \in Seq(Lines) /\ Len(window) = Height
  BY <1>2, SizesC
<1>4. \A y \in Rows : y + 1 \in 1 .. Height /\ (y + 1) - 1 = y
  BY SizesC DEF Rows
<1>5. \A y \in Rows : window[y + 1] = s.cells[y]
  BY <1>4
<1>6. Paper(s) = s.above \o window
  BY DEF Paper
<1> HIDE DEF window
<1>7. /\ Paper(s) \in Seq(Lines) /\ Len(Paper(s)) = Len(s.above) + Len(window)
      /\ \A i \in 1 .. Len(s.above) + Len(window) :
           Paper(s)[i] = IF i <= Len(s.above) THEN s.above[i] ELSE window[i - Len(s.above)]
  BY <1>1, <1>3, <1>6, ConcatProperties
<1>8. ASSUME NEW y \in Rows PROVE Paper(s)[Len(s.above) + y + 1] = s.cells[y]
  <2>1. PICK n \in Nat : n = Len(s.above)
    BY <1>1
  <2>2. y \in Nat /\ y + 1 <= Height
    BY SizesC DEF Rows
  <2>3. n + y + 1 \in 1 .. n + Height /\ ~(n + y + 1 <= n) /\ (n + y + 1) - n = y + 1
    BY <2>2, SizesC
  <2>4. QED
    BY <1>3, <1>5, <1>7, <2>1, <2>3
<1>9. ASSUME NEW i \in 1 .. Len(s.above) PROVE Paper(s)[i] = s.above[i]
  BY <1>1, <1>3, <1>7, SizesC
<1>10. QED
  BY <1>1, <1>3, <1>7, <1>8, <1>9

(* Every line of the paper has scrolled off or is in a row of the screen.  *)
LEMMA AboveOrShown ==
  ASSUME NEW n \in Nat, NEW i \in 1 .. n + Height
  PROVE  i \in 1 .. n \/ (i - n - 1 \in Rows /\ i = n + (i - n - 1) + 1)
  BY SizesC DEF Rows

LEMMA LineIs ==
  ASSUME NEW s \in State
  PROVE  /\ LineOf(s) \in 1 .. Len(Paper(s))
         /\ Paper(s)[LineOf(s)] = s.cells[s.row]
         /\ (LineOf(s) = Len(Paper(s))) <=> (s.row + 1 = Height)
<1>1. PICK n \in Nat : n = Len(s.above)
  BY PaperIs
<1>2. s.row \in Rows /\ s.row \in Nat /\ s.row + 1 <= Height
  BY Fields, SizesC DEF Rows
<1>3. n + s.row + 1 \in 1 .. n + Height /\ (n + s.row + 1 = n + Height <=> s.row + 1 = Height)
  BY <1>2, SizesC
<1>4. QED
  BY <1>1, <1>2, <1>3, PaperIs DEF LineOf

(* A cell written on the screen is written on the paper.                   *)
LEMMA PaperWritten ==
  ASSUME NEW s \in State, NEW k \in Columns, NEW c \in Cell, NEW t \in State,
         t.above = s.above,
         t.cells = [s.cells EXCEPT ![s.row][k] = c]
  PROVE  Paper(t) = [Paper(s) EXCEPT ![LineOf(s)][k] = c]
<1> DEFINE typed == [s.cells[s.row] EXCEPT ![k] = c]
           p     == [Paper(s) EXCEPT ![LineOf(s)] = typed]
<1>1. s.row \in Rows /\ s.cells \in [Rows -> Lines]
  BY Fields
<1>2. s.cells[s.row] \in Lines
  BY <1>1
<1>3. typed \in Lines
  BY <1>2 DEF Lines
<1>4. t.cells = [s.cells EXCEPT ![s.row] = typed]
  BY <1>1
<1>5. \A y \in Rows : t.cells[y] = IF y = s.row THEN typed ELSE s.cells[y]
  BY <1>1, <1>4
<1>6. [Paper(s) EXCEPT ![LineOf(s)][k] = c] = p
  BY LineIs
<1> HIDE DEF typed
<1>7. /\ p \in Seq(Lines) /\ Len(p) = Len(Paper(s))
      /\ \A j \in 1 .. Len(Paper(s)) : p[j] = IF j = LineOf(s) THEN typed ELSE Paper(s)[j]
  BY <1>3, PaperIs, LineIs, ExceptSeq
<1> HIDE DEF p
<1>8. ASSUME NEW i \in 1 .. Len(Paper(t)) PROVE Paper(t)[i] = p[i]
  <2>1. PICK n \in Nat : n = Len(s.above)
    BY PaperIs
  <2>2. i \in 1 .. n + Height /\ Len(Paper(s)) = n + Height
    BY <2>1, PaperIs
  <2>3. CASE i \in 1 .. n
    <3>1. Paper(t)[i] = s.above[i] /\ Paper(s)[i] = s.above[i]
      BY <2>1, <2>3, PaperIs
    <3>2. s.row \in Nat
      BY <1>1 DEF Rows
    <3>3. i # n + s.row + 1
      BY <2>3, <3>2
    <3>4. i # LineOf(s)
      BY <2>1, <3>3 DEF LineOf
    <3>5. QED
      BY <1>7, <2>2, <3>1, <3>4
  <2>4. CASE i - n - 1 \in Rows /\ i = n + (i - n - 1) + 1
    <3>1. PICK y \in Rows : i = n + y + 1
      BY <2>4
    <3>2. Paper(t)[i] = t.cells[y] /\ Paper(s)[i] = s.cells[y]
      BY <2>1, <3>1, PaperIs
    <3>3. y \in Nat /\ s.row \in Nat
      BY <1>1 DEF Rows
    <3>4. i = n + s.row + 1 <=> y = s.row
      BY <3>1, <3>3
    <3>5. i = LineOf(s) <=> y = s.row
      BY <2>1, <3>4 DEF LineOf
    <3>6. QED
      BY <1>5, <1>7, <2>2, <3>2, <3>5
  <2>5. QED
    BY <2>2, <2>3, <2>4, AboveOrShown
<1>9. Paper(t) \in Seq(Lines) /\ Len(Paper(t)) = Len(p)
  BY <1>7, PaperIs
<1>10. QED
  BY <1>6, <1>7, <1>8, <1>9, SeqEqual
LEMMA ScrollIs ==
  ASSUME NEW s \in State
  PROVE  /\ Scroll(s) \in State
         /\ Scroll(s).above = Append(s.above, s.cells[0])
         /\ Scroll(s).color = s.color
         /\ \A y \in Rows :
              Scroll(s).cells[y] = IF y < Height - 1 THEN s.cells[y + 1] ELSE BlankLine(s.color)
<1> DEFINE up == [y \in Rows |-> IF y < Height - 1 THEN s.cells[y + 1] ELSE BlankLine(s.color)]
<1>1. Scroll(s) = [s EXCEPT !.cells = up, !.above = Append(s.above, s.cells[0])]
  BY DEF Scroll
<1>2. \A y \in Rows : up[y] = IF y < Height - 1 THEN s.cells[y + 1] ELSE BlankLine(s.color)
  OBVIOUS
<1> HIDE DEF up
<1>3. /\ Scroll(s).above = Append(s.above, s.cells[0]) /\ Scroll(s).color = s.color
      /\ Scroll(s).cells = up
  BY <1>1 DEF State
<1>4. QED
  BY <1>2, <1>3, ScrollType

(* Scrolling pulls out one blank line and moves no other.                  *)
LEMMA Scrolled ==
  ASSUME NEW s \in State
  PROVE  Paper(Scroll(s)) = Append(Paper(s), BlankLine(s.color))
<1>1. PICK t \in State : t = Scroll(s)
  BY ScrollIs
<1>2. PICK n \in Nat : n = Len(s.above)
  BY PaperIs
<1>3. s.cells[0] \in Lines /\ s.above \in Seq(Lines)
  BY Fields, Corner
<1>4. /\ Len(t.above) = n + 1 /\ t.above[n + 1] = s.cells[0]
      /\ \A i \in 1 .. n : t.above[i] = s.above[i]
  BY <1>1, <1>2, <1>3, ScrollIs, AppendProperties
<1>5. BlankLine(s.color) \in Lines
  BY Fields, BlankType
<1>6. PICK p : p = Append(Paper(s), BlankLine(s.color))
  OBVIOUS
<1>7. Paper(s) \in Seq(Lines) /\ Len(Paper(s)) = n + Height
  BY <1>2, PaperIs
<1>8. /\ p \in Seq(Lines) /\ Len(p) = Len(Paper(s)) + 1
      /\ \A i \in 1 .. Len(Paper(s)) : p[i] = Paper(s)[i]
      /\ p[Len(Paper(s)) + 1] = BlankLine(s.color)
  BY <1>5, <1>6, <1>7, AppendProperties
<1>9. Paper(t) \in Seq(Lines) /\ Len(Paper(t)) = (n + 1) + Height
  BY <1>4, PaperIs
<1>10. ASSUME NEW i \in 1 .. (n + 1) + Height PROVE Paper(t)[i] = p[i]
  <2>1. CASE i \in 1 .. n
    <3>1. i \in 1 .. n + 1 /\ i \in 1 .. n + Height
      BY <2>1, SizesC
    <3>2. Paper(t)[i] = t.above[i] /\ Paper(s)[i] = s.above[i]
      BY <1>2, <1>4, <2>1, <3>1, PaperIs
    <3>3. QED
      BY <1>4, <1>7, <1>8, <2>1, <3>1, <3>2
  <2>2. CASE i = n + 1
    <3>1. i \in 1 .. n + 1 /\ i \in 1 .. n + Height /\ i = n + 0 + 1
      BY <2>2, SizesC
    <3>2. Paper(t)[i] = s.cells[0]
      BY <1>4, <2>2, <3>1, PaperIs
    <3>3. Paper(s)[i] = s.cells[0]
      BY <1>2, <3>1, Corner, PaperIs
    <3>4. QED
      BY <1>7, <1>8, <3>1, <3>2, <3>3
  <2>3. CASE i - (n + 1) - 1 \in Rows /\ i = (n + 1) + (i - (n + 1) - 1) + 1
    <3>1. PICK y \in Rows : i = (n + 1) + y + 1
      BY <2>3
    <3>2. Paper(t)[i] = t.cells[y]
      BY <1>4, <3>1, PaperIs
    <3>3. CASE y < Height - 1
      <4>1. y + 1 \in Rows /\ i = n + (y + 1) + 1 /\ i \in 1 .. n + Height
        BY <3>1, <3>3, SizesC DEF Rows
      <4>2. t.cells[y] = s.cells[y + 1]
        BY <1>1, <3>3, ScrollIs
      <4>3. Paper(s)[i] = s.cells[y + 1]
        BY <1>2, <4>1, PaperIs
      <4>4. QED
        BY <1>7, <1>8, <3>2, <4>1, <4>2, <4>3
    <3>4. CASE ~(y < Height - 1)
      <4>1. i = n + Height + 1
        BY <3>1, <3>4, SizesC DEF Rows
      <4>2. t.cells[y] = BlankLine(s.color)
        BY <1>1, <3>4, ScrollIs
      <4>3. QED
        BY <1>7, <1>8, <3>2, <4>1, <4>2
    <3>5. QED
      BY <3>3, <3>4
  <2>4. i \in 1 .. n + 1 => i \in 1 .. n \/ i = n + 1
    OBVIOUS
  <2>5. QED
    BY <2>1, <2>2, <2>3, <2>4, AboveOrShown
<1>11. Len(Paper(t)) = Len(p)
  BY <1>7, <1>8, <1>9, SizesC
<1>12. Paper(t) = p
  BY <1>8, <1>9, <1>10, <1>11, SeqEqual
<1>13. QED
  BY <1>1, <1>6, <1>12

(* The lines above and the cells are all that the paper depends on.        *)
LEMMA SamePaper ==
  ASSUME NEW s, NEW t, t.above = s.above, t.cells = s.cells
  PROVE  Paper(t) = Paper(s)
  BY DEF Paper

(* The end of a line: the carriage goes to the next one, and a blank one   *)
(* is pulled out if there is none.                                         *)
LEMMA Fed ==
  ASSUME NEW s \in State
  PROVE  LET t == NextLine(s)
         IN  /\ t.column = 0 /\ t.color = s.color
             /\ LineOf(t) = LineOf(s) + 1
             /\ Paper(t) = IF LineOf(s) = Len(Paper(s))
                           THEN Append(Paper(s), BlankLine(s.color)) ELSE Paper(s)
<1>1. PICK t \in State : t = NextLine(s)
  BY NextLineType
<1>2. PICK n \in Nat : n = Len(s.above)
  BY PaperIs
<1>3. CASE s.row + 1 = Height
  <2>1. PICK u \in State : u = Scroll(s)
    BY ScrollIs
  <2>2. t = [u EXCEPT !.column = 0, !.row = Height - 1]
    BY <1>1, <1>3, <2>1 DEF NextLine
  <2>3. /\ t.column = 0 /\ t.row = Height - 1 /\ t.above = u.above /\ t.cells = u.cells
        /\ t.color = u.color
    BY <2>2 DEF State
  <2>4. u.color = s.color /\ u.above = Append(s.above, s.cells[0])
    BY <2>1, ScrollIs
  <2>5. Len(t.above) = n + 1
    BY <1>2, <2>3, <2>4, Fields, Corner, AppendProperties
  <2>6. s.row \in Nat
    BY Fields DEF Rows
  <2>7. (n + 1) + (Height - 1) + 1 = n + s.row + 1 + 1
    BY <1>3, <2>6, SizesC
  <2>8. LineOf(t) = LineOf(s) + 1
    BY <1>2, <2>3, <2>5, <2>7 DEF LineOf
  <2>9. Paper(t) = Append(Paper(s), BlankLine(s.color))
    BY <2>1, <2>3, Scrolled, SamePaper
  <2>10. LineOf(s) = Len(Paper(s))
    BY <1>3, LineIs
  <2>11. QED
    BY <1>1, <2>3, <2>4, <2>8, <2>9, <2>10
<1>4. CASE s.row + 1 # Height
  <2>1. t = [s EXCEPT !.column = 0, !.row = s.row + 1]
    BY <1>1, <1>4 DEF NextLine
  <2>2. /\ t.column = 0 /\ t.row = s.row + 1 /\ t.above = s.above /\ t.cells = s.cells
        /\ t.color = s.color
    BY <2>1 DEF State
  <2>3. s.row \in Nat
    BY Fields DEF Rows
  <2>4. n + (s.row + 1) + 1 = n + s.row + 1 + 1
    BY <2>3
  <2>5. LineOf(t) = LineOf(s) + 1
    BY <1>2, <2>2, <2>4 DEF LineOf
  <2>6. Paper(t) = Paper(s) /\ LineOf(s) # Len(Paper(s))
    BY <1>4, <2>2, LineIs, SamePaper
  <2>7. QED
    BY <1>1, <2>2, <2>5, <2>6
<1>5. QED
  BY <1>3, <1>4
CellsWith(s, k, c) == [s.cells EXCEPT ![s.row][k] = c]
PaperWith(s, k, c) == [Paper(s) EXCEPT ![LineOf(s)][k] = c]

LEMMA PaperOf ==
  ASSUME NEW s \in State, NEW k \in Columns, NEW c \in Cell, NEW t \in State,
         t.above = s.above, t.cells = CellsWith(s, k, c)
  PROVE  Paper(t) = PaperWith(s, k, c)
  BY PaperWritten DEF CellsWith, PaperWith

LEMMA NextStop ==
  ASSUME NEW a \in Nat, NEW n \in Nat \ {0}
  PROVE  (a + n) \div n = a \div n + 1
  OBVIOUS

(* The calls of Console as what Teletype does.                             *)
LEMMA Feeds ==
  ASSUME NEW t \in State, scr' = NextLine(t),
         t.color = scr.color, LineOf(t) = LineOf(scr), Len(Paper(t)) = Len(Paper(scr))
  PROVE  Printer!Feed(Paper(t))
<1>1. /\ scr'.column = 0 /\ scr'.color = scr.color /\ LineOf(scr') = LineOf(scr) + 1
      /\ Paper(scr') = IF LineOf(t) = Len(Paper(t))
                       THEN Append(Paper(t), BlankLine(scr.color)) ELSE Paper(t)
  BY Fed
<1>2. BlankLine(scr.color) = Printer!Blank
  BY DEF BlankLine, Entry, Columns, Printer!Blank
<1>3. QED
  BY <1>1, <1>2 DEF Printer!Feed, LineOf

LEMMA LastColumn ==
  ASSUME NEW k \in Columns
  PROVE  IF k + 1 = Width THEN k = Width - 1 ELSE k < Width - 1 /\ k + 1 \in Columns
  BY SizesC DEF Columns

LEMMA Types ==
  ASSUME scr \in State, NEW c \in Glyphs \cup {" "}, scr' = PutChar(scr, c)
  PROVE  Printer!Type(c)
<1> DEFINE put == [scr EXCEPT !.cells[scr.row][scr.column] = Entry(c, scr.color)]
<1>1. Entry(c, scr.color) \in Cell /\ Entry(c, scr.color) = <<c, scr.color>>
  BY Fields DEF Entry, Cell
<1>2. [scr.cells EXCEPT ![scr.row][scr.column] = Entry(c, scr.color)] \in [Rows -> Lines]
  BY <1>1, Fields, CellWritten
<1>3. put = [scr EXCEPT !.cells = [scr.cells EXCEPT ![scr.row][scr.column] = Entry(c, scr.color)]]
  BY DEF State
<1>4. put \in State
  BY <1>2, <1>3 DEF State
<1>5. c \notin {"NL", "CR", "HT", "BS"}
  BY ConsoleAssumption
<1>6. scr' = IF scr.column + 1 = Width THEN NextLine(put)
             ELSE [put EXCEPT !.column = scr.column + 1]
  BY <1>5 DEF PutChar
<1>7. /\ put.row = scr.row /\ put.column = scr.column /\ put.color = scr.color
      /\ put.above = scr.above
      /\ put.cells = [scr.cells EXCEPT ![scr.row][scr.column] = Entry(c, scr.color)]
  BY <1>3 DEF State
<1> HIDE DEF put
<1>8. PICK t \in State : t = put
  BY <1>4
<1>9. scr.column \in Columns
  BY Fields
<1>10. PICK p : p = [Paper(scr) EXCEPT ![LineOf(scr)][scr.column] = <<c, scr.color>>]
  OBVIOUS
<1>11. Paper(t) = p
  <2>1. PICK e \in Cell : e = Entry(c, scr.color)
    BY <1>1
  <2>2. PICK k \in Columns : k = scr.column
    BY <1>9
  <2>3. t.above = scr.above /\ t.cells = CellsWith(scr, k, e)
    BY <1>7, <1>8, <2>1, <2>2 DEF CellsWith
  <2>4. Paper(t) = PaperWith(scr, k, e)
    BY <2>3, PaperOf
  <2>5. e = <<c, scr.color>>
    BY <1>1, <2>1
  <2>6. QED
    BY <1>10, <2>2, <2>4, <2>5 DEF PaperWith
<1>12. LineOf(t) = LineOf(scr) /\ Len(Paper(t)) = Len(Paper(scr))
  BY <1>7, <1>8, PaperIs DEF LineOf
<1>13. CASE scr.column + 1 = Width
  <2>1. Printer!Feed(Paper(t))
    BY <1>6, <1>7, <1>8, <1>12, <1>13, Feeds
  <2>2. scr.column = Width - 1
    BY <1>9, <1>13, LastColumn
  <2>3. QED
    BY <1>10, <1>11, <2>1, <2>2 DEF Printer!Type, LineOf
<1>14. CASE scr.column + 1 # Width
  <2>1. scr.column < Width - 1 /\ scr.column + 1 \in Columns
    BY <1>9, <1>14, LastColumn
  <2>2. PICK k \in Columns : k = scr.column + 1
    BY <2>1
  <2>3. scr' = [t EXCEPT !.column = k]
    BY <1>6, <1>8, <1>14, <2>2
  <2>4. /\ scr'.column = k /\ scr'.color = scr.color /\ scr'.row = scr.row
        /\ scr'.above = t.above /\ scr'.cells = t.cells /\ scr'.above = scr.above
    BY <1>7, <1>8, <2>3 DEF State
  <2>5. Paper(scr') = p
    BY <1>11, <2>4, SamePaper
  <2>6. QED
    BY <1>10, <2>1, <2>2, <2>4, <2>5 DEF Printer!Type, LineOf
<1>15. QED
  BY <1>13, <1>14

LEMMA BacksUp ==
  ASSUME scr \in State, scr' = PutChar(scr, "BS"), scr.column # 0
  PROVE  Printer!BackSpace
<1> DEFINE back == [scr EXCEPT !.column = scr.column - 1,
                               !.cells[scr.row][scr.column - 1] = Entry(" ", scr.color)]
<1>1. PICK k \in Columns : k = scr.column - 1
  <2>1. PICK m \in 0 .. Width - 1 : m = scr.column
    BY Fields DEF Columns
  <2>2. m - 1 \in 0 .. Width - 1
    BY <2>1, SizesC
  <2>3. QED
    BY <2>1, <2>2 DEF Columns
<1>2. Entry(" ", scr.color) \in Cell /\ Entry(" ", scr.color) = <<" ", scr.color>>
  BY Fields DEF Entry, Cell
<1>3. [scr.cells EXCEPT ![scr.row][k] = Entry(" ", scr.color)] \in [Rows -> Lines]
  BY <1>2, Fields, CellWritten
<1>4. scr' = back
  BY DEF PutChar
<1>5. back = [scr EXCEPT !.column = k,
                         !.cells = [scr.cells EXCEPT ![scr.row][k] = Entry(" ", scr.color)]]
  BY <1>1 DEF State
<1> HIDE DEF back
<1>6. back \in State
  BY <1>3, <1>5 DEF State
<1>7. /\ back.row = scr.row /\ back.column = k /\ back.color = scr.color
      /\ back.above = scr.above
      /\ back.cells = [scr.cells EXCEPT ![scr.row][k] = Entry(" ", scr.color)]
  BY <1>5 DEF State
<1>8. PICK t \in State : t = back
  BY <1>6
<1>9. Paper(t) = [Paper(scr) EXCEPT ![LineOf(scr)][k] = <<" ", scr.color>>]
  <2>1. PICK e \in Cell : e = Entry(" ", scr.color)
    BY <1>2
  <2>2. t.above = scr.above /\ t.cells = CellsWith(scr, k, e)
    BY <1>7, <1>8, <2>1 DEF CellsWith
  <2>3. Paper(t) = PaperWith(scr, k, e)
    BY <2>2, PaperOf
  <2>4. e = <<" ", scr.color>>
    BY <1>2, <2>1
  <2>5. QED
    BY <2>3, <2>4 DEF PaperWith
<1>10. scr.column > 0
  BY Fields, SizesC DEF Columns
<1>11. QED
  BY <1>1, <1>4, <1>7, <1>8, <1>9, <1>10 DEF Printer!BackSpace, LineOf

LEMMA Prints ==
  ASSUME scr \in State, NEW c \in Chars, scr' = PutChar(scr, c)
  PROVE  Printer!PNext \/ scr' = scr
<1>1. CASE c = "NL"
  <2>1. scr' = NextLine(scr)
    BY <1>1 DEF PutChar
  <2>2. Printer!Feed(Paper(scr))
    BY <2>1, Feeds
  <2>3. QED
    BY <2>2 DEF Printer!NewLine, Printer!PNext
<1>2. CASE c = "CR"
  <2>1. scr' = [scr EXCEPT !.column = 0]
    BY <1>2 DEF PutChar
  <2>2. /\ scr'.column = 0 /\ scr'.row = scr.row /\ scr'.above = scr.above
        /\ scr'.cells = scr.cells /\ scr'.color = scr.color
    BY <2>1 DEF State
  <2>3. QED
    BY <2>2, SamePaper DEF Printer!Move, Printer!Return, Printer!PNext
<1>3. CASE c = "HT"
  <2>1. scr.column \in Nat
    BY Fields DEF Columns
  <2>2. (scr.column + TabStop) \div TabStop = scr.column \div TabStop + 1
    BY <2>1, SizesC, NextStop
  <2>3. PICK k : k = (scr.column \div TabStop + 1) * TabStop
    OBVIOUS
  <2>4. TabTo(scr) = k
    BY <2>2, <2>3 DEF TabTo
  <2>5. k \in Nat
    BY <2>4, TabNat
  <2>6. CASE k >= Width
    <3>1. scr' = NextLine(scr)
      BY <1>3, <2>4, <2>6 DEF PutChar
    <3>2. Printer!Feed(Paper(scr))
      BY <3>1, Feeds
    <3>3. ~(k < Width)
      BY <2>5, <2>6, SizesC
    <3>4. QED
      BY <2>3, <3>2, <3>3 DEF Printer!Tab, Printer!PNext
  <2>7. CASE ~(k >= Width)
    <3>1. k < Width
      BY <2>5, <2>7, SizesC
    <3>2. scr' = [scr EXCEPT !.column = k]
      BY <1>3, <2>4, <2>7 DEF PutChar
    <3>3. /\ scr'.column = k /\ scr'.row = scr.row /\ scr'.above = scr.above
          /\ scr'.cells = scr.cells /\ scr'.color = scr.color
      BY <3>2 DEF State
    <3>4. QED
      BY <2>3, <3>1, <3>3, SamePaper DEF Printer!Move, Printer!Tab, Printer!PNext
  <2>8. QED
    BY <2>6, <2>7
<1>4. CASE c = "BS"
  <2>1. CASE scr.column = 0
    BY <1>4, <2>1 DEF PutChar
  <2>2. CASE scr.column # 0
    BY <1>4, <2>2, BacksUp DEF Printer!PNext
  <2>3. QED
    BY <2>1, <2>2
<1>5. CASE c \in Glyphs \cup {" "}
  BY <1>5, Types DEF Printer!PNext
<1>6. QED
  BY <1>1, <1>2, <1>3, <1>4, <1>5 DEF Chars

(* An empty screen is a fresh paper.                                       *)
LEMMA Fresh ==
  ASSUME NEW s \in State, s.above = <<>>, s.cells = [y \in Rows |-> BlankLine(s.color)]
  PROVE  Paper(s) = [n \in 1 .. Height |-> [x \in 0 .. Width - 1 |-> <<" ", s.color>>]]
<1>1. PICK blank : blank = BlankLine(s.color)
  OBVIOUS
<1>2. blank = [x \in 0 .. Width - 1 |-> <<" ", s.color>>]
  BY <1>1 DEF BlankLine, Entry, Columns
<1> DEFINE p == [n \in 1 .. Height |-> blank]
<1>3. p \in Seq(Lines) /\ Len(p) = Height /\ \A n \in 1 .. Height : p[n] = blank
  <2>1. blank \in Lines
    BY <1>1, Fields, BlankType
  <2>2. QED
    BY <2>1, SizesC
<1> HIDE DEF p
<1>4. Len(s.above) = 0
  BY EmptySeq
<1>5. Paper(s) \in Seq(Lines) /\ Len(Paper(s)) = Height
  BY <1>4, PaperIs, SizesC
<1>6. ASSUME NEW i \in 1 .. Height PROVE Paper(s)[i] = p[i]
  <2>1. i - 1 \in Rows /\ 0 + (i - 1) + 1 = i
    BY SizesC DEF Rows
  <2>2. PICK y \in Rows : 0 + y + 1 = i
    BY <2>1
  <2>3. Paper(s)[i] = s.cells[y]
    BY <1>4, <2>2, PaperIs
  <2>4. QED
    BY <1>1, <1>3, <2>3
<1>7. Paper(s) = p
  BY <1>3, <1>5, <1>6, SeqEqual
<1>8. QED
  BY <1>2, <1>7 DEF p

LEMMA ClearedIs ==
  ASSUME NEW s \in State
  PROVE  /\ Cleared(s) \in State /\ Cleared(s).above = <<>>
         /\ Cleared(s).row = 0 /\ Cleared(s).column = 0 /\ Cleared(s).color = s.color
         /\ Cleared(s).cells = [y \in Rows |-> BlankLine(s.color)]
<1> DEFINE blank == [y \in Rows |-> BlankLine(s.color)]
<1>1. Cleared(s) = [s EXCEPT !.cells = blank, !.row = 0, !.column = 0, !.above = <<>>]
  BY DEF Cleared
<1> HIDE DEF blank
<1>2. /\ Cleared(s).above = <<>> /\ Cleared(s).cells = blank
      /\ Cleared(s).row = 0 /\ Cleared(s).column = 0 /\ Cleared(s).color = s.color
  BY <1>1 DEF State
<1>3. Cleared(s) \in State
  BY Fields, ClearedType DEF State
<1>4. QED
  BY <1>2, <1>3 DEF blank

LEMMA FreshPaper ==
  ASSUME NEW s \in State
  PROVE  /\ Paper(Cleared(s)) = [n \in 1 .. Height |-> [x \in 0 .. Width - 1 |-> <<" ", s.color>>]]
         /\ LineOf(Cleared(s)) = 1
<1>1. PICK t : t = Cleared(s)
  OBVIOUS
<1>2. /\ t \in State /\ t.above = <<>> /\ t.row = 0 /\ t.color = s.color
      /\ t.cells = [y \in Rows |-> BlankLine(s.color)]
  BY <1>1, ClearedIs
<1>3. Len(t.above) = 0
  BY <1>2, EmptySeq
<1>4. LineOf(t) = 1
  BY <1>2, <1>3 DEF LineOf
<1>5. t.cells = [y \in Rows |-> BlankLine(t.color)]
  BY <1>2
<1>6. Paper(t) = [n \in 1 .. Height |-> [x \in 0 .. Width - 1 |-> <<" ", t.color>>]]
  BY <1>2, <1>5, Fresh
<1>7. Paper(t) = [n \in 1 .. Height |-> [x \in 0 .. Width - 1 |-> <<" ", s.color>>]]
  BY ONLY <1>2, <1>6
<1>8. QED
  BY ONLY <1>1, <1>4, <1>7
LEMMA PrinterInit == CInit => Printer!PInit
<1> SUFFICES ASSUME CInit PROVE Printer!PInit
  OBVIOUS
<1>1. PICK raw \in State : raw.color = FirstColor /\ FirstScreen = Cleared(raw)
  BY FirstIs
<1>2. scr = Cleared(raw)
  BY <1>1 DEF CInit
<1>3. /\ Paper(scr) = [n \in 1 .. Height |-> [x \in 0 .. Width - 1 |-> <<" ", raw.color>>]]
      /\ LineOf(scr) = 1
  BY <1>2, FreshPaper
<1>4. scr.column = 0 /\ scr.color = FirstColor
  BY <1>1, <1>2, ClearedIs
<1>5. Printer!Blank = [x \in 0 .. Width - 1 |-> <<" ", raw.color>>]
  BY <1>1, <1>4 DEF Printer!Blank
<1>6. QED
  BY <1>3, <1>4, <1>5 DEF Printer!PInit, LineOf

LEMMA PrinterStep ==
  ASSUME scr \in State, CNext
  PROVE  Printer!PNext \/ scr' = scr
<1>1. CASE \E c \in Chars : scr' = PutChar(scr, c)
  BY <1>1, Prints
<1>2. CASE scr' = Cleared(scr)
  <2>1. /\ Paper(scr') = [n \in 1 .. Height |-> [x \in 0 .. Width - 1 |-> <<" ", scr.color>>]]
        /\ LineOf(scr') = 1
    BY <1>2, FreshPaper
  <2>2. scr'.column = 0 /\ scr'.color = scr.color
    BY <1>2, ClearedIs
  <2>3. Printer!Blank = [x \in 0 .. Width - 1 |-> <<" ", scr.color>>]
    BY DEF Printer!Blank
  <2>4. Printer!Tear
    BY <2>1, <2>2, <2>3 DEF Printer!Tear, LineOf
  <2>5. QED
    BY <2>4 DEF Printer!PNext
<1>3. CASE \E color \in Colors : scr' = SetColor(scr, color)
  <2>1. PICK color \in Colors : scr' = [scr EXCEPT !.color = color]
    BY <1>3 DEF SetColor
  <2>2. /\ scr'.column = scr.column /\ scr'.row = scr.row /\ scr'.above = scr.above
        /\ scr'.cells = scr.cells /\ scr'.color = color
    BY <2>1 DEF State
  <2>3. Printer!Ink(color)
    BY <2>2, SamePaper DEF Printer!Ink
  <2>4. QED
    BY <2>3 DEF Printer!PNext
<1>4. CASE \E row \in 0 .. Height, col \in 0 .. Width : scr' = SetCursor(scr, row, col)
  <2>1. PICK row \in 0 .. Height, col \in 0 .. Width : scr' = SetCursor(scr, row, col)
    BY <1>4
  <2>2. CASE row < Height /\ col < Width
    <3>1. scr' = [scr EXCEPT !.row = row, !.column = col]
      BY <2>1, <2>2 DEF SetCursor
    <3>2. /\ scr'.column = col /\ scr'.row = row /\ scr'.above = scr.above
          /\ scr'.cells = scr.cells /\ scr'.color = scr.color
      BY <3>1 DEF State
    <3>3. PICK n \in Nat : n = Len(scr.above)
      BY PaperIs
    <3>4. n + row + 1 \in (n + Height) - Height + 1 .. n + Height
      BY <2>2, SizesC
    <3>5. LineOf(scr') \in Len(Paper(scr)) - Height + 1 .. Len(Paper(scr))
      BY <3>2, <3>3, <3>4, PaperIs DEF LineOf
    <3>6. col \in 0 .. Width - 1
      BY <2>2, SizesC
    <3>7. Printer!Place
      BY <3>2, <3>5, <3>6, SamePaper DEF Printer!Place, LineOf
    <3>8. QED
      BY <3>7 DEF Printer!PNext
  <2>3. CASE ~(row < Height /\ col < Width)
    BY <2>1, <2>3 DEF SetCursor
  <2>4. QED
    BY <2>2, <2>3
<1>5. QED
  BY <1>1, <1>2, <1>3, <1>4 DEF CNext

(* The console is the window on a roll of paper that Teletype describes,   *)
(* for every size of the screen and distance of the tab stops: no line is  *)
(* lost, repeated or moved by console_scroll, and the cursor is where the  *)
(* carriage is (console.c:105-187).                                        *)
THEOREM ConsolePrints == CSpec => PrinterSpec
<1>1. CInv /\ [CNext]_scr => [Printer!PNext]_(Printer!pvars)
  <2> SUFFICES ASSUME CInv, [CNext]_scr PROVE [Printer!PNext]_(Printer!pvars)
    OBVIOUS
  <2>1. CASE CNext
    <3>1. Printer!PNext \/ scr' = scr
      BY <2>1, PrinterStep DEF CInv
    <3>2. QED
      BY <3>1 DEF Printer!pvars
  <2>2. CASE scr' = scr
    BY <2>2 DEF Printer!pvars
  <2>3. QED
    BY <2>1, <2>2
<1>2. QED
  BY <1>1, PrinterInit, ScreenInit, ScreenNext, PTL DEF CSpec, PrinterSpec, Printer!PSpec

-----------------------------------------------------------------------------
(* keyboard_get_line between the two.                                      *)
Printed == Glyphs \cup {" "}

(* The keyboard sees of the terminal only its own operations.              *)
LEMMA TerminalKeys == [TNext]_tvars => [KNext]_kvars
<1> SUFFICES ASSUME [TNext]_tvars PROVE [KNext]_kvars
  OBVIOUS
<1>1. CASE UNCHANGED tvars
  BY <1>1 DEF tvars
<1>2. CASE KeyPressed
  BY <1>2 DEF KeyPressed, KNext
<1>3. CASE ClearScreen
  BY <1>3 DEF ClearScreen
<1>4. CASE GetLine
  BY <1>4 DEF GetLine, PollForKey, TakeKey, FillLine, KNext
<1>5. CASE \E n \in Prompts, g \in Glyphs, s \in LineSizes : StartLine(n, g, s)
  BY <1>5 DEF StartLine
<1>6. QED
  BY <1>1, <1>2, <1>3, <1>4, <1>5 DEF TNext

LEMMA TerminalRing == TSpec => KSpec
<1>1. TInit => KInit
  BY DEF TInit
<1>2. QED
  BY <1>1, TerminalKeys, PTL DEF TSpec, KSpec

(* Under keyboard_get_line the ring still is a queue of the keys, in the   *)
(* order in which they were pressed.                                       *)
THEOREM TerminalQueue == TSpec => QueueSpec
  BY TerminalRing, RingIsAQueue, PTL

(* get_line polls only when the ring is empty, and an empty ring has room  *)
(* for a key (keyboard.c:99, 140-142), if it has two places at all.        *)
LEMMA PolledIsKept ==
  ASSUME RingSize > 1, KTypeOK, KTypeOK', [TNext]_tvars, Len(port') < Len(port),
         Head(port) \in Keys
  PROVE  Waiting' = Append(Waiting, Head(port))
<1>1. CASE PollForKey
  <2>1. ~Available /\ Poll
    BY <1>1 DEF PollForKey
  <2>2. Held \in Nat /\ Waiting \in Seq(Keys \cup {"none"}) /\ Len(Waiting) = Held
    BY WaitingIs DEF WaitingShape
  <2>3. head = tail
    BY <2>1 DEF Available
  <2>4. Held = 0
    BY <2>3 DEF Held, KTypeOK
  <2>5. Len(Waiting) < RingSize - 1
    BY <2>2, <2>4, RingNat
  <2>6. Queue!Accept
    BY <2>1, AcceptsOne
  <2>7. QED
    BY <2>5, <2>6 DEF Queue!Accept
<1>2. port \in Seq(Scancodes) /\ Len(port) \in Nat
  BY LenProperties DEF KTypeOK
<1>3. CASE port' = port
  BY <1>2, <1>3
<1>4. ASSUME NEW code \in Scancodes, Press(code) PROVE FALSE
  <2>1. Len(port') = Len(port) + 1
    BY <1>2, <1>4, AppendProperties DEF Press
  <2>2. QED
    BY <1>2, <2>1
<1>5. QED
  BY <1>1, <1>3, <1>4
     DEF TNext, tvars, kvars, KeyPressed, ClearScreen, GetLine, TakeKey, FillLine, StartLine, Read

(* No key that the controller delivers is lost in the kernel.              *)
THEOREM NoKeyIsDropped == RingSize > 1 => (TSpec => NoKeyDropped)
<1>1. SUFFICES ASSUME RingSize > 1 PROVE TSpec => NoKeyDropped
  OBVIOUS
<1>2. KTypeOK /\ KTypeOK' /\ [TNext]_tvars
        => [Len(port') < Len(port) /\ Head(port) \in Keys
              => Waiting' = Append(Waiting, Head(port))]_tvars
  BY <1>1, PolledIsKept
<1>3. TSpec => []KTypeOK
  BY TerminalRing, RingTyped, PTL
<1>4. QED
  BY <1>2, <1>3, PTL DEF TSpec, NoKeyDropped

-----------------------------------------------------------------------------
(* Printing a prompt is well-founded: there is a function with the values  *)
(* of the recursion, so the one that Prompt names has them.                *)
LEMMA PromptExists ==
  ASSUME NEW base, NEW g, NEW n \in Nat
  PROVE  \E f : f = [k \in 0 .. n |-> IF k = 0 THEN base ELSE PutChar(f[k - 1], g)]
<1> DEFINE P == { m \in Nat :
                    \E f : f = [k \in 0 .. m |-> IF k = 0 THEN base ELSE PutChar(f[k - 1], g)] }
<1>1. 0 \in P
  <2> DEFINE f == [k \in 0 .. 0 |-> base]
  <2>1. f = [k \in 0 .. 0 |-> IF k = 0 THEN base ELSE PutChar(f[k - 1], g)]
    OBVIOUS
  <2>2. QED
    BY <2>1
<1>2. ASSUME NEW m \in P PROVE m + 1 \in P
  <2>1. m \in Nat
    OBVIOUS
  <2>2. PICK f : f = [k \in 0 .. m |-> IF k = 0 THEN base ELSE PutChar(f[k - 1], g)]
    OBVIOUS
  <2>3. \A k \in 0 .. m : f[k] = IF k = 0 THEN base ELSE PutChar(f[k - 1], g)
    BY <2>2
  <2> DEFINE h == [k \in 0 .. m + 1 |-> IF k = m + 1 THEN PutChar(f[m], g) ELSE f[k]]
  <2>4. ASSUME NEW k \in 0 .. m + 1
        PROVE  h[k] = IF k = 0 THEN base ELSE PutChar(h[k - 1], g)
    <3>1. CASE k = m + 1
      <4>1. h[k] = PutChar(f[m], g) /\ h[k - 1] = f[m] /\ k # 0
        BY <2>1, <3>1
      <4>2. QED
        BY <3>1, <4>1
    <3>2. CASE k = 0
      BY <2>1, <2>3, <3>2
    <3>3. CASE k # m + 1 /\ k # 0
      <4>1. h[k] = f[k] /\ h[k - 1] = f[k - 1] /\ k \in 0 .. m
        BY <2>1, <3>3
      <4>2. QED
        BY <2>3, <3>3, <4>1
    <3>4. QED
      BY <3>1, <3>2, <3>3
  <2>5. DOMAIN h = 0 .. m + 1 /\ h = [k \in 0 .. m + 1 |-> h[k]]
    OBVIOUS
  <2> HIDE DEF h
  <2>6. h = [k \in 0 .. m + 1 |-> IF k = 0 THEN base ELSE PutChar(h[k - 1], g)]
    BY <2>4, <2>5
  <2>7. QED
    BY <2>1, <2>6
<1>3. P \in SUBSET Nat
  OBVIOUS
<1> HIDE DEF P
<1>4. n \in P
  BY <1>1, <1>2, <1>3, NatInd
<1>5. QED
  BY <1>4 DEF P

LEMMA PromptType ==
  ASSUME scr \in State, NEW n \in Nat, NEW g \in Glyphs
  PROVE  Prompt(n, g) \in State
<1> DEFINE base == [scr EXCEPT !.above = <<>>]
           F == CHOOSE f : f = [k \in 0 .. n |-> IF k = 0 THEN base ELSE PutChar(f[k - 1], g)]
<1>1. base \in State
  BY EmptySeq DEF State
<1>2. Prompt(n, g) = F[n]
  BY DEF Prompt
<1> HIDE DEF base
<1>3. F = [k \in 0 .. n |-> IF k = 0 THEN base ELSE PutChar(F[k - 1], g)]
  BY PromptExists
<1> HIDE DEF F
<1>4. F[0] = base /\ \A k \in 1 .. n : F[k] = PutChar(F[k - 1], g)
  BY <1>3
<1> DEFINE P == { m \in Nat : m <= n => F[m] \in State }
<1>5. 0 \in P
  BY <1>1, <1>4
<1>6. ASSUME NEW m \in P PROVE m + 1 \in P
  <2>1. m \in Nat
    OBVIOUS
  <2>2. CASE m + 1 <= n
    <3>1. F[m] \in State /\ F[m + 1] = PutChar(F[m], g)
      BY <1>4, <2>1, <2>2
    <3>2. g \in Chars
      BY DEF Chars
    <3>3. QED
      BY <2>1, <3>1, <3>2, PutCharType
  <2>3. CASE ~(m + 1 <= n)
    BY <2>1, <2>3
  <2>4. QED
    BY <2>2, <2>3
<1>7. P \in SUBSET Nat
  OBVIOUS
<1> HIDE DEF P
<1>8. n \in P
  BY <1>5, <1>6, <1>7, NatInd
<1>9. QED
  BY <1>2, <1>8 DEF P

LEMMA CellNumber ==
  ASSUME NEW y \in Nat, NEW w \in Nat, NEW x \in Nat
  PROVE  y * w + x \in Nat
  OBVIOUS

LEMMA CursorNat ==
  ASSUME NEW s \in State
  PROVE  Cursor(s) \in Nat
<1>1. Len(s.above) \in Nat
  BY Fields, LenProperties
<1>2. s.row \in Nat /\ s.column \in Nat /\ Width \in Nat
  BY Fields, SizesC DEF Rows, Columns
<1>3. Len(s.above) + s.row \in Nat
  BY <1>1, <1>2
<1>4. QED
  BY <1>2, <1>3, CellNumber DEF Cursor

(* What a state of the terminal is made of.                                *)
TInv ==
  /\ scr \in State
  /\ size \in LineSizes \cup {0}
  /\ line \in Seq(Glyphs \cup {" "}) /\ (Reading => Len(line) < size)
  /\ start \in Nat /\ longest \in Nat /\ Len(line) <= longest

LEMMA LineShorter ==
  ASSUME NEW S, NEW s \in Seq(S), s # <<>>
  PROVE  /\ SubSeq(s, 1, Len(s) - 1) \in Seq(S)
         /\ Len(SubSeq(s, 1, Len(s) - 1)) = Len(s) - 1
<1>1. Len(s) \in Nat \ {0}
  BY EmptySeq
<1>2. PICK m \in Nat : m = Len(s) - 1
  BY <1>1
<1>3. \A i \in 1 .. m : i \in 1 .. Len(s)
  BY <1>1, <1>2
<1>4. \A i \in 1 .. m : s[i] \in S
  BY <1>3, ElementOfSeq
<1>5. /\ SubSeq(s, 1, m) \in Seq(S)
      /\ Len(SubSeq(s, 1, m)) = IF 1 <= m THEN m - 1 + 1 ELSE 0
  BY <1>4, SubSeqProperties
<1>6. (IF 1 <= m THEN m - 1 + 1 ELSE 0) = m
  OBVIOUS
<1>7. QED
  BY <1>2, <1>5, <1>6

LEMMA RoomForOne ==
  ASSUME NEW l \in Nat, NEW z \in Nat, l < z, l # z - 1
  PROVE  l + 1 < z /\ l - 1 < z
  OBVIOUS

LEMMA EraseType ==
  ASSUME NEW s \in State
  PROVE  Erase(s) \in State
<1>1. "BS" \in Chars /\ " " \in Chars
  BY DEF Chars
<1>2. QED
  BY <1>1, PutCharType DEF Erase

LEMMA Longer ==
  ASSUME NEW l \in Nat, NEW m \in Nat, NEW n, n = IF l > m THEN l ELSE m
  PROVE  n \in Nat /\ l <= n /\ m <= n /\ (l <= m => n = m)
  OBVIOUS

LEMMA TInvNext == TInv /\ [TNext]_tvars => TInv'
<1> SUFFICES ASSUME TInv, [TNext]_tvars PROVE TInv'
  OBVIOUS
<1>0. /\ scr \in State /\ size \in LineSizes \cup {0} /\ LineSizes \subseteq Nat \ {0}
      /\ line \in Seq(Glyphs \cup {" "}) /\ Len(line) \in Nat /\ start \in Nat
      /\ (size # 0 => Len(line) < size)
      /\ longest \in Nat /\ Len(line) <= longest
  BY TerminalAssumption, LenProperties DEF TInv, Reading
<1>1. CASE UNCHANGED <<scr, size, line, seen>>
  BY <1>1 DEF TInv, Reading, seen
<1>2. CASE ClearScreen
  <2>1. scr' \in State
    BY <1>0, <1>2, ClearedType, Fields DEF ClearScreen, State
  <2>2. QED
    BY <1>2, <2>1 DEF TInv, ClearScreen, Reading, seen
<1>3. ASSUME NEW n \in Prompts, NEW g \in Glyphs, NEW s \in LineSizes, StartLine(n, g, s)
      PROVE  TInv'
  <2>1. scr' \in State
    BY <1>0, <1>3, TerminalAssumption, PromptType DEF StartLine
  <2>2. start' \in Nat
    BY <1>3, <2>1, CursorNat DEF StartLine
  <2>3. line' \in Seq(Glyphs \cup {" "}) /\ Len(line') = 0 /\ longest' = 0
    BY <1>3, EmptySeq DEF StartLine
  <2>4. size' = s
    BY <1>3 DEF StartLine
  <2>5. s \in Nat \ {0}
    BY <1>0
  <2>6. 0 < s
    BY ONLY <2>5
  <2>7. longest' \in Nat /\ Len(line') <= longest' /\ Len(line') < size'
    BY ONLY <2>3, <2>4, <2>5, <2>6
  <2>8. size' \in LineSizes
    BY <2>4
  <2>9. QED
    BY <2>1, <2>2, <2>3, <2>7, <2>8 DEF TInv, Reading
<1>4. CASE EndLine(scr) /\ UNCHANGED <<line, seen>>
  <2>1. "NL" \in Chars
    BY DEF Chars
  <2>2. scr' \in State /\ size' = 0
    BY <1>0, <1>4, <2>1, PutCharType DEF EndLine
  <2>3. QED
    BY <1>0, <1>4, <2>2 DEF TInv, Reading, seen
<1>5. CASE TakeKey
  <2>1. Len(line) < size /\ Len(line) # size - 1 /\ size \in Nat
    BY <1>0, <1>5 DEF TakeKey, Reading, Full
  <2>0. start' = start /\ longest' = IF Len(line') > longest THEN Len(line') ELSE longest
    BY <1>5 DEF TakeKey, Measured
  <2>8. ASSUME Len(line') \in Nat PROVE longest' \in Nat /\ Len(line') <= longest'
    BY <1>0, <2>0, <2>8, Longer
  <2>10. Len(line) \in Nat /\ longest \in Nat /\ Len(line) <= longest
    BY <1>0
  <2>9. line' = line => longest' = longest
    BY ONLY <2>0, <2>10
  <2>2. CASE got' \in {"NL", "CR"} /\ EndLine(scr) /\ line' = line
    BY <1>4, <2>0, <2>2, <2>9 DEF seen
  <2>3. CASE line # <<>> /\ size' = size /\ scr' = Erase(scr)
             /\ line' = SubSeq(line, 1, Len(line) - 1)
    <3>1. line' \in Seq(Glyphs \cup {" "}) /\ Len(line') = Len(line) - 1
      BY <1>0, <2>3, LineShorter
    <3>4. Len(line') < size
      BY <1>0, <2>1, <3>1, RoomForOne
    <3>2. scr' \in State
      BY <1>0, <2>3, EraseType
    <3>5. Len(line') \in Nat
      BY <3>1, LenProperties
    <3>6. longest' \in Nat /\ Len(line') <= longest'
      BY <2>8, <3>5
    <3>3. QED
      BY <1>0, <2>0, <2>3, <3>1, <3>2, <3>4, <3>6 DEF TInv, Reading
  <2>4. CASE got' \in Glyphs \cup {" "} /\ size' = size
             /\ line' = Append(line, got') /\ scr' = PutChar(scr, got')
    <3>0. PICK c \in Printed : c = got'
      BY <2>4 DEF Printed
    <3>5. line \in Seq(Printed) /\ line' = Append(line, c)
      BY <1>0, <2>4, <3>0 DEF Printed
    <3>6. line' \in Seq(Printed) /\ Len(line') = Len(line) + 1
      BY <3>5, AppendProperties
    <3>1. line' \in Seq(Glyphs \cup {" "}) /\ Len(line') = Len(line) + 1
      BY <3>6 DEF Printed
    <3>2. got' \in Chars
      BY <2>4 DEF Chars
    <3>3. scr' \in State
      BY <1>0, <2>4, <3>2, PutCharType
    <3>4. Len(line') < size
      BY <1>0, <2>1, <3>1, RoomForOne
    <3>7. Len(line') \in Nat
      BY <3>1, LenProperties
    <3>8. longest' \in Nat /\ Len(line') <= longest'
      BY <2>8, <3>7
    <3>9. QED
      BY <1>0, <2>0, <2>4, <3>1, <3>3, <3>4, <3>8 DEF TInv, Reading
  <2>5. CASE UNCHANGED <<size, line, scr>>
    BY <1>0, <2>0, <2>5, <2>9 DEF TInv, Reading
  <2>6. QED
    BY <1>5, <2>2, <2>3, <2>4, <2>5 DEF TakeKey
<1>6. QED
  BY <1>1, <1>2, <1>3, <1>4, <1>5
     DEF TNext, tvars, KeyPressed, GetLine, PollForKey, FillLine

(* The line and its NUL fit in the caller's buffer, whatever its size, and *)
(* the echo, the erasures and the prompts leave the cursor on the screen   *)
(* (keyboard.c:130-169, with console_putchar).                             *)
THEOREM LineFits == TSpec => []TTypeOK
<1>1. TInit => TInv
  BY ScreenInit, EmptySeq DEF TInit, TInv, CInv, Reading
<1>2. TSpec => []TInv
  BY <1>1, TInvNext, PTL DEF TSpec
<1>3. TInv => CTypeOK
  <2> SUFFICES ASSUME TInv PROVE CTypeOK
    OBVIOUS
  <2>1. scr.row \in Rows /\ scr.column \in Columns /\ scr.color \in Colors
        /\ scr.cells \in [Rows -> Lines] /\ scr.above \in Seq(Lines)
    BY Fields DEF TInv
  <2>2. \A i \in 1 .. Len(scr.above) : scr.above[i] \in Lines
    BY <2>1, ElementOfSeq
  <2>3. QED
    BY <2>1, <2>2 DEF CTypeOK, Lines, Cell
<1>4. TInv /\ KTypeOK => TTypeOK
  BY <1>3 DEF TInv, TTypeOK
<1>5. TSpec => []KTypeOK
  BY TerminalRing, RingTyped, PTL
<1>6. QED
  BY <1>2, <1>4, <1>5, PTL

-----------------------------------------------------------------------------
(* The echo.  What a cell of the screen shows, and a screen on which       *)
(* nothing stands at the cursor or after it: there the shell prints its    *)
(* prompts and keyboard_get_line its echo.                                 *)
Mark(s, y, x) == s.cells[y][x][1]

Clean(s) ==
  \A y \in Rows, x \in Columns :
    y > s.row \/ (y = s.row /\ x >= s.column) => Mark(s, y, x) = " "

LEMMA RowFacts ==
  ASSUME NEW s \in State
  PROVE  /\ s.row \in Nat /\ s.row + 1 <= Height /\ s.column \in Nat /\ s.column + 1 <= Width
         /\ s.row \in Rows /\ s.column \in Columns /\ Height \in Nat /\ Width \in Nat
<1>1. s.row \in Rows /\ s.column \in Columns
  BY Fields
<1>2. ASSUME NEW k \in Columns PROVE k \in Nat /\ k + 1 <= Width
  BY SizesC DEF Columns
<1>3. ASSUME NEW k \in Rows PROVE k \in Nat /\ k + 1 <= Height
  BY SizesC DEF Rows
<1>4. QED
  BY <1>1, <1>2, <1>3, SizesC

LEMMA EntryIs ==
  ASSUME NEW c \in Printed, NEW color \in Colors
  PROVE  Entry(c, color) \in Cell /\ Entry(c, color)[1] = c
  BY DEF Entry, Cell, Printed

LEMMA Marked ==
  ASSUME NEW s \in State, NEW k \in Columns, NEW e \in Cell, NEW t,
         t.cells = CellsWith(s, k, e)
  PROVE  \A y \in Rows, x \in Columns :
           Mark(t, y, x) = IF y = s.row /\ x = k THEN e[1] ELSE Mark(s, y, x)
<1>1. s.cells \in [Rows -> Lines] /\ s.row \in Rows
  BY Fields
<1>2. PICK l \in Lines : l = s.cells[s.row]
  BY <1>1
<1>3. l \in [Columns -> Cell]
  BY DEF Lines
<1>4. PICK m : m = [l EXCEPT ![k] = e]
  OBVIOUS
<1>5. \A x \in Columns : m[x] = IF x = k THEN e ELSE l[x]
  BY <1>3, <1>4
<1>6. t.cells = [s.cells EXCEPT ![s.row] = m]
  BY <1>1, <1>2, <1>4 DEF CellsWith
<1>7. \A y \in Rows : t.cells[y] = IF y = s.row THEN m ELSE s.cells[y]
  BY <1>1, <1>6
<1>8. QED
  BY <1>2, <1>5, <1>7 DEF Mark

(* A character is written, and the cursor goes on.                         *)
Put(s, c) == [s EXCEPT !.cells = CellsWith(s, s.column, Entry(c, s.color))]

LEMMA PutFacts ==
  ASSUME NEW s \in State, NEW c \in Printed
  PROVE  /\ Put(s, c) \in State
         /\ Put(s, c).row = s.row /\ Put(s, c).column = s.column
         /\ Put(s, c).above = s.above /\ Put(s, c).color = s.color
         /\ \A y \in Rows, x \in Columns :
              Mark(Put(s, c), y, x) = IF y = s.row /\ x = s.column THEN c ELSE Mark(s, y, x)
         /\ PutChar(s, c) = IF s.column + 1 = Width THEN NextLine(Put(s, c))
                            ELSE [Put(s, c) EXCEPT !.column = s.column + 1]
<1>1. PICK e \in Cell : e = Entry(c, s.color) /\ e[1] = c
  BY Fields, EntryIs
<1>2. s.column \in Columns
  BY RowFacts
<1>3. CellsWith(s, s.column, e) \in [Rows -> Lines]
  BY <1>2, Fields, CellWritten DEF CellsWith
<1>4. PICK cells : cells = CellsWith(s, s.column, e)
  OBVIOUS
<1>5. Put(s, c) = [s EXCEPT !.cells = cells]
  BY <1>1, <1>4 DEF Put
<1>6. /\ Put(s, c) \in State /\ Put(s, c).cells = cells
      /\ Put(s, c).row = s.row /\ Put(s, c).column = s.column
      /\ Put(s, c).above = s.above /\ Put(s, c).color = s.color
  BY <1>3, <1>4, <1>5 DEF State
<1>7. PICK k \in Columns : k = s.column
  BY <1>2
<1>8. \A y \in Rows, x \in Columns :
        Mark(Put(s, c), y, x) = IF y = s.row /\ x = k THEN e[1] ELSE Mark(s, y, x)
  <2>1. PICK t : t = Put(s, c)
    OBVIOUS
  <2>2. t.cells = CellsWith(s, k, e)
    BY <1>4, <1>6, <1>7, <2>1
  <2>3. \A y \in Rows, x \in Columns :
          Mark(t, y, x) = IF y = s.row /\ x = k THEN e[1] ELSE Mark(s, y, x)
    BY <2>2, Marked
  <2>4. QED
    BY <2>1, <2>3
<1>9. c \notin {"NL", "CR", "HT", "BS"}
  BY ConsoleAssumption DEF Printed
<1>10. [s EXCEPT !.cells[s.row][s.column] = Entry(c, s.color)] = Put(s, c)
  BY DEF Put, CellsWith, State
<1>11. PutChar(s, c) = IF s.column + 1 = Width THEN NextLine(Put(s, c))
                       ELSE [Put(s, c) EXCEPT !.column = s.column + 1]
  BY <1>9, <1>10 DEF PutChar
<1>12. QED
  BY <1>1, <1>6, <1>7, <1>8, <1>11

(* Before the last column the row stays.                                   *)
LEMMA PutIs ==
  ASSUME NEW s \in State, NEW c \in Printed, s.column + 1 # Width
  PROVE  /\ PutChar(s, c) \in State /\ PutChar(s, c).column = s.column + 1
         /\ PutChar(s, c).row = s.row /\ PutChar(s, c).above = s.above
         /\ \A y \in Rows, x \in Columns :
              Mark(PutChar(s, c), y, x) = IF y = s.row /\ x = s.column THEN c ELSE Mark(s, y, x)
<1>1. PICK t \in State : t = Put(s, c)
  BY PutFacts
<1>2. PICK k : k = s.column + 1
  OBVIOUS
<1>3. PutChar(s, c) = [t EXCEPT !.column = k]
  BY <1>1, <1>2, PutFacts
<1>4. /\ PutChar(s, c).column = k /\ PutChar(s, c).row = t.row
      /\ PutChar(s, c).above = t.above /\ PutChar(s, c).cells = t.cells
  BY <1>3 DEF State
<1>5. t.row = s.row /\ t.above = s.above
  BY <1>1, PutFacts
<1>6. \A y \in Rows, x \in Columns : Mark(PutChar(s, c), y, x) = Mark(t, y, x)
  BY <1>4 DEF Mark
<1>7. PutChar(s, c) \in State
  BY PutCharType DEF Chars, Printed
<1>8. \A y \in Rows, x \in Columns :
        Mark(t, y, x) = IF y = s.row /\ x = s.column THEN c ELSE Mark(s, y, x)
  <2>1. \A y \in Rows, x \in Columns :
          Mark(Put(s, c), y, x) = IF y = s.row /\ x = s.column THEN c ELSE Mark(s, y, x)
    BY PutFacts
  <2>2. QED
    BY <1>1, <2>1
<1>9. QED
  BY <1>2, <1>4, <1>5, <1>6, <1>7, <1>8

(* A backspace takes the character before the cursor off the screen.       *)
LEMMA BackIs ==
  ASSUME NEW s \in State, s.column # 0
  PROVE  /\ PutChar(s, "BS") \in State /\ PutChar(s, "BS").column = s.column - 1
         /\ PutChar(s, "BS").row = s.row /\ PutChar(s, "BS").above = s.above
         /\ \A y \in Rows, x \in Columns :
              Mark(PutChar(s, "BS"), y, x) =
                IF y = s.row /\ x = s.column - 1 THEN " " ELSE Mark(s, y, x)
<1>1. PICK k \in Columns : k = s.column - 1
  <2>1. PICK m \in 0 .. Width - 1 : m = s.column
    BY RowFacts DEF Columns
  <2>2. m - 1 \in 0 .. Width - 1
    BY <2>1, SizesC
  <2>3. QED
    BY <2>1, <2>2 DEF Columns
<1>2. PICK e \in Cell : e = Entry(" ", s.color) /\ e[1] = " "
  BY Fields, EntryIs DEF Printed
<1>3. PutChar(s, "BS") = [s EXCEPT !.column = s.column - 1,
                                   !.cells[s.row][s.column - 1] = Entry(" ", s.color)]
  BY DEF PutChar
<1>4. PutChar(s, "BS") = [s EXCEPT !.column = k, !.cells = CellsWith(s, k, e)]
  BY <1>1, <1>2, <1>3 DEF CellsWith, State
<1>5. /\ PutChar(s, "BS").column = k /\ PutChar(s, "BS").row = s.row
      /\ PutChar(s, "BS").above = s.above /\ PutChar(s, "BS").cells = CellsWith(s, k, e)
  BY <1>4 DEF State
<1>6. PICK t : t = PutChar(s, "BS")
  OBVIOUS
<1>7. \A y \in Rows, x \in Columns :
        Mark(t, y, x) = IF y = s.row /\ x = k THEN e[1] ELSE Mark(s, y, x)
  BY <1>5, <1>6, Marked
<1>8. t \in State
  BY <1>6, PutCharType DEF Chars
<1>9. QED
  BY <1>1, <1>2, <1>5, <1>6, <1>7, <1>8

LEMMA LastRow == \E m \in Int : m = Height - 1
  BY SizesC

LEMMA After ==
  /\ \A y \in Nat, m \in Nat : y > m + 1 \/ y = m + 1 => y > m
  /\ \A y \in Nat, m \in Int : y > m \/ y = m => ~(y < m)
  OBVIOUS

LEMMA RowNat ==
  ASSUME NEW y \in Rows
  PROVE  y \in Nat /\ y + 1 <= Height /\ Height \in Nat
  BY SizesC DEF Rows

LEMMA CleanNextLine ==
  ASSUME NEW s \in State,
         \A y \in Rows, x \in Columns : y > s.row => Mark(s, y, x) = " "
  PROVE  Clean(NextLine(s))
<1>1. PICK t \in State : t = NextLine(s)
  BY NextLineType
<1>2. CASE s.row + 1 = Height
  <2>1. PICK u \in State : u = Scroll(s)
    BY ScrollIs
  <2>2. t = [u EXCEPT !.column = 0, !.row = Height - 1]
    BY <1>1, <1>2, <2>1 DEF NextLine
  <2>3. t.row = Height - 1 /\ t.cells = u.cells
    BY <2>2 DEF State
  <2>4. ASSUME NEW y \in Rows, NEW x \in Columns, y > t.row \/ y = t.row
        PROVE  Mark(t, y, x) = " "
    <3>0. PICK m \in Int : m = Height - 1
      BY LastRow
    <3>1. ~(y < Height - 1)
      BY <2>3, <2>4, <3>0, RowNat, After
    <3>2. u.cells[y] = BlankLine(s.color)
      BY <2>1, <3>1, ScrollIs
    <3>3. BlankLine(s.color)[x][1] = " "
      BY DEF BlankLine, Entry
    <3>4. QED
      BY <2>3, <3>2, <3>3 DEF Mark
  <2>5. QED
    BY <1>1, <2>4 DEF Clean
<1>3. CASE s.row + 1 # Height
  <2>1. t = [s EXCEPT !.column = 0, !.row = s.row + 1]
    BY <1>1, <1>3 DEF NextLine
  <2>2. t.row = s.row + 1 /\ t.cells = s.cells
    BY <2>1 DEF State
  <2>3. ASSUME NEW y \in Rows, NEW x \in Columns, y > t.row \/ y = t.row
        PROVE  Mark(t, y, x) = " "
    <3>1. PICK m \in Nat : m = s.row
      BY RowFacts
    <3>2. y \in Nat
      BY RowNat
    <3>3. y > m + 1 \/ y = m + 1
      BY <2>2, <2>3, <3>1
    <3>4. y > m
      BY <3>2, <3>3, After
    <3>5. Mark(s, y, x) = " "
      BY <3>1, <3>4
    <3>6. QED
      BY <2>2, <3>5 DEF Mark
  <2>4. QED
    BY <1>1, <2>3 DEF Clean
<1>4. QED
  BY <1>2, <1>3

(* Nothing that is printed leaves a mark at the new cursor or after it.    *)
LEMMA CleanPut ==
  ASSUME NEW s \in State, Clean(s), NEW c \in Printed
  PROVE  Clean(PutChar(s, c))
<1>1. CASE s.column + 1 = Width
  <2>1. PICK p \in State : p = Put(s, c)
    BY PutFacts
  <2>2. p.row = s.row
    BY <2>1, PutFacts
  <2>3. ASSUME NEW y \in Rows, NEW x \in Columns, y > p.row PROVE Mark(p, y, x) = " "
    <3>1. Mark(Put(s, c), y, x) = IF y = s.row /\ x = s.column THEN c ELSE Mark(s, y, x)
      BY PutFacts
    <3>2. y # s.row
      BY <2>2, <2>3, RowFacts DEF Rows
    <3>3. Mark(s, y, x) = " "
      BY <2>2, <2>3 DEF Clean
    <3>4. QED
      BY <2>1, <3>1, <3>2, <3>3
  <2>4. Clean(NextLine(p))
    BY <2>3, CleanNextLine
  <2>5. PutChar(s, c) = NextLine(Put(s, c))
    BY <1>1, PutFacts
  <2>6. QED
    BY <2>1, <2>4, <2>5
<1>2. CASE s.column + 1 # Width
  <2>1. PICK t : t = PutChar(s, c)
    OBVIOUS
  <2>2. t.row = s.row /\ t.column = s.column + 1
    BY <1>2, <2>1, PutIs
  <2>3. ASSUME NEW y \in Rows, NEW x \in Columns, y > t.row \/ (y = t.row /\ x >= t.column)
        PROVE  Mark(t, y, x) = " "
    <3>1. Mark(PutChar(s, c), y, x) = IF y = s.row /\ x = s.column THEN c ELSE Mark(s, y, x)
      BY <1>2, PutIs
    <3>2. y \in Nat /\ x \in Nat /\ s.row \in Nat /\ s.column \in Nat
      BY RowFacts DEF Rows, Columns
    <3>3. ~(y = s.row /\ x = s.column) /\ (y > s.row \/ (y = s.row /\ x >= s.column))
      BY <2>2, <2>3, <3>2
    <3>4. Mark(s, y, x) = " "
      BY <3>3 DEF Clean
    <3>5. QED
      BY <2>1, <3>1, <3>3, <3>4
  <2>4. QED
    BY <2>1, <2>3 DEF Clean
<1>3. QED
  BY <1>1, <1>2

LEMMA CleanNewLine ==
  ASSUME NEW s \in State, Clean(s)
  PROVE  Clean(PutChar(s, "NL"))
<1>1. \A y \in Rows, x \in Columns : y > s.row => Mark(s, y, x) = " "
  BY DEF Clean
<1>2. PutChar(s, "NL") = NextLine(s)
  BY DEF PutChar
<1>3. QED
  BY <1>1, <1>2, CleanNextLine

LEMMA CleanBack ==
  ASSUME NEW s \in State, Clean(s)
  PROVE  Clean(PutChar(s, "BS"))
<1>1. CASE s.column = 0
  <2>1. PutChar(s, "BS") = s
    BY <1>1 DEF PutChar
  <2>2. QED
    BY <2>1
<1>2. CASE s.column # 0
  <2>1. PICK t : t = PutChar(s, "BS")
    OBVIOUS
  <2>2. t.row = s.row /\ t.column = s.column - 1
    BY <1>2, <2>1, BackIs
  <2>3. ASSUME NEW y \in Rows, NEW x \in Columns, y > t.row \/ (y = t.row /\ x >= t.column)
        PROVE  Mark(t, y, x) = " "
    <3>1. Mark(PutChar(s, "BS"), y, x) =
            IF y = s.row /\ x = s.column - 1 THEN " " ELSE Mark(s, y, x)
      BY <1>2, BackIs
    <3>2. y \in Nat /\ x \in Nat /\ s.row \in Nat /\ s.column \in Nat
      BY RowFacts DEF Rows, Columns
    <3>3. (y = s.row /\ x = s.column - 1) \/ (y > s.row \/ (y = s.row /\ x >= s.column))
      BY <2>2, <2>3, <3>2
    <3>4. ~(y = s.row /\ x = s.column - 1) => Mark(s, y, x) = " "
      BY <3>3 DEF Clean
    <3>5. QED
      BY <2>1, <3>1, <3>4
  <2>4. QED
    BY <2>1, <2>3 DEF Clean
<1>3. QED
  BY <1>1, <1>2

LEMMA CleanErase ==
  ASSUME NEW s \in State, Clean(s)
  PROVE  Clean(Erase(s))
<1>1. PICK b \in State : b = PutChar(s, "BS")
  BY PutCharType DEF Chars
<1>2. Clean(b)
  BY <1>1, CleanBack
<1>3. " " \in Printed
  BY DEF Printed
<1>4. PICK p \in State : p = PutChar(b, " ")
  BY PutCharType DEF Chars
<1>5. Clean(p)
  BY <1>2, <1>3, <1>4, CleanPut
<1>6. Clean(PutChar(p, "BS"))
  BY <1>5, CleanBack
<1>7. QED
  BY <1>1, <1>4, <1>6 DEF Erase

LEMMA CleanCleared ==
  ASSUME NEW s \in State
  PROVE  Clean(Cleared(s))
<1>1. PICK cells : cells = Cleared(s).cells
  OBVIOUS
<1>2. PICK blank : blank = BlankLine(s.color)
  OBVIOUS
<1>3. cells = [y \in Rows |-> blank]
  BY <1>1, <1>2, ClearedIs
<1>4. \A x \in Columns : blank[x][1] = " "
  BY <1>2 DEF BlankLine, Entry
<1>5. \A y \in Rows, x \in Columns : cells[y][x][1] = " "
  BY <1>3, <1>4
<1>6. QED
  BY <1>1, <1>5 DEF Clean, Mark

(* Behind the start of the row, an erasure takes the last mark away and    *)
(* touches nothing else.                                                   *)
LEMMA EraseIs ==
  ASSUME NEW s \in State, s.column # 0
  PROVE  /\ Erase(s) \in State /\ Erase(s).column = s.column - 1
         /\ Erase(s).row = s.row /\ Erase(s).above = s.above
         /\ \A y \in Rows, x \in Columns :
              Mark(Erase(s), y, x) = IF y = s.row /\ x = s.column - 1 THEN " " ELSE Mark(s, y, x)
<1>1. s.column \in Nat /\ s.column + 1 <= Width /\ Width \in Nat
  BY RowFacts
<1>2. PICK b \in State : b = PutChar(s, "BS")
  BY BackIs
<1>3. /\ b.column = s.column - 1 /\ b.row = s.row /\ b.above = s.above
      /\ \A y \in Rows, x \in Columns :
           Mark(b, y, x) = IF y = s.row /\ x = s.column - 1 THEN " " ELSE Mark(s, y, x)
  BY <1>2, BackIs
<1>4. b.column + 1 # Width /\ b.column + 1 = s.column
  <2>1. PICK m \in Nat : m = s.column
    BY <1>1
  <2>2. (m - 1) + 1 = m /\ m # Width
    BY <1>1, <2>1
  <2>3. QED
    BY <1>3, <2>1, <2>2
<1>5. " " \in Printed
  BY DEF Printed
<1>6. PICK p \in State : p = PutChar(b, " ")
  BY <1>4, <1>5, PutIs
<1>7. /\ p.column = b.column + 1 /\ p.row = b.row /\ p.above = b.above
      /\ \A y \in Rows, x \in Columns :
           Mark(p, y, x) = IF y = b.row /\ x = b.column THEN " " ELSE Mark(b, y, x)
  <2>1. PICK c \in Printed : c = " "
    BY <1>5
  <2>2. /\ PutChar(b, c).column = b.column + 1 /\ PutChar(b, c).row = b.row
        /\ PutChar(b, c).above = b.above
        /\ \A y \in Rows, x \in Columns :
             Mark(PutChar(b, c), y, x) = IF y = b.row /\ x = b.column THEN c ELSE Mark(b, y, x)
    BY <1>4, PutIs
  <2>3. QED
    BY <1>6, <2>1, <2>2
<1>8. p.column = s.column
  BY <1>4, <1>7
<1>9. PICK e \in State : e = PutChar(p, "BS")
  BY <1>8, BackIs
<1>10. /\ e.column = p.column - 1 /\ e.row = p.row /\ e.above = p.above
       /\ \A y \in Rows, x \in Columns :
            Mark(e, y, x) = IF y = p.row /\ x = p.column - 1 THEN " " ELSE Mark(p, y, x)
  BY <1>8, <1>9, BackIs
<1>11. e = Erase(s)
  BY <1>2, <1>6, <1>9 DEF Erase
<1>12. ASSUME NEW y \in Rows, NEW x \in Columns
       PROVE  Mark(e, y, x) = IF y = s.row /\ x = s.column - 1 THEN " " ELSE Mark(s, y, x)
  <2>1. PICK k : k = s.column - 1
    OBVIOUS
  <2>2. Mark(e, y, x) = IF y = s.row /\ x = k THEN " " ELSE Mark(p, y, x)
    <3>1. p.row = s.row /\ p.column - 1 = k
      BY <1>3, <1>7, <1>8, <2>1
    <3>2. Mark(e, y, x) = IF y = p.row /\ x = p.column - 1 THEN " " ELSE Mark(p, y, x)
      BY <1>10
    <3>3. QED
      BY <3>1, <3>2
  <2>3. Mark(p, y, x) = IF y = s.row /\ x = k THEN " " ELSE Mark(b, y, x)
    <3>1. b.row = s.row /\ b.column = k
      BY <1>3, <2>1
    <3>2. Mark(p, y, x) = IF y = b.row /\ x = b.column THEN " " ELSE Mark(b, y, x)
      BY <1>7
    <3>3. QED
      BY ONLY <3>1, <3>2
  <2>4. Mark(b, y, x) = IF y = s.row /\ x = k THEN " " ELSE Mark(s, y, x)
    BY <1>3, <2>1
  <2>5. QED
    BY <2>1, <2>2, <2>3, <2>4
<1>13. QED
  BY <1>3, <1>7, <1>8, <1>10, <1>11, <1>12

LEMMA CleanPrompt ==
  ASSUME scr \in State, Clean(scr), NEW n \in Nat, NEW g \in Glyphs
  PROVE  Clean(Prompt(n, g))
<1> DEFINE base == [scr EXCEPT !.above = <<>>]
           F == CHOOSE f : f = [k \in 0 .. n |-> IF k = 0 THEN base ELSE PutChar(f[k - 1], g)]
<1>1. base \in State
  BY EmptySeq DEF State
<1>2. base.row = scr.row /\ base.column = scr.column /\ base.cells = scr.cells
  BY DEF State
<1>3. Prompt(n, g) = F[n]
  BY DEF Prompt
<1> HIDE DEF base
<1>4. Clean(base)
  BY <1>2 DEF Clean, Mark
<1>5. F = [k \in 0 .. n |-> IF k = 0 THEN base ELSE PutChar(F[k - 1], g)]
  BY PromptExists
<1> HIDE DEF F
<1>6. F[0] = base /\ \A k \in 1 .. n : F[k] = PutChar(F[k - 1], g)
  BY <1>5
<1>7. g \in Printed /\ g \in Chars
  BY DEF Printed, Chars
<1> DEFINE P == { m \in Nat : m <= n => F[m] \in State /\ Clean(F[m]) }
<1>8. 0 \in P
  BY <1>1, <1>4, <1>6
<1>9. ASSUME NEW m \in P PROVE m + 1 \in P
  <2>1. m \in Nat
    OBVIOUS
  <2>2. CASE m + 1 <= n
    <3>1. F[m] \in State /\ Clean(F[m]) /\ F[m + 1] = PutChar(F[m], g)
      BY <1>6, <2>1, <2>2
    <3>2. PutChar(F[m], g) \in State /\ Clean(PutChar(F[m], g))
      BY <1>7, <3>1, PutCharType, CleanPut
    <3>3. QED
      BY <2>1, <3>1, <3>2
  <2>3. CASE ~(m + 1 <= n)
    BY <2>1, <2>3
  <2>4. QED
    BY <2>2, <2>3
<1>10. P \in SUBSET Nat
  OBVIOUS
<1> HIDE DEF P
<1>11. n \in P
  BY <1>8, <1>9, <1>10, NatInd
<1>12. QED
  BY <1>3, <1>11 DEF P

(* The line l stands in one row, from cell b of the paper to the cursor;   *)
(* and a buffer of z bytes that fits in the rest of that row.              *)
EchoedIn(s, l, b) ==
  \E f \in Columns :
    /\ b = (Len(s.above) + s.row) * Width + f
    /\ s.column = f + Len(l)
    /\ \A k \in 1 .. Len(l) : Mark(s, s.row, f + k - 1) = l[k]

FitsIn(b, z) == (b % Width) + z <= Width

LEMMA Cells ==
  ASSUME NEW w \in Nat \ {0}, NEW a \in Nat, NEW c \in 0 .. w - 1
  PROVE  (a * w + c) \div w = a /\ (a * w + c) % w = c
  OBVIOUS

LEMMA EchoBegins ==
  ASSUME NEW s \in State
  PROVE  EchoedIn(s, <<>>, Cursor(s))
<1>1. s.column \in Columns /\ s.column \in Nat
  BY RowFacts
<1>2. Len(<<>>) = 0 /\ s.column = s.column + 0
  BY <1>1, EmptySeq
<1>3. QED
  BY <1>1, <1>2 DEF EchoedIn, Cursor

LEMMA RoomInRow ==
  ASSUME NEW f \in Nat, NEW z \in Nat, NEW l \in Nat, f + z <= Width, l < z, l # z - 1
  PROVE  f + l + 1 # Width
  BY SizesC

(* While the line fits, what is typed goes on in the same row.             *)
LEMMA EchoGrows ==
  ASSUME NEW s \in State, NEW l \in Seq(Printed), NEW b, NEW z \in Nat, NEW c \in Printed,
         EchoedIn(s, l, b), FitsIn(b, z), Len(l) < z, Len(l) # z - 1
  PROVE  EchoedIn(PutChar(s, c), Append(l, c), b)
<1>1. PICK f \in Columns :
        /\ b = (Len(s.above) + s.row) * Width + f
        /\ s.column = f + Len(l)
        /\ \A k \in 1 .. Len(l) : Mark(s, s.row, f + k - 1) = l[k]
  BY DEF EchoedIn
<1>2. PICK n \in Nat : n = Len(l)
  BY LenProperties
<1>3. f \in Nat /\ f \in 0 .. Width - 1
  BY SizesC DEF Columns
<1>4. PICK a \in Nat : a = Len(s.above) + s.row
  <2>1. Len(s.above) \in Nat /\ s.row \in Nat
    BY PaperIs, RowFacts
  <2>2. QED
    BY <2>1
<1>5. b % Width = f
  <2>1. b = a * Width + f
    BY <1>1, <1>4
  <2>2. QED
    BY <1>3, <2>1, SizesC, Cells
<1>6. f + z <= Width
  BY <1>5 DEF FitsIn
<1>7. f + n + 1 # Width
  BY <1>2, <1>3, <1>6, RoomInRow
<1>8. s.column + 1 # Width
  BY <1>1, <1>2, <1>7
<1>9. PICK t : t = PutChar(s, c)
  OBVIOUS
<1>10. /\ t.column = s.column + 1 /\ t.row = s.row /\ t.above = s.above
       /\ \A y \in Rows, x \in Columns :
            Mark(t, y, x) = IF y = s.row /\ x = s.column THEN c ELSE Mark(s, y, x)
  BY <1>8, <1>9, PutIs
<1>11. PICK m : m = Append(l, c)
  OBVIOUS
<1>12. Len(m) = n + 1 /\ m[n + 1] = c /\ \A k \in 1 .. n : m[k] = l[k]
  BY <1>2, <1>11, AppendProperties
<1>13. ASSUME NEW k \in 1 .. n + 1 PROVE Mark(t, t.row, f + k - 1) = m[k]
  <2>1. s.row \in Rows /\ s.column \in Columns
    BY RowFacts
  <2>2. CASE k = n + 1
    <3>1. f + k - 1 = s.column
      BY <1>1, <1>2, <1>3, <2>2
    <3>2. Mark(t, s.row, s.column) = c
      BY <1>10, <2>1
    <3>3. QED
      BY <1>10, <1>12, <2>2, <3>1, <3>2
  <2>3. CASE k \in 1 .. n
    <3>1. s.column = f + n
      BY <1>1, <1>2
    <3>2. f + k - 1 \in Nat /\ f + k - 1 < f + n
      BY <1>3, <2>3
    <3>3. PICK x \in Nat : x = f + k - 1 /\ x < s.column
      BY <3>1, <3>2
    <3>4. x \in Columns /\ x # s.column
      BY <2>1, <3>3, SizesC DEF Columns
    <3>5. Mark(t, s.row, x) = Mark(s, s.row, x)
      BY <1>10, <2>1, <3>4
    <3>6. Mark(s, s.row, x) = l[k]
      BY <1>1, <1>2, <2>3, <3>3
    <3>7. QED
      BY <1>10, <1>12, <2>3, <3>3, <3>5, <3>6
  <2>4. QED
    BY <2>2, <2>3
<1>14. t.column = f + Len(m)
  BY <1>1, <1>2, <1>3, <1>10, <1>12
<1>15. b = (Len(t.above) + t.row) * Width + f
  BY <1>1, <1>10
<1>16. \A k \in 1 .. Len(m) : Mark(t, t.row, f + k - 1) = m[k]
  BY <1>12, <1>13
<1>17. QED
  BY <1>9, <1>11, <1>14, <1>15, <1>16 DEF EchoedIn

LEMMA Shortened ==
  ASSUME NEW S, NEW l \in Seq(S), l # <<>>
  PROVE  \A k \in 1 .. Len(l) - 1 : SubSeq(l, 1, Len(l) - 1)[k] = l[k]
<1>1. Len(l) \in Nat \ {0}
  BY EmptySeq
<1>2. PICK m \in Nat : m = Len(l) - 1
  BY <1>1
<1>3. \A i \in 1 .. m : i \in 1 .. Len(l)
  BY <1>1, <1>2
<1>4. \A i \in 1 .. m : l[i] \in S
  BY <1>3, ElementOfSeq
<1>5. \A i \in 1 .. m - 1 + 1 : SubSeq(l, 1, m)[i] = l[1 + i - 1]
  BY <1>4, SubSeqProperties
<1>6. ASSUME NEW k \in 1 .. m PROVE SubSeq(l, 1, m)[k] = l[k]
  <2>1. k \in 1 .. m - 1 + 1 /\ 1 + k - 1 = k
    BY <1>2
  <2>2. QED
    BY <1>5, <2>1
<1>7. QED
  BY <1>2, <1>6

LEMMA EchoShrinks ==
  ASSUME NEW s \in State, NEW l \in Seq(Printed), NEW b, l # <<>>, EchoedIn(s, l, b)
  PROVE  EchoedIn(Erase(s), SubSeq(l, 1, Len(l) - 1), b)
<1>1. PICK f \in Columns :
        /\ b = (Len(s.above) + s.row) * Width + f
        /\ s.column = f + Len(l)
        /\ \A k \in 1 .. Len(l) : Mark(s, s.row, f + k - 1) = l[k]
  BY DEF EchoedIn
<1>2. PICK n \in Nat : n + 1 = Len(l)
  <2>1. Len(l) \in Nat \ {0}
    BY EmptySeq
  <2>2. QED
    BY <2>1
<1>3. f \in Nat
  BY SizesC DEF Columns
<1>4. s.column = f + n + 1 /\ s.column # 0 /\ s.column - 1 = f + n
  BY <1>1, <1>2, <1>3
<1>5. PICK t : t = Erase(s)
  OBVIOUS
<1>6. /\ t.column = s.column - 1 /\ t.row = s.row /\ t.above = s.above
      /\ \A y \in Rows, x \in Columns :
           Mark(t, y, x) = IF y = s.row /\ x = s.column - 1 THEN " " ELSE Mark(s, y, x)
  BY <1>4, <1>5, EraseIs
<1>7. PICK m : m = SubSeq(l, 1, Len(l) - 1)
  OBVIOUS
<1>8. Len(m) = n /\ \A k \in 1 .. n : m[k] = l[k]
  <2>1. Len(l) - 1 = n
    BY <1>2
  <2>2. QED
    BY <1>7, <2>1, LineShorter, Shortened
<1>9. ASSUME NEW k \in 1 .. n PROVE Mark(t, t.row, f + k - 1) = m[k]
  <2>1. s.row \in Rows /\ s.column \in Columns
    BY RowFacts
  <2>2. f + k - 1 \in Nat /\ f + k - 1 < f + n
    BY <1>3
  <2>3. PICK x \in Nat : x = f + k - 1 /\ x < s.column - 1
    BY <1>4, <2>2
  <2>4. x \in Columns /\ x # s.column - 1
    BY <2>1, <2>3, SizesC DEF Columns
  <2>5. Mark(t, s.row, x) = Mark(s, s.row, x)
    BY <1>6, <2>1, <2>4
  <2>6. k \in 1 .. Len(l)
    BY <1>2
  <2>7. Mark(s, s.row, x) = l[k]
    BY <1>1, <2>3, <2>6
  <2>8. QED
    BY <1>6, <1>8, <2>3, <2>5, <2>7
<1>10. t.column = f + Len(m)
  BY <1>4, <1>6, <1>8
<1>11. b = (Len(t.above) + t.row) * Width + f
  BY <1>1, <1>6
<1>12. \A k \in 1 .. Len(m) : Mark(t, t.row, f + k - 1) = m[k]
  BY <1>8, <1>9
<1>13. QED
  BY <1>5, <1>7, <1>10, <1>11, <1>12 DEF EchoedIn

(* While a line is read, nothing stands after it on the screen; and as     *)
(* long as it has not reached the end of the row where the read began, it  *)
(* stands there, and in no other row.                                      *)
EchoInv ==
  /\ Clean(scr)
  /\ Reading /\ FitsIn(start, longest + 1) => EchoedIn(scr, line, start)

LEMMA LongerFits ==
  ASSUME NEW b \in Nat, NEW m \in Nat, NEW n \in Nat, m <= n, FitsIn(b, n + 1)
  PROVE  FitsIn(b, m + 1)
<1>1. Width \in Nat \ {0}
  BY SizesC
<1>2. PICK k : k = b % Width
  OBVIOUS
<1>3. k \in Nat
  BY <1>1, <1>2
<1>4. QED
  BY <1>1, <1>2, <1>3 DEF FitsIn

LEMMA EchoNext == TInv /\ EchoInv /\ [TNext]_tvars => EchoInv'
<1> SUFFICES ASSUME TInv, EchoInv, [TNext]_tvars PROVE EchoInv'
  OBVIOUS
<1>0. /\ scr \in State /\ Clean(scr)
      /\ line \in Seq(Printed) /\ Len(line) \in Nat
      /\ start \in Nat /\ longest \in Nat /\ Len(line) <= longest
  <2>1. line \in Seq(Printed)
    BY DEF TInv, Printed
  <2>2. Len(line) \in Nat
    BY <2>1, LenProperties
  <2>3. QED
    BY <2>1, <2>2 DEF TInv, EchoInv
<1>1. CASE UNCHANGED <<scr, size, line, seen>>
  <2>1. Reading' = Reading
    BY <1>1 DEF Reading
  <2>2. QED
    BY <1>1, <2>1 DEF EchoInv, seen
<1>2. CASE ClearScreen
  <2>1. Clean(scr')
    BY <1>0, <1>2, CleanCleared DEF ClearScreen
  <2>2. ~Reading'
    BY <1>2 DEF ClearScreen, Reading
  <2>3. QED
    BY <2>1, <2>2 DEF EchoInv
<1>3. ASSUME NEW n \in Prompts, NEW g \in Glyphs, NEW s \in LineSizes, StartLine(n, g, s)
      PROVE  EchoInv'
  <2>1. n \in Nat
    BY TerminalAssumption
  <2>2. scr' \in State /\ Clean(scr')
    BY <1>0, <1>3, <2>1, PromptType, CleanPrompt DEF StartLine
  <2>3. EchoedIn(scr', <<>>, Cursor(scr'))
    BY <2>2, EchoBegins
  <2>4. line' = <<>> /\ start' = Cursor(scr')
    BY <1>3 DEF StartLine
  <2>5. QED
    BY <2>2, <2>3, <2>4 DEF EchoInv
<1>4. CASE EndLine(scr)
  <2>1. Clean(scr') /\ size' = 0
    BY <1>0, <1>4, CleanNewLine DEF EndLine
  <2>2. QED
    BY <2>1 DEF EchoInv, Reading
<1>5. CASE TakeKey
  <2>1. /\ Reading /\ start' = start
        /\ longest' = IF Len(line') > longest THEN Len(line') ELSE longest
    BY <1>5 DEF TakeKey, Measured
  <2>2. CASE line # <<>> /\ size' = size /\ scr' = Erase(scr)
             /\ line' = SubSeq(line, 1, Len(line) - 1)
    <3>1. Clean(scr')
      BY <1>0, <2>2, CleanErase
    <3>0. longest' = longest
      <4>1. Len(line') = Len(line) - 1
        BY <1>0, <2>2, LineShorter
      <4>2. QED
        BY <1>0, <2>1, <4>1
    <3>2. ASSUME FitsIn(start, longest + 1) PROVE EchoedIn(scr', line', start)
      <4>1. EchoedIn(scr, line, start)
        BY <2>1, <3>2 DEF EchoInv
      <4>2. EchoedIn(Erase(scr), SubSeq(line, 1, Len(line) - 1), start)
        BY <1>0, <2>2, <4>1, EchoShrinks
      <4>3. QED
        BY <2>2, <4>2
    <3>3. QED
      BY <2>1, <3>0, <3>1, <3>2 DEF EchoInv
  <2>3. CASE got' \in Printed /\ size' = size
             /\ line' = Append(line, got') /\ scr' = PutChar(scr, got')
    <3>1. PICK c \in Printed : c = got'
      BY <2>3
    <3>2. Clean(PutChar(scr, c))
      BY <1>0, CleanPut
    <3>0. PICK n \in Nat : /\ n = longest' /\ longest <= n
                           /\ Len(line) < n + 1 /\ Len(line) # (n + 1) - 1 /\ n + 1 \in Nat
      <4>1. Len(line') = Len(line) + 1
        BY <1>0, <2>3, <3>1, AppendProperties
      <4>2. QED
        BY <1>0, <2>1, <4>1
    <3>3. ASSUME FitsIn(start, n + 1) PROVE EchoedIn(scr', line', start)
      <4>1. FitsIn(start, longest + 1)
        BY <1>0, <3>0, <3>3, LongerFits
      <4>2. EchoedIn(scr, line, start)
        BY <2>1, <4>1 DEF EchoInv
      <4>3. EchoedIn(PutChar(scr, c), Append(line, c), start)
        BY <1>0, <3>0, <3>3, <4>2, EchoGrows
      <4>4. QED
        BY <2>3, <3>1, <4>3
    <3>4. QED
      BY <2>1, <2>3, <3>0, <3>1, <3>2, <3>3 DEF EchoInv
  <2>4. CASE UNCHANGED <<size, line, scr>>
    <3>1. longest' = longest
      BY <1>0, <2>1, <2>4
    <3>2. QED
      BY <1>1, <2>1, <2>4, <3>1 DEF seen
  <2>5. QED
    BY <1>4, <1>5, <2>2, <2>3, <2>4 DEF TakeKey, Printed
<1>6. QED
  BY <1>1, <1>2, <1>3, <1>4, <1>5
     DEF TNext, tvars, KeyPressed, GetLine, PollForKey, FillLine

LEMMA RestIsBlank ==
  ASSUME NEW s \in State, Clean(s)
  PROVE  \A x \in s.column .. Width - 1 : s.cells[s.row][x][1] = " "
<1>1. s.row \in Rows /\ s.column \in Nat
  BY RowFacts
<1>2. \A x \in s.column .. Width - 1 : x \in Columns /\ x >= s.column
  BY <1>1, SizesC DEF Columns
<1>3. QED
  BY <1>1, <1>2 DEF Clean, Mark

LEMMA EchoRead ==
  ASSUME scr \in State, line \in Seq(Printed), EchoedIn(scr, line, start)
  PROVE  /\ Cursor(scr) = start + Len(line)
         /\ \A k \in 1 .. Len(line) : GlyphAt(start + k - 1) = line[k]
<1>1. PICK f \in Columns :
        /\ start = (Len(scr.above) + scr.row) * Width + f
        /\ scr.column = f + Len(line)
        /\ \A k \in 1 .. Len(line) : Mark(scr, scr.row, f + k - 1) = line[k]
  BY DEF EchoedIn
<1>2. PICK n \in Nat : n = Len(line)
  BY LenProperties
<1>3. f \in Nat /\ Width \in Nat \ {0}
  BY SizesC DEF Columns
<1>4. Len(scr.above) \in Nat /\ scr.row \in Nat /\ scr.row \in Rows
  BY PaperIs, RowFacts
<1>5. PICK a \in Nat : a = Len(scr.above) + scr.row
  BY <1>4
<1>6. PICK q \in Nat : q = a * Width
  BY <1>3
<1>7. Cursor(scr) = start + Len(line)
  <2>1. start = q + f /\ Cursor(scr) = q + (f + n)
    BY <1>1, <1>2, <1>5, <1>6 DEF Cursor
  <2>2. QED
    BY <1>2, <1>3, <2>1
<1>8. ASSUME NEW k \in 1 .. n PROVE GlyphAt(start + k - 1) = line[k]
  <2>1. f + n + 1 <= Width
    BY <1>1, <1>2, RowFacts
  <2>2. PICK x \in 0 .. Width - 1 : x = f + k - 1
    BY <1>3, <2>1
  <2>3. start + k - 1 = a * Width + x
    <3>1. start = q + f
      BY <1>1, <1>5, <1>6
    <3>2. start + k - 1 = q + x
      BY <1>3, <2>2, <3>1
    <3>3. QED
      BY <1>6, <3>2
  <2>4. (start + k - 1) \div Width = a /\ (start + k - 1) % Width = x
    BY <1>3, <2>3, Cells
  <2>5. Paper(scr)[a + 1] = scr.cells[scr.row]
    BY <1>4, <1>5, PaperIs
  <2>6. GlyphAt(start + k - 1) = Mark(scr, scr.row, x)
    BY <2>4, <2>5 DEF GlyphAt, Mark
  <2>7. QED
    BY <1>1, <1>2, <2>2, <2>6
<1>9. QED
  BY <1>2, <1>7, <1>8

LEMMA FirstClean == CInit => Clean(scr)
<1>1. PICK raw \in State : FirstScreen = Cleared(raw)
  BY FirstIs
<1>2. Clean(Cleared(raw))
  BY CleanCleared
<1>3. QED
  BY <1>1, <1>2 DEF CInit

(* The screen shows the buffer: of a line that has not reached the end of  *)
(* its row yet, every character typed and not erased stands where it was   *)
(* typed, and nothing behind the cursor, whatever was typed and erased     *)
(* before, for every size of the screen, the buffers and the prompts       *)
(* (keyboard.c:138-168, with console_putchar).                             *)
THEOREM EchoKept == TSpec => []EchoFits
<1>1. TInit => TInv /\ EchoInv
  <2> SUFFICES ASSUME TInit PROVE TInv /\ EchoInv
    OBVIOUS
  <2>1. TInv
    BY ScreenInit, EmptySeq DEF TInit, TInv, CInv, Reading
  <2>2. Clean(scr)
    <3>1. CInit
      BY DEF TInit
    <3>2. QED
      BY <3>1, FirstClean
  <2>3. ~Reading
    BY DEF TInit, Reading
  <2>4. QED
    BY <2>1, <2>2, <2>3 DEF EchoInv
<1>2. TInv /\ EchoInv => EchoFits
  <2> SUFFICES ASSUME TInv, EchoInv, Reading, (start % Width) + longest < Width PROVE Shown
    BY DEF EchoFits
  <2>1. scr \in State /\ Clean(scr) /\ line \in Seq(Printed)
    BY DEF TInv, EchoInv, Printed
  <2>2. FitsIn(start, longest + 1)
    <3>1. Width \in Nat \ {0} /\ start \in Nat /\ longest \in Nat
      BY SizesC DEF TInv
    <3>2. PICK k : k = start % Width
      OBVIOUS
    <3>3. k \in Nat
      BY <3>1, <3>2
    <3>4. QED
      BY <3>1, <3>2, <3>3 DEF FitsIn
  <2>4. EchoedIn(scr, line, start)
    BY <2>2 DEF EchoInv
  <2>3. QED
    BY <2>1, <2>4, EchoRead, RestIsBlank DEF Shown
<1>3. TSpec => [](TInv /\ EchoInv)
  BY <1>1, TInvNext, EchoNext, PTL DEF TSpec
<1>4. QED
  BY <1>2, <1>3, PTL
=============================================================================
