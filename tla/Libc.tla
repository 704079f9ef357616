-------------------------------- MODULE Libc --------------------------------
(***************************************************************************)
(* The functions of libc/ that have more to them than a copy or a          *)
(* comparison: strtok (string.c), atoi and itoa (stdlib.c), and vsprintf   *)
(* with printf (stdio.c), in the kernel-mode build.                        *)
(*                                                                         *)
(* A text is a sequence of characters.  A character that nothing looks     *)
(* into may stand for a whole name: "NL" is a newline, "HT" a tab, "calc"  *)
(* the name of a command.                                                  *)
(***************************************************************************)
EXTENDS Integers, Sequences

Sets == INSTANCE FiniteSetsExt

CONSTANTS
  IntBits,   (* the bits of an int, and of a long: 32                      *)
  Limit      (* 1023: what the buffer of vprintf holds beside its NUL      *)

ASSUME LibcAssumption == IntBits \in Nat \ {0, 1} /\ Limit \in Nat \ {0}

-----------------------------------------------------------------------------
(* strtok.  rest is the text at the static position, and empty where the   *)
(* position is NULL or at the NUL, from which the next call returns NULL;  *)
(* an empty token stands for NULL.                                         *)
Strtok_KeepsLeading(s, delims) ==
  LET ends == { i \in DOMAIN s : s[i] \in delims } \cup {Len(s) + 1}
  IN  [token |-> SubSeq(s, 1, Sets!Min(ends) - 1), rest |-> SubSeq(s, Sets!Min(ends) + 1, Len(s))]

Strtok(s, delims) ==
  LET inside == { i \in DOMAIN s : s[i] \notin delims }
      first  == Sets!Min(inside)
      ends   == { i \in first .. Len(s) : s[i] \in delims } \cup {Len(s) + 1}
  IN  IF inside = {} THEN [token |-> <<>>, rest |-> <<>>]
      ELSE [token |-> SubSeq(s, first, Sets!Min(ends) - 1), rest |-> SubSeq(s, Sets!Min(ends) + 1, Len(s))]

-----------------------------------------------------------------------------
Power(base, n) ==
  LET power[k \in 0 .. n] == IF k = 0 THEN 1 ELSE base * power[k - 1] IN power[n]

IntSize  == Power(2, IntBits)
LeastInt == -Power(2, IntBits - 1)
Wrap(x)  == ((x - LeastInt) % IntSize) + LeastInt

Magnitude(x) == IF x < 0 THEN -x ELSE x

(* a / b and a % b in C: the quotient is cut towards 0.                    *)
Quot(a, b) ==
  LET q == Magnitude(a) \div Magnitude(b) IN IF (a < 0) = (b < 0) THEN q ELSE -q
Rem(a, b) == a - Quot(a, b) * b

Figures == <<"0", "1", "2", "3", "4", "5", "6", "7", "8", "9", "a", "b", "c", "d", "e", "f",
             "g", "h", "i", "j", "k", "l", "m", "n", "o", "p", "q", "r", "s", "t", "u", "v",
             "w", "x", "y", "z">>
IsDigit(c) == c \in { Figures[i] : i \in 1 .. 10 }
DigitOf(c) == CHOOSE d \in 0 .. Len(Figures) - 1 : Figures[d + 1] = c

(* atoi: blanks, a sign, and the digits up to the first character that is  *)
(* none; an int that overflows wraps around.  atol is the same, as a long  *)
(* is an int in this build.                                                *)
Atoi(s) ==
  LET start  == Sets!Min({ i \in DOMAIN s : s[i] \notin {" ", "HT", "NL"} } \cup {Len(s) + 1})
      signed == start <= Len(s) /\ s[start] \in {"-", "+"}
      first  == IF signed THEN start + 1 ELSE start
      end    == Sets!Min({ i \in first .. Len(s) : ~IsDigit(s[i]) } \cup {Len(s) + 1})
      result[i \in first - 1 .. end - 1] ==
        IF i = first - 1 THEN 0 ELSE Wrap(result[i - 1] * 10 + DigitOf(s[i]))
  IN  Wrap((IF signed /\ s[start] = "-" THEN -1 ELSE 1) * result[end - 1])

(* What is left of a number after k divisions by the base.                 *)
Divided(v, base) ==
  LET left[k \in 0 .. IntBits] == IF k = 0 THEN v ELSE Quot(left[k - 1], base) IN left

DigitsOf_WhilePositive(v, base) ==
  LET left == Divided(v, base)
      n    == Sets!Min({ k \in 1 .. IntBits : left[k] <= 0 })
  IN  [i \in 1 .. n |-> Figures[Magnitude(Rem(left[n - i], base)) + 1]]

(* The loops that write the digits of a number, of itoa (with its table of *)
(* both signs) and of the directives of vsprintf: the lowest digit is      *)
(* written first, one for each division until 0 is left.                   *)
DigitsOf(v, base) ==
  LET left == Divided(v, base)
      n    == Sets!Min({ k \in 1 .. IntBits : left[k] = 0 })
  IN  [i \in 1 .. n |-> Figures[Magnitude(Rem(left[n - i], base)) + 1]]

(* itoa, and ltoa.                                                         *)
Itoa(v, base) ==
  IF base \notin 2 .. 36 THEN <<>>
  ELSE (IF v < 0 THEN <<"-">> ELSE <<>>) \o DigitsOf(v, base)

-----------------------------------------------------------------------------
(* The arguments of a call of printf.                                      *)
Number(n)    == [number |-> n]
String(s)    == [string |-> s]
Character(c) == [character |-> c]

Capitals   == [a |-> "A", b |-> "B", c |-> "C", d |-> "D", e |-> "E", f |-> "F"]
Capital(c) == IF c \in DOMAIN Capitals THEN Capitals[c] ELSE c

(* What a directive makes of its argument.  "?" stands for a text that is  *)
(* not determined: the argument is of another kind (a %s takes a number    *)
(* for an address), or it is the least int, whose negation overflows.  A   *)
(* NULL for a %s, which nobody here passes, has no case.                   *)
Converted(ch, arg) ==
  CASE ch = "c" /\ "character" \in DOMAIN arg         -> <<arg.character>>
    [] ch = "s" /\ "string" \in DOMAIN arg            -> arg.string
    [] ch \in {"d", "i"} /\ "number" \in DOMAIN arg   ->
         IF arg.number = LeastInt THEN <<"-", "?">>
         ELSE (IF arg.number < 0 THEN <<"-">> ELSE <<>>) \o DigitsOf(Magnitude(arg.number), 10)
    [] ch = "u" /\ "number" \in DOMAIN arg            -> DigitsOf(arg.number % IntSize, 10)
    [] ch = "x" /\ "number" \in DOMAIN arg           -> DigitsOf(arg.number % IntSize, 16)
    [] ch = "X" /\ "number" \in DOMAIN arg           ->
         [i \in DOMAIN DigitsOf(arg.number % IntSize, 16) |-> Capital(DigitsOf(arg.number % IntSize, 16)[i])]
    [] OTHER                                          -> <<"?">>

UpTo(n, s) == SubSeq(s, 1, IF n < Len(s) THEN n ELSE Len(s))

(* One turn of vsprintf's loop per character of the format; open after a   *)
(* '%'.  A directive it does not know is copied and takes no argument: so  *)
(* of a width or a flag, and the letters after it are text.                *)
Turn(st, ch) ==
  LET takes == ch \in {"c", "s", "d", "i", "u", "x", "X"}
      text  == CASE takes    -> Converted(ch, Head(st.args))
                 [] ch = "%" -> <<"%">>
                 [] OTHER    -> <<"%", ch>>
      full  == Len(st.text) >= Limit
  IN  CASE st.open -> [text |-> UpTo(Limit, st.text \o text), open |-> FALSE,
                       args |-> IF takes THEN Tail(st.args) ELSE st.args]
        [] ~st.open /\ full               -> st
        [] ~st.open /\ ~full /\ ch = "%"  -> [st EXCEPT !.open = TRUE]
        [] ~st.open /\ ~full /\ ch # "%"  -> [st EXCEPT !.text = Append(@, ch)]

(* vsprintf, and what printf writes to the console.                        *)
Printf(format, args) ==
  LET turn[k \in 0 .. Len(format)] ==
        IF k = 0 THEN [text |-> <<>>, args |-> args, open |-> FALSE] ELSE Turn(turn[k - 1], format[k])
  IN  turn[Len(format)].text
=============================================================================
