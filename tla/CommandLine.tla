---------------------------- MODULE CommandLine ----------------------------
(***************************************************************************)
(* What shell_process_command of kernel/shell.c does with a line: it puts  *)
(* the line into the history, a ring of the last lines, takes it apart     *)
(* into words, and runs a command.  Of the commands, those whose answer is *)
(* made from the words alone are here: history, calc and echo (Shell has   *)
(* those that work on the file system).  An answer is the text that they   *)
(* print; headings and the wording of messages are left out.               *)
(*                                                                         *)
(* Lines are shorter than SHELL_MAX_COMMAND_LENGTH, so that no copy of     *)
(* them is cut, as those of keyboard_get_line are.                         *)
(***************************************************************************)
EXTENDS Libc, FiniteSets

Texts == INSTANCE SequencesExt

CONSTANTS
  HistorySize,  (* SHELL_HISTORY_SIZE                                      *)
  MaxArgs,      (* SHELL_MAX_ARGS                                          *)
  Sessions,     (* bound: what a user may do between two boots, by names:  *)
                (* the lines he chooses from and how many he enters        *)
  Bases         (* the bases that numbers are written in                   *)

ASSUME CommandLineAssumption ==
  /\ HistorySize \in Nat \ {0} /\ MaxArgs \in Nat \ {0}
  /\ \A s \in DOMAIN Sessions :
       Sessions[s].most \in Nat /\ Sessions[s].lines \subseteq Seq(STRING) \ {<<>>}
  /\ 10 \in Bases /\ Bases \subseteq 2 .. 36
  /\ 3 * Len(Itoa(LeastInt, 10)) + 7 <= Limit   (* what calc prints fits *)

VARIABLES
  history,  (* command_history                                             *)
  count,    (* history_count                                               *)
  out,      (* what the last command printed                               *)
  session,  (* the user; not in the code                                   *)
  log       (* the lines entered since the machine was switched on, the    *)
            (* oldest first; not in the code                               *)

lvars == <<history, count, out, session, log>>

Blanks == {" ", "HT", "NL"}

-----------------------------------------------------------------------------
(* argv: the words of the line as up to SHELL_MAX_ARGS calls of strtok     *)
(* return them.                                                            *)
Take(st) ==
  LET t == Strtok(st.rest, Blanks)
  IN  IF t.token = <<>> THEN st ELSE [argv |-> Append(st.argv, t.token), rest |-> t.rest]

Taken(line) ==
  LET taken[n \in 0 .. MaxArgs] ==
        IF n = 0 THEN [argv |-> <<>>, rest |-> line] ELSE Take(taken[n - 1])
  IN  taken

Argv(line) == Taken(line)[MaxArgs].argv

HistoryRows_FromFirst(hist, n) ==
  [i \in 1 .. (IF n < HistorySize THEN n ELSE HistorySize) |-> <<i, hist[i - 1]>>]

(* The lines that cmd_history shows and the numbers it gives them.         *)
HistoryRows(hist, n) ==
  LET first == IF n > HistorySize THEN n - HistorySize ELSE 0
      shown == IF n < HistorySize THEN n ELSE HistorySize
  IN  [i \in 1 .. shown |-> <<first + i, hist[(first + i - 1) % HistorySize]>>]

(* The row's format is not one that printf knows.                          *)
HistoryAnswer(hist, n) ==
  Texts!FlattenSeq([i \in DOMAIN HistoryRows(hist, n) |->
                Printf(<<"%", "3", "d", " ", " ", "%", "s", "NL">>,
                       <<Number(HistoryRows(hist, n)[i][1]), String(HistoryRows(hist, n)[i][2])>>)])

EchoAnswer_AsFormat(argv) ==
  Texts!FlattenSeq([i \in 1 .. Len(argv) - 1 |->
                Printf(argv[i + 1], <<>>) \o (IF i < Len(argv) - 1 THEN <<" ">> ELSE <<>>)])
    \o <<"NL">>

(* cmd_echo *)
EchoAnswer(argv) ==
  Texts!FlattenSeq([i \in 1 .. Len(argv) - 1 |->
                Printf(<<"%", "s">>, <<String(argv[i + 1])>>)
                  \o (IF i < Len(argv) - 1 THEN <<" ">> ELSE <<>>)])
    \o <<"NL">>

Calculated_Floors(a, op, b) ==
  CASE op = "+" -> Wrap(a + b)
    [] op = "-" -> Wrap(a - b)
    [] op = "*" -> Wrap(a * b)
    [] op = "/" -> IF b > 0 THEN a \div b ELSE (-a) \div (-b)

(* cmd_calc, which looks at the first character of the operator only.      *)
Calculated(a, op, b) ==
  CASE op = "+" -> Wrap(a + b)
    [] op = "-" -> Wrap(a - b)
    [] op = "*" -> Wrap(a * b)
    [] op = "/" -> Quot(a, b)

CalcAnswer(argv) ==
  LET a  == Atoi(argv[2])
      op == argv[3][1]
      b  == Atoi(argv[4])
  IN  IF Len(argv) < 2 THEN <<"Usage">>
      ELSE IF Len(argv) < 4 THEN <<"Invalid expression">>
      ELSE CASE op \notin {"+", "-", "*", "/"} -> <<"Unknown operator">>
             [] op = "/" /\ b = 0              -> <<"Division by zero">>
             [] OTHER -> Printf(<<"%", "d", " ", "%", "c", " ", "%", "d", " ", "=", " ", "%", "d", "NL">>,
                                <<Number(a), Character(op), Number(b), Number(Calculated(a, op, b))>>)

(* The quotient that no int holds.  The processor's division traps, the    *)
(* kernel has no interrupt table, and the machine starts again.            *)
Traps(argv) ==
  /\ Len(argv) >= 4 /\ argv[1] = <<"calc">> /\ argv[3][1] = "/"
  /\ Atoi(argv[2]) = LeastInt /\ Atoi(argv[4]) = -1

Answer(argv, hist, n) ==
  IF argv = <<>> THEN <<>>
  ELSE CASE argv[1] = <<"history">> -> HistoryAnswer(hist, n)
         [] argv[1] = <<"calc">>    -> CalcAnswer(argv)
         [] argv[1] = <<"echo">>    -> EchoAnswer(argv)
         [] OTHER                   -> <<"command not found">>

-----------------------------------------------------------------------------
Booted ==
  /\ history = [i \in 0 .. HistorySize - 1 |-> <<>>]
  /\ count = 0
  /\ out = <<>>
  /\ log = <<>>

LInit == session \in DOMAIN Sessions /\ Booted

(* shell_add_to_history: a line of blanks goes into it too.                *)
AddToHistory(line) ==
  /\ history' = [history EXCEPT ![count % HistorySize] = line]
  /\ count' = count + 1

ProcessCommand(line) ==
  /\ AddToHistory(line)
  /\ ~Traps(Argv(line))
  /\ out' = Answer(Argv(line), history', count')
  /\ log' = Append(log, line)
  /\ UNCHANGED session

Reboot ==
  /\ history' = [i \in 0 .. HistorySize - 1 |-> <<>>]
  /\ count' = 0 /\ out' = <<>> /\ log' = <<>>
  /\ UNCHANGED session

(* The user enters a line that is not empty (214), or switches the machine *)
(* off and on.                                                             *)
EnterLine ==
  /\ Len(log) < Sessions[session].most
  /\ \E line \in Sessions[session].lines : ProcessCommand(line) \/ (Traps(Argv(line)) /\ Reboot)

LNext == EnterLine \/ Reboot

LSpec == LInit /\ [][LNext]_lvars

-----------------------------------------------------------------------------
(* The last lines entered, as many as the ring holds, the oldest first,    *)
(* each with its number since the beginning.                               *)
KeptLines ==
  LET kept == IF Len(log) < HistorySize THEN Len(log) ELSE HistorySize
  IN  [i \in 1 .. kept |-> <<Len(log) - kept + i, log[Len(log) - kept + i]>>]

(* What cmd_history takes out of the ring and hands to printf, one call    *)
(* for a row, are these lines and numbers, however often the ring has gone *)
(* round (147-166, 615-622).  What printf makes of a row is another        *)
(* question: HistoryShows.                                                 *)
HistoryKept == HistoryRows(history, count) = KeptLines

(* The words of a line, by the places where they begin and end: the i-th   *)
(* is the one that has i beginnings up to its own.                         *)
Word(line, b, e) ==
  /\ \A k \in b .. e : line[k] \notin Blanks
  /\ b = 1 \/ line[b - 1] \in Blanks
  /\ e = Len(line) \/ line[e + 1] \in Blanks

TheWords(line) ==
  LET ends(b) == { e \in b .. Len(line) : Word(line, b, e) }
      at      == { b \in 1 .. Len(line) : ends(b) # {} }
      word    == [b \in at |-> SubSeq(line, b, CHOOSE e \in ends(b) : TRUE)]
  IN  [i \in 1 .. Cardinality(at) |-> word[CHOOSE b \in at : Cardinality({ c \in at : c <= b }) = i]]

Entered == log # <<>>
Words   == UpTo(MaxArgs, TheWords(log[Len(log)]))

(* shell.c:61 "Show command history": what history prints has the lines    *)
(* that the ring keeps in it.                                              *)
HistoryShows ==
  Entered /\ Words # <<>> /\ Words[1] = <<"history">> =>
    \A i \in DOMAIN KeptLines : KeptLines[i][2] \in Texts!SubSeqs(out)

(* argv is the words of the line, whatever blanks lie before, between and  *)
(* after them, and the first SHELL_MAX_ARGS if there are more: strtok      *)
(* (199-235) skips no character and returns no empty word.                 *)
WordsExact == Entered => Argv(log[Len(log)]) = Words

(* echo prints its words, one blank between two of them, and whatever a    *)
(* word looks like, a '%' in it too: as much of each as printf's buffer    *)
(* holds, and then goes on with the next.                                  *)
EchoExact ==
  Entered /\ Words # <<>> /\ Words[1] = <<"echo">> =>
    LET shown == [i \in 1 .. 2 * (Len(Words) - 1) |->
                    IF i % 2 = 1 THEN UpTo(Limit, Words[i \div 2 + 2])
                    ELSE IF i < 2 * (Len(Words) - 1) THEN <<" ">> ELSE <<>>]
    IN  out = Texts!FlattenSeq(shown) \o <<"NL">>

(* A numeral, and what it means in a base: the sum of its places.          *)
Unsigned(w) == IF w # <<>> /\ w[1] \in {"-", "+"} THEN Tail(w) ELSE w
Numeral(w)  == Unsigned(w) # <<>> /\ \A i \in DOMAIN Unsigned(w) : IsDigit(Unsigned(w)[i])
Value(w, base) ==
  LET u == Unsigned(w)
      sum[i \in 0 .. Len(u)] ==
        IF i = 0 THEN 0 ELSE sum[i - 1] + DigitOf(u[i]) * Power(base, Len(u) - i)
  IN  (IF w[1] = "-" THEN -1 ELSE 1) * sum[Len(u)]
Ints  == LeastInt .. -LeastInt - 1
Shortest(w, base) ==
  /\ \A i \in DOMAIN Unsigned(w) : DigitOf(Unsigned(w)[i]) < base
  /\ w[1] # "+" /\ (Unsigned(w)[1] = "0" => w = <<"0">>)

(* atoi reads the number that a word means, and itoa writes a number as    *)
(* its numeral, in every base and for the least int too: the numeral means *)
(* the number and has no digit too many.                                   *)
NumbersReadBack ==
  Entered =>
    \A k \in DOMAIN Words :
      Numeral(Words[k]) /\ Value(Words[k], 10) \in Ints =>
        /\ Atoi(Words[k]) = Value(Words[k], 10)
        /\ \A base \in Bases :
             LET w == Itoa(Atoi(Words[k]), base)
             IN  Value(w, base) = Value(Words[k], 10) /\ Shortest(w, base)

Exact(a, op, b) ==
  CASE op = "+" -> a + b
    [] op = "-" -> a - b
    [] op = "*" -> a * b
    [] op = "/" -> CHOOSE q \in Ints :
                     /\ Magnitude(q * b) <= Magnitude(a) /\ Magnitude(a) < Magnitude(q * b) + Magnitude(b)
                     /\ q * b * a >= 0

(* From the line to the screen, calc's answer is right whenever an int can *)
(* hold it and its words (the least int aside, which %d does not print):   *)
(* it shows the two numbers that were typed and their exact sum,           *)
(* difference, product, or quotient cut towards 0.                         *)
CalcRight ==
  LET typed  == Len(Words) >= 4 /\ Words[1] = <<"calc">>
                  /\ Numeral(Words[2]) /\ Numeral(Words[4]) /\ Words[3] \in {<<"+">>, <<"-">>, <<"*">>, <<"/">>}
      a      == Value(Words[2], 10)
      op     == Words[3][1]
      b      == Value(Words[4], 10)
      writes(n) == { w \in Texts!SubSeqs(out) : Numeral(w) /\ Shortest(w, 10) /\ Value(w, 10) = n }
  IN  Entered /\ typed /\ ~(op = "/" /\ b = 0) /\ {a, b} \subseteq Ints \ {LeastInt} =>
        (Exact(a, op, b) \in Ints \ {LeastInt} =>
           \E x \in writes(a), y \in writes(b), z \in writes(Exact(a, op, b)) :
             out = x \o <<" ", op, " ">> \o y \o <<" ", "=", " ">> \o z \o <<"NL">>)
=============================================================================
