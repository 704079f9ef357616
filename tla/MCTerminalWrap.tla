--------------------------- MODULE MCTerminalWrap ---------------------------
(* One line that reaches the end of the row, typed with a key that prints  *)
(* and one that erases.                                                    *)
EXTENDS Terminal
=============================================================================
