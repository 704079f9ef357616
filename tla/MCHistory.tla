------------------------------ MODULE MCHistory ------------------------------
(* A user who enters a line or two and asks for the history.               *)
EXTENDS CommandLine

MCSessions == [any |-> [most |-> 3, lines |-> { <<"history">>, <<"a">> }]]
=============================================================================
