------------------------------ MODULE MCShellCd ------------------------------
(* A user who tries to go to a directory that fs_init has made.            *)
EXTENDS Shell

MCNames == {<<"", "">>, <<"", "home">>, <<"", "home", "">>}
MCArgs  == {<<"", "home">>, <<"home">>, <<"..">>}
MCContents == {<<"x">>}
MCBoot  == << [op |-> "create", name |-> <<"", "">>, dir |-> TRUE],
              [op |-> "create", name |-> <<"", "home">>, dir |-> TRUE] >>
=============================================================================
