------------------------------- MODULE MCMkdir -------------------------------
(* A user who makes a directory below "/", with one of fs_init's there.    *)
EXTENDS Shell

MCNames == {<<"", "">>, <<"", "home">>, <<"", "d">>, <<"", "d", "">>}
MCArgs  == {<<"d">>, <<"..">>}
MCContents == {<<"x">>}
MCBoot  == << [op |-> "create", name |-> <<"", "">>, dir |-> TRUE],
              [op |-> "create", name |-> <<"", "home">>, dir |-> TRUE] >>
=============================================================================
