------------------------------- MODULE MCShell -------------------------------
(* Three of fs_init's directories, a file, and room for one entry more     *)
(* (two or three once something is removed); paths up, down, to the root,  *)
(* to a directory of fs_init and to one directory in two spellings.  Names *)
(* go two pieces deep below "/".                                           *)
EXTENDS Listing

MCFiles == {"d", "home", "user", "root"}
Two     == {<<"d">>, <<"home">>, <<"root">>, <<"d", "d">>, <<"home", "d">>,
            <<"root", "d">>, <<"home", "user">>, <<"d", "user">>}
MCNames == {<<"", "">>} \cup { <<"">> \o p : p \in Two } \cup { <<"">> \o p \o <<"">> : p \in Two }
MCArgs  == {<<"..">>, <<"d">>, <<"d", "..", "d">>, <<"", "home">>, <<"..", "d">>, <<"", "">>}
MCContents == {<<"x">>}
Made(n) == [op |-> "create", name |-> n, dir |-> TRUE]
MCBoot  == << Made(<<"", "">>), Made(<<"", "home">>),
              Made(<<"", "home", "user">>),
              [op |-> "write", name |-> <<"", "d">>, data |-> <<"x">>] >>
=============================================================================
