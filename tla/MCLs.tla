-------------------------------- MODULE MCLs --------------------------------
(* ls after a boot that has made a directory and a file in "/".            *)
EXTENDS Listing

MCNames == {<<"", "">>, <<"", "home">>, <<"", "f">>}
MCArgs  == {<<"f">>, <<"home">>, <<"", "">>}
MCContents == {<<"x">>}
MCBoot  == << [op |-> "create", name |-> <<"", "">>, dir |-> TRUE],
              [op |-> "create", name |-> <<"", "home">>, dir |-> TRUE],
              [op |-> "write", name |-> <<"", "f">>, data |-> <<"x">>] >>
=============================================================================
