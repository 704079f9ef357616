---------------------------- MODULE MCFileClient ----------------------------
(* A table of three entries and four bytes of data, two to a file: two     *)
(* names besides "/" live at a time out of three, so that a file is        *)
(* deleted and made again while another lives on and the entry that a      *)
(* deletion moves is looked up; the table fills, data[] fills, a write is  *)
(* too long; and two byte values, so that bytes of one file that end up in *)
(* another are seen.                                                       *)
EXTENDS FileClient

MCNames    == {"/", "/a", "/b", "/c"}
MCBytes    == {"0", "x", "y"}
MCContents == {<<>>, <<"x">>, <<"y">>, <<"x", "y">>, <<"x", "x", "x">>}
MCBoot     == << [op |-> "create", name |-> "/", dir |-> TRUE],
                 [op |-> "write", name |-> "/a", data |-> <<"x", "y">>] >>
=============================================================================
