---------------------------- MODULE MCFileOverlap ----------------------------
(* The two files of scripts/test_fs_shell.c:18-24, written by callers that *)
(* are not careful.                                                        *)
EXTENDS FileClient

MCNames    == {"/", "/test.txt", "/home/user/notes.txt"}
MCBytes    == {"0", "x", "y"}
MCContents == {<<"x">>, <<"y", "y">>}
MCBoot     == << [op |-> "create", name |-> "/", dir |-> TRUE] >>
=============================================================================
