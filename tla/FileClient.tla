----------------------------- MODULE FileClient -----------------------------
(***************************************************************************)
(* FileSystem together with what its callers may expect of it: for each    *)
(* name, the contents last written there with success, and the bytes of    *)
(* data[] that fs_write_file took from data_used for it when it made the   *)
(* entry.                                                                  *)
(*                                                                         *)
(* fs_create_file takes none (171, 178), and rewriting a file takes no     *)
(* more (199-201).  So a caller whose rewrites stay within the room of the *)
(* first write finds a FileStore (Careful; fs_init and the shell, which    *)
(* never writes, are such callers), and any other, such as the test of     *)
(* scripts/test_fs_shell.c, which writes to files that it has created      *)
(* empty, may find that its files overlap.                                 *)
(***************************************************************************)
EXTENDS FileSystem

CONSTANTS
  Careful,     (* whether callers rewrite files only within their room     *)
  Directory    (* what FileStore has for a directory                       *)

ASSUME FileClientAssumption == Careful \in BOOLEAN /\ Directory \notin Seq(Bytes)

VARIABLE expected  (* each existing name, with the contents and the room   *)

cvars == <<vars, expected>>

InRoom(c) ==
  c.op = "write" /\ c.name \in DOMAIN expected
    => Len(c.data) <= expected[c.name].room

(* What a caller expects after the call c, if it has returned 0.           *)
Expect(c, is) ==
  CASE c.op = "create" -> [data |-> <<>>, room |-> 0]
    [] c.op = "write" /\ c.name \in DOMAIN is ->
         [is[c.name] EXCEPT !.data = c.data]
    [] OTHER -> [data |-> c.data, room |-> Len(c.data)]

Note(c) ==
  expected' =
    IF ret' # 0 THEN expected
    ELSE IF c.op = "delete"
    THEN [n \in DOMAIN expected \ {c.name} |-> expected[n]]
    ELSE [n \in DOMAIN expected \cup {c.name} |->
            IF n = c.name THEN Expect(c, expected) ELSE expected[n]]

CInit == Init /\ expected = <<>>

CNext ==
  \/ Boot /\ Note(Head(boot))
  \/ \E c \in Calls : (Careful => InRoom(c)) /\ Serve(c) /\ Note(c)

CSpec == CInit /\ [][CNext]_cvars

-----------------------------------------------------------------------------
ContentsOf(n) ==
  IF entries[Find(n)].dir THEN Directory ELSE ReadFile(n, MaxFileSize)

(* fs_read_file returns what the last successful fs_write_file of that     *)
(* name was given (nothing, for a file that was only created), as          *)
(* scripts/test_fs_shell.c:17-38 writes two files and prints "Content of   *)
(* /test.txt" and the other's.                                             *)
ReadBack ==
  \A n \in DOMAIN expected :
    ContentsOf(n) \in {Directory, expected[n].data}

(* The bytes set aside for two files never overlap and none is free to be  *)
(* set aside again, however entries were deleted and moved in between; and *)
(* no file has outgrown its own.                                           *)
RoomsDisjoint ==
  /\ DOMAIN expected = { entries[i].name : i \in DOMAIN entries }
  /\ \A i \in DOMAIN entries :
       LET room == expected[entries[i].name].room
       IN  /\ entries[i].size <= room
           /\ entries[i].offset + room <= dataUsed
           /\ \A j \in DOMAIN entries \ {i} :
                \/ entries[i].offset + room <= entries[j].offset
                \/ entries[j].offset + expected[entries[j].name].room
                     <= entries[i].offset

(* The file system of careful callers implements FileStore: every call     *)
(* does to the contents behind the names what FileStore says, and nothing  *)
(* to those behind any other name.                                         *)
Abs == INSTANCE FileStore WITH
         files <- [n \in { entries[i].name : i \in DOMAIN entries } |->
                     ContentsOf(n)]

FileStoreSpec == Abs!Spec
=============================================================================
