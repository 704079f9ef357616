-------------------------------- MODULE Paths --------------------------------
(***************************************************************************)
(* The path functions of kernel/fs.c (55-156, and the path part of         *)
(* fs_change_directory, 340-362).                                          *)
(*                                                                         *)
(* A path is the nonempty sequence of the slash-free pieces between its    *)
(* slashes, in order: "/" is <<"", "">>, "/a/b" is <<"", "a", "b">>, "a/"  *)
(* is <<"a", "">> and the empty string is <<"">>.  So "%s/%s" is the       *)
(* concatenation of two paths, strtok(.., "/") yields the nonempty pieces, *)
(* and cutting a path at its last slash drops the last piece.              *)
(*                                                                         *)
(* Every path is shorter than FS_MAX_FILENAME_LENGTH, so that no strncpy   *)
(* or snprintf below cuts it and cmd_mkdir and fs_change_directory find    *)
(* room for the slash they append.                                         *)
(***************************************************************************)
EXTENDS Integers, Sequences

Seqs == INSTANCE SequencesExt

CONSTANTS
  Files,     (* the pieces that are names: not "", "." or ".."             *)
  MaxDepth   (* FS_MAX_PATH_DEPTH                                          *)

(* The empty piece: before the first slash of an absolute path, between    *)
(* two slashes in a row and behind a slash at the end.                     *)
Empty == ""

ASSUME PathsAssumption ==
  /\ Files \intersect {Empty, ".", ".."} = {}
  /\ MaxDepth \in Nat \ {0}

Piece   == Files \cup {Empty, ".", ".."}
RootDir == <<Empty, Empty>>

IsAbsolute(path)  == Len(path) > 1 /\ path[1] = Empty
EndsInSlash(path) == Len(path) > 1 /\ path[Len(path)] = Empty

-----------------------------------------------------------------------------
(* The definitions with an underscore in their names, here and below, are  *)
(* mistakes to check the properties with.                                  *)
Enter_StuckAtRoot(stack, piece) ==
  IF Len(stack) = MaxDepth THEN stack
  ELSE CASE piece \in {Empty, "."} -> stack
         [] piece = ".." -> IF Len(stack) > 1 THEN Seqs!Front(stack) ELSE stack
         [] OTHER        -> Append(stack, piece)

(* One turn of fs_normalize_path's loop on its stack of components; the    *)
(* loop has ended for good once the stack holds MaxDepth of them.          *)
Enter(stack, piece) ==
  IF Len(stack) = MaxDepth THEN stack
  ELSE CASE piece \in {Empty, "."} -> stack
         [] piece = ".." -> IF stack # <<>> THEN Seqs!Front(stack) ELSE stack
         [] OTHER        -> Append(stack, piece)

(* The stack after the first k pieces of a path.                           *)
Stack(path) ==
  LET stack[k \in 0 .. Len(path)] ==
        IF k = 0 THEN <<>> ELSE Enter(stack[k - 1], path[k])
  IN  stack

(* fs_normalize_path *)
Normalize(path) ==
  LET components == Stack(path)[Len(path)]
  IN  IF components = <<>> THEN RootDir ELSE <<Empty>> \o components

Absolute_ForgetsCwd(path, cwd) == Normalize(<<Empty>> \o path)

(* fs_get_absolute_path *)
Absolute(path, cwd) ==
  IF IsAbsolute(path) THEN Normalize(path) ELSE Normalize(cwd \o path)

Parent_KeepsSlash(dir) ==
  LET cut == Seqs!Front(dir)
  IN  IF dir = RootDir \/ cut \in {<<>>, <<Empty>>} THEN RootDir ELSE cut

(* fs_get_parent_directory: one trailing slash off, then the cut at the    *)
(* last slash that is left; no slash, or only the first, leaves "/".       *)
Parent(dir) ==
  LET bare == IF EndsInSlash(dir) THEN Seqs!Front(dir) ELSE dir
      cut  == Seqs!Front(bare)
  IN  IF dir = RootDir \/ cut \in {<<>>, <<Empty>>} THEN RootDir ELSE cut

(* fs_get_filename *)
FileName(path) == path[Len(path)]

Directory_DropsSlash(path) == IF Len(path) = 1 THEN <<".">> ELSE Seqs!Front(path)

(* fs_get_directory *)
Directory(path) ==
  CASE Len(path) = 1                -> <<".">>
    [] Seqs!Front(path) = <<Empty>> -> RootDir
    [] OTHER                        -> Seqs!Front(path)

(* What fs_list_directory, fs_change_directory and cmd_mkdir do to a path  *)
(* before they compare or store it.                                        *)
WithSlash(path) == IF EndsInSlash(path) THEN path ELSE Append(path, Empty)

(* fs_change_directory up to its lookup: the path it will look up, or the  *)
(* one it takes without a lookup.                                          *)
Unchecked(arg) == arg \in {<<"..">>, <<".">>}
Target(arg, cwd) ==
  CASE arg = <<"..">> -> Parent(cwd)
    [] arg = <<".">>  -> cwd
    [] OTHER          -> WithSlash(Absolute(arg, cwd))
=============================================================================
