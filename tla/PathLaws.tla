------------------------------ MODULE PathLaws ------------------------------
(***************************************************************************)
(* A user types a path piece by piece and changes to it, in a file system  *)
(* that has every directory (what fs_change_directory and cmd_cd do to the *)
(* current directory when no lookup fails), and what the functions of      *)
(* Paths owe to any path and any current directory that come up.           *)
(***************************************************************************)
EXTENDS Paths, FiniteSets, SequencesExt

CONSTANTS
  MaxPieces,  (* bound: the pieces of a path that is typed                 *)
  MaxPlace,   (* bound: how deep the user goes                             *)
  Home        (* where cmd_cd goes without an argument                     *)

ASSUME PathLawsAssumption ==
  /\ MaxPieces \in Nat \ {0} /\ MaxPlace \in Nat
  /\ Home \in Seq(Files) /\ Home # <<>> /\ Len(Home) <= MaxPlace
  /\ MaxPlace < MaxDepth

VARIABLES
  path,   (* what the user has typed: the argument of cd                   *)
  cwd,    (* current_dir                                                   *)
  place   (* where a walk that takes each piece at its word has led        *)

vars == <<path, cwd, place>>

Init == path \in { <<p>> : p \in Piece } /\ cwd = RootDir /\ place = <<>>

Type(piece) ==
  /\ Len(path) < MaxPieces
  /\ path' = Append(path, piece)
  /\ UNCHANGED <<cwd, place>>

(* What survives of the first n pieces of a path: the names that no later  *)
(* ".." takes back, which is those after which the ".."s never outnumber   *)
(* the names.  The i-th of them is the one that has i of them up to it.    *)
Count(p, i, j, S)  == Cardinality({ k \in i .. j : p[k] \in S })
Survives(p, n, k)  ==
  /\ p[k] \in Files
  /\ \A j \in k + 1 .. n : Count(p, k + 1, j, {".."}) <= Count(p, k + 1, j, Files)
Survivors(p, n) ==
  LET at == { k \in 1 .. n : Survives(p, n, k) }
  IN  [i \in 1 .. Cardinality(at) |-> p[CHOOSE k \in at : Cardinality({ j \in at : j <= k }) = i]]

(* How much of a path fs_normalize_path gets to see: all of it, unless     *)
(* MaxDepth components are on its stack before the end.                    *)
Seen(p) == Min({ n \in 0 .. Len(p) : Len(Survivors(p, n)) = MaxDepth } \cup {Len(p)})

(* The path that a walk takes all in all.                                  *)
Way(from, p) == (IF IsAbsolute(p) THEN <<>> ELSE from) \o p
Walk(from, p) == Survivors(Way(from, p), Len(Way(from, p)))

(* Typing starts over after each command.  Bound: nobody goes as deep as   *)
(* the limit of fs_normalize_path.                                         *)
Cd ==
  /\ Seen(Way(cwd, path)) = Len(Way(cwd, path))
  /\ cwd' = Target(path, cwd)
  /\ place' = Walk(place, path)
  /\ Len(place') <= MaxPlace
  /\ path' \in { <<p>> : p \in Piece }

CdHome ==
  /\ cwd' = <<Empty>> \o Home
  /\ place' = Home
  /\ path' \in { <<p>> : p \in Piece }

Next == (\E piece \in Piece : Type(piece)) \/ Cd \/ CdHome

Spec == Init /\ [][Next]_vars

-----------------------------------------------------------------------------
(* A path in the one spelling that fs_normalize_path gives it, and the     *)
(* number of its components.                                               *)
Canonical(p) ==
  p = RootDir \/ (Len(p) > 1 /\ p[1] = Empty /\ \A k \in 2 .. Len(p) : p[k] \in Files)
Depth(p) == IF p = RootDir THEN 0 ELSE Len(p) - 1

PathTo(names) == IF names = <<>> THEN RootDir ELSE <<Empty>> \o names

(* fs_normalize_path leaves the names that no ".." takes back, in order    *)
(* and nothing else (a ".." too many at the root is ignored).  Of a path   *)
(* that goes MaxDepth deep it takes what comes before that point only      *)
(* (66): no ".." after it counts.                                          *)
KeepsSurvivors == Normalize(path) = PathTo(Survivors(path, Seen(path)))

(* Whatever the order of cd, cd .., cd . and cd, current_dir is where a    *)
(* walk piece by piece leads: the shortcut for ".." (346, which works on   *)
(* text, with or without the trailing slash that a cd has left) agrees     *)
(* with what the normalisation makes of ".." inside a longer path.         *)
WalksTogether == cwd \in {PathTo(place), WithSlash(PathTo(place))}

(* A relative path means the same from a directory however that directory  *)
(* is spelled, and an absolute one the same from everywhere, so that a     *)
(* name in the table has one spelling only.  ".." inside a path leads to   *)
(* the parent from every directory that is not MaxDepth deep.              *)
OneSpelling ==
  /\ Absolute(path, WithSlash(cwd)) = Absolute(path, cwd)
  /\ Absolute(Absolute(path, cwd), <<Empty>> \o Home) = Absolute(path, cwd)
  /\ Canonical(Absolute(path, cwd))
  /\ Depth(Absolute(path, cwd)) < MaxDepth =>
       Absolute(<<"..">>, WithSlash(Absolute(path, cwd))) = Parent(Absolute(path, cwd))

(* fs_get_directory and fs_get_filename take a path apart at the one place *)
(* from which fs_get_absolute_path puts it together again, and that        *)
(* directory is the one "cd .." goes to.                                   *)
SplitsAndJoins ==
  LET full == Absolute(path, cwd)
  IN  full # RootDir =>
        /\ Absolute(<<FileName(full)>>, Directory(full)) = full
        /\ Directory(full) = Parent(full)
=============================================================================
