-------------------------------- MODULE Shell --------------------------------
(***************************************************************************)
(* The commands of kernel/shell.c that change something, on the file       *)
(* system of FileSystem and the paths of Paths: cd, mkdir, touch, rm,      *)
(* root, exit, su and hostname; and what ls finds (fs_list_directory).     *)
(* The shell handles one command at a time and starts when fs_init is      *)
(* done.  cat and the other commands change nothing but the screen.        *)
(*                                                                         *)
(* A name of the table is a path in the sense of Paths.  What a command    *)
(* prints is left out; ret is what the file system call behind the         *)
(* command returned, on which the message depends.                         *)
(***************************************************************************)
EXTENDS FileSystem, Paths

CONSTANTS
  Args,       (* the paths users type                                      *)
  Hosts,      (* the host names users type                                 *)
  Passwords   (* what users type when asked for the password               *)

ASSUME ShellAssumption ==
  /\ Root = RootDir
  /\ Args \subseteq Seq(Piece) \ {<<>>}
  /\ "alphaos" \in Hosts
  /\ {"root", "home", "user"} \subseteq Files /\ MaxDepth >= 2

(* A path without the slash behind its last name, and one that             *)
(* fs_normalize_path would leave as it is.                                 *)
Bare(path) ==
  IF EndsInSlash(path) /\ path[Len(path) - 1] # Empty
  THEN SubSeq(path, 1, Len(path) - 1) ELSE path
Canonical(path) ==
  \/ path = RootDir
  \/ Len(path) > 1 /\ path[1] = Empty /\ \A k \in 2 .. Len(path) : path[k] \in Files

(* The paths in fs_init are absolute and have no "." or ".." in them and   *)
(* no two slashes in a row, and only a directory's ends in a slash.        *)
ASSUME BootAssumption ==
  \A i \in DOMAIN BootCalls :
    LET call == BootCalls[i]
    IN  /\ call.name \in Seq(Piece)
        /\ Canonical(Bare(call.name)) /\ Len(Bare(call.name)) <= MaxDepth + 1
        /\ EndsInSlash(call.name) => call.op = "create" /\ call.dir

VARIABLES
  cwd,        (* current_dir                                               *)
  isRoot,     (* is_root                                                   *)
  username,   (* username                                                  *)
  hostname    (* hostname                                                  *)

session == <<cwd, isRoot, username, hostname>>
svars   == <<vars, session>>

RootHome == <<Empty, "root">>
UserHome == <<Empty, "home", "user">>

Ready == boot = <<>>

-----------------------------------------------------------------------------
SInit ==
  /\ Init
  /\ cwd = RootDir
  /\ isRoot = FALSE
  /\ username = "user"
  /\ hostname = "alphaos"

Start == Boot /\ UNCHANGED session

(* fs_change_directory with the table lookup, as cmd_cd calls it.          *)
Cd(arg) ==
  LET to == Target(arg, cwd)
      ok == Unchecked(arg) \/ Exists(to)
  IN  /\ cwd' = IF ok THEN to ELSE cwd
      /\ ret' = IF ok THEN 0 ELSE -1
      /\ UNCHANGED <<entries, data, dataUsed, isRoot, username, hostname>>

CdHome ==
  /\ cwd' = IF isRoot THEN RootHome ELSE UserHome
  /\ UNCHANGED <<entries, data, dataUsed, ret, isRoot, username, hostname>>

(* Bound: the names that are made are those of Names.                      *)
Mkdir(arg) ==
  LET path == WithSlash(Absolute(arg, cwd))
  IN  path \in Names /\ CreateFile(path, TRUE) /\ UNCHANGED session

Touch(arg) ==
  LET path == Absolute(arg, cwd)
  IN  path \in Names /\ CreateFile(path, FALSE) /\ UNCHANGED session

Rm(arg) == DeleteFile(Absolute(arg, cwd)) /\ UNCHANGED session

RootShell_KeepsName(password) ==
  /\ ~isRoot
  /\ IF password \in {"root", "admin"}
     THEN isRoot' = TRUE /\ username' = username /\ cwd' = RootHome
     ELSE UNCHANGED <<isRoot, username, cwd>>
  /\ UNCHANGED <<entries, data, dataUsed, ret, hostname>>

RootShell_NamesPassword(password) ==
  /\ ~isRoot
  /\ IF password \in {"root", "admin"}
     THEN isRoot' = TRUE /\ username' = password /\ cwd' = RootHome
     ELSE UNCHANGED <<isRoot, username, cwd>>
  /\ UNCHANGED <<entries, data, dataUsed, ret, hostname>>

(* cmd_root_shell: nothing is asked of a user who is root already.         *)
RootShell(password) ==
  /\ ~isRoot
  /\ IF password \in {"root", "admin"}
     THEN isRoot' = TRUE /\ username' = "root" /\ cwd' = RootHome
     ELSE UNCHANGED <<isRoot, username, cwd>>
  /\ UNCHANGED <<entries, data, dataUsed, ret, hostname>>

(* cmd_exit_root *)
ExitRoot ==
  /\ isRoot
  /\ isRoot' = FALSE /\ username' = "user" /\ cwd' = UserHome
  /\ UNCHANGED <<entries, data, dataUsed, ret, hostname>>

(* cmd_su only chooses between the two.                                    *)
Su(user, password) ==
  \/ user = "root" /\ RootShell(password)
  \/ user = "user" /\ ExitRoot

SetHostname(name) ==
  /\ isRoot
  /\ hostname' = name
  /\ UNCHANGED <<entries, data, dataUsed, ret, cwd, isRoot, username>>

Command ==
  \/ \E arg \in Args : Cd(arg) \/ Mkdir(arg) \/ Touch(arg) \/ Rm(arg)
  \/ CdHome
  \/ \E user \in {"root", "user"}, password \in Passwords : Su(user, password)
  \/ \E name \in Hosts : SetHostname(name)

SNext == Start \/ (Ready /\ Command /\ UNCHANGED boot)

SSpec == SInit /\ [][SNext]_svars

-----------------------------------------------------------------------------
IsBelow(name, dir) ==
  /\ Len(name) = Len(dir) /\ SubSeq(name, 1, Len(dir) - 1) = SubSeq(dir, 1, Len(dir) - 1)
  /\ name[Len(name)] # Empty

ListDirectory_Prefix(dirname) ==
  LET dir == WithSlash(Normalize(dirname))
  IN  { FileName(entries[i].name) : i \in
          { j \in DOMAIN entries :
              /\ Len(entries[j].name) >= Len(dir)
              /\ SubSeq(entries[j].name, 1, Len(dir) - 1) = SubSeq(dir, 1, Len(dir) - 1)
              /\ FileName(entries[j].name) # Empty } }

(* fs_list_directory: the names that are "dirname/" and one more piece.    *)
ListDirectory(dirname) ==
  LET dir == WithSlash(Normalize(dirname))
  IN  { FileName(entries[i].name) :
          i \in { j \in DOMAIN entries : IsBelow(entries[j].name, dir) } }

TheNames  == { entries[i].name : i \in DOMAIN entries }
FileNames == { entries[i].name : i \in { j \in DOMAIN entries : ~entries[j].dir } }

(* Types.                                                                  *)
STypeOK ==
  /\ TypeOK
  /\ cwd \in Seq(Piece) /\ IsAbsolute(cwd)
  /\ isRoot \in BOOLEAN
  /\ username \in {"user", "root"}
  /\ hostname \in Hosts

(* is_root, the name in the prompt and what "su" offers never part ways,   *)
(* though three commands write them: is_root is the privilege, username    *)
(* what whoami and info show of it.                                        *)
IdentityAgrees == isRoot <=> username = "root"

(* ls of a directory shows every file that fs_get_directory puts in it,    *)
(* and nothing that is not in it, one level up, one level down or beside   *)
(* it under a longer name: fs_list_directory tells this by comparing text. *)
(* (Whether it shows the directories too: DirectoriesFound.)               *)
ListsItsFiles ==
  \A dir \in {cwd} \cup { Directory(n) : n \in TheNames } :
    LET inside == { n \in TheNames \ {RootDir} : Directory(Bare(n)) = Bare(dir) }
    IN  /\ { FileName(n) : n \in inside \cap FileNames } \subseteq ListDirectory(dir)
        /\ ListDirectory(dir) \subseteq { FileName(Bare(n)) : n \in inside }

(* shell.c:50 "List directory contents", shell.c:56 "Remove a file or      *)
(* directory": each directory in the table is shown by ls of the one it is *)
(* in, and rm, which normalises what is typed, finds it.                   *)
DirectoriesFound ==
  Ready => \A n \in TheNames \ (FileNames \cup {RootDir}) :
             FileName(Bare(n)) \in ListDirectory(Directory(Bare(n))) /\ Exists(Normalize(n))

(* fs.c:39 "cd <path> : Change directory (supports .. and absolute paths)":*)
(* a path that leads to a directory of the table can be changed to.        *)
CdEnters ==
  [][\A arg \in Args :
       Ready /\ Cd(arg) /\ (\E i \in DOMAIN entries :
                              entries[i].dir /\ entries[i].name = Absolute(arg, cwd))
         => Bare(cwd') = Absolute(arg, cwd)]_svars
=============================================================================
