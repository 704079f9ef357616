----------------------------- MODULE FileSystem -----------------------------
(***************************************************************************)
(* The in-memory file system of kernel/fs.c: a flat table of entries, each *)
(* with a full path for its name, and one array of file data that is only  *)
(* ever filled from the left (data_used).                                  *)
(*                                                                         *)
(* A name is one value: the table compares names with strcmp and never     *)
(* looks inside them (Paths models what the shell does to make one).  All  *)
(* names here are shorter than FS_MAX_FILENAME_LENGTH, as the shell's are: *)
(* fs_normalize_path cuts its input to 127 characters.  Times, permissions *)
(* and parent_index are written and never read back by the kernel, and     *)
(* have no field.  A byte is whatever Bytes holds.                         *)
(*                                                                         *)
(* fs_init is a list of calls of the operations below on a zeroed table;   *)
(* boot is the part of the list still to be made, and the callers that     *)
(* come after kernel_main's fs_init wait for its end.                      *)
(***************************************************************************)
EXTENDS Integers, Sequences

CONSTANTS
  Names,        (* the paths that callers pass                             *)
  Root,         (* "/"                                                     *)
  Bytes,        (* the byte values in a file                               *)
  ZeroByte,     (* what memset leaves                                      *)
  MaxFiles,     (* FS_MAX_FILES                                            *)
  MaxFileSize,  (* FS_MAX_FILE_SIZE                                        *)
  TotalData,    (* FS_TOTAL_DATA_SIZE                                      *)
  Contents,     (* what callers write                                      *)
  BootCalls     (* the calls of fs_init, in order                          *)

Calls ==
  [op : {"create"}, name : Names, dir : BOOLEAN]
    \cup [op : {"write"}, name : Names, data : Contents]
    \cup [op : {"delete"}, name : Names]

ASSUME FileSystemAssumption ==
  /\ Root \in Names
  /\ ZeroByte \in Bytes
  /\ MaxFiles \in Nat \ {0} /\ MaxFileSize \in Nat /\ TotalData \in Nat
  /\ Contents \subseteq Seq(Bytes)
  /\ BootCalls \in Seq(Calls) /\ BootCalls # <<>>
  /\ BootCalls[1] = [op |-> "create", name |-> Root, dir |-> TRUE]

VARIABLES
  entries,   (* entries[0 .. num_entries - 1]                              *)
  data,      (* data[]                                                     *)
  dataUsed,  (* data_used                                                  *)
  boot,      (* what is left of fs_init                                    *)
  ret        (* the value the last call returned                           *)

vars == <<entries, data, dataUsed, boot, ret>>

Entry == [name : Names, size : Nat, offset : Nat, dir : BOOLEAN]

-----------------------------------------------------------------------------
(* The lookup loop that every operation starts with: the first entry whose *)
(* name is n.                                                              *)
Exists(n) == \E i \in DOMAIN entries : entries[i].name = n
Find(n) ==
  CHOOSE i \in DOMAIN entries :
    /\ entries[i].name = n
    /\ \A j \in 1 .. i - 1 : entries[j].name # n

NewEntry(n, size, dir) ==
  [name |-> n, size |-> size, offset |-> dataUsed, dir |-> dir]

(* memcpy of d into data[] at offset o.                                    *)
Store(o, d) ==
  [a \in DOMAIN data |->
     IF a \in o .. o + Len(d) - 1 THEN d[a - o + 1] ELSE data[a]]

(* fs_file_size, and fs_read_file into a buffer of n bytes.                *)
FileSize(n) == IF Exists(n) THEN entries[Find(n)].size ELSE 0

Smaller(m, n) == IF m < n THEN m ELSE n
ReadFile(n, room) ==
  LET e == entries[Find(n)]
  IN  [k \in 1 .. Smaller(e.size, room) |-> data[e.offset + k - 1]]

-----------------------------------------------------------------------------
Init ==
  /\ entries = <<>>
  /\ data = [a \in 0 .. TotalData - 1 |-> ZeroByte]
  /\ dataUsed = 0
  /\ boot = BootCalls
  /\ ret = 0

Refuse(code) ==
  /\ ret' = code
  /\ UNCHANGED <<entries, data, dataUsed>>

(* The definitions with an underscore in their names are mistakes to check *)
(* the properties with: each takes the place of the definition after it in *)
(* a mutation run and nothing else uses it.                                *)
CreateNew_NoLookup(n, dir) ==
  /\ Len(entries) < MaxFiles
  /\ entries' = Append(entries, NewEntry(n, 0, dir))
  /\ ret' = 0
  /\ UNCHANGED <<data, dataUsed>>

(* fs_create_file.  A full table is noticed before an existing name.       *)
CreateNew(n, dir) ==
  /\ Len(entries) < MaxFiles /\ ~Exists(n)
  /\ entries' = Append(entries, NewEntry(n, 0, dir))
  /\ ret' = 0
  /\ UNCHANGED <<data, dataUsed>>

CreateFile(n, dir) ==
  \/ Len(entries) >= MaxFiles /\ Refuse(-1)
  \/ Len(entries) < MaxFiles /\ Exists(n) /\ Refuse(-2)
  \/ CreateNew(n, dir)

Admits_NoSpaceTest(d) == Len(d) <= MaxFileSize

(* fs_write_file.  The two size tests come first, so that even a rewrite   *)
(* that needs no new space is refused when data[] is full.                 *)
Admits(d) == Len(d) <= MaxFileSize /\ dataUsed + Len(d) <= TotalData

WriteOver_KeepsSize(n, d) ==
  /\ Admits(d)
  /\ Exists(n) /\ ~entries[Find(n)].dir
  /\ data' = Store(entries[Find(n)].offset, d)
  /\ ret' = 0
  /\ UNCHANGED <<entries, dataUsed>>

WriteOver_Advances(n, d) ==
  /\ Admits(d)
  /\ Exists(n) /\ ~entries[Find(n)].dir
  /\ entries' = [entries EXCEPT ![Find(n)].size = Len(d)]
  /\ data' = Store(entries[Find(n)].offset, d)
  /\ dataUsed' = dataUsed + Len(d)
  /\ ret' = 0

(* The name is there: the data goes where the entry has pointed since it   *)
(* was made, and data_used stays.                                          *)
WriteOver(n, d) ==
  /\ Admits(d)
  /\ Exists(n) /\ ~entries[Find(n)].dir
  /\ entries' = [entries EXCEPT ![Find(n)].size = Len(d)]
  /\ data' = Store(entries[Find(n)].offset, d)
  /\ ret' = 0
  /\ UNCHANGED dataUsed

WriteNew_NoAdvance(n, d) ==
  /\ Admits(d)
  /\ Len(entries) < MaxFiles /\ ~Exists(n)
  /\ entries' = Append(entries, NewEntry(n, Len(d), FALSE))
  /\ data' = Store(dataUsed, d)
  /\ ret' = 0
  /\ UNCHANGED dataUsed

(* The name is new: fs_create_file, then the data at data_used.            *)
WriteNew(n, d) ==
  /\ Admits(d)
  /\ Len(entries) < MaxFiles /\ ~Exists(n)
  /\ entries' = Append(entries, NewEntry(n, Len(d), FALSE))
  /\ data' = Store(dataUsed, d)
  /\ dataUsed' = dataUsed + Len(d)
  /\ ret' = 0

WriteFile(n, d) ==
  \/ Len(d) > MaxFileSize /\ Refuse(-1)
  \/ Len(d) <= MaxFileSize /\ dataUsed + Len(d) > TotalData /\ Refuse(-2)
  \/ Admits(d) /\ Exists(n) /\ entries[Find(n)].dir /\ Refuse(-3)
  \/ Admits(d) /\ ~Exists(n) /\ Len(entries) >= MaxFiles /\ Refuse(-4)
  \/ WriteOver(n, d)
  \/ WriteNew(n, d)

(* fs_delete_file: the last entry takes the place of the deleted one, and  *)
(* the deleted one's data stays counted in data_used.                      *)
Removed_Shifted(s, i) == SubSeq([s EXCEPT ![i] = s[Len(s)]], 2, Len(s))
Removed(s, i) == SubSeq([s EXCEPT ![i] = s[Len(s)]], 1, Len(s) - 1)

Remove_AnyName(n) ==
  /\ Exists(n)
  /\ entries' = Removed(entries, Find(n))
  /\ ret' = 0
  /\ UNCHANGED <<data, dataUsed>>

Remove(n) ==
  /\ Exists(n) /\ n # Root
  /\ entries' = Removed(entries, Find(n))
  /\ ret' = 0
  /\ UNCHANGED <<data, dataUsed>>

DeleteFile(n) ==
  \/ ~Exists(n) /\ Refuse(-1)
  \/ Exists(n) /\ n = Root /\ Refuse(-2)
  \/ Remove(n)

-----------------------------------------------------------------------------
Call(c) ==
  \/ c.op = "create" /\ CreateFile(c.name, c.dir)
  \/ c.op = "write" /\ WriteFile(c.name, c.data)
  \/ c.op = "delete" /\ DeleteFile(c.name)

(* The next call of fs_init, which looks at no result.                     *)
Boot ==
  /\ boot # <<>>
  /\ Call(Head(boot))
  /\ boot' = Tail(boot)

(* A call of anyone else, once the system is up.                           *)
Serve(c) ==
  /\ boot = <<>>
  /\ Call(c)
  /\ UNCHANGED boot

Next == Boot \/ \E c \in Calls : Serve(c)

Spec == Init /\ [][Next]_vars

-----------------------------------------------------------------------------
TypeOK ==
  /\ entries \in Seq(Entry)
  /\ Len(entries) <= MaxFiles
  /\ data \in [0 .. TotalData - 1 -> Bytes]
  /\ dataUsed \in 0 .. TotalData
  /\ boot \in Seq(Calls)
  /\ ret \in -4 .. 0

(* No two entries have the same name, so that the lookup loop, which stops *)
(* at the first match, misses none: it takes the test of fs_create_file    *)
(* (163) on both ways to a new entry, and a deletion that leaves no copy   *)
(* of the entry it moved (250-253).                                        *)
UniqueNames ==
  \A i, j \in DOMAIN entries : entries[i].name = entries[j].name => i = j

(* Every entry's bytes lie inside data[], whatever it was made with: the   *)
(* update branch (201) copies to an offset chosen long before, under a     *)
(* space test (187) that is about data_used and not about that offset.     *)
(* Every later read stays inside data[] too.                               *)
ExtentsInBounds ==
  \A i \in DOMAIN entries :
    /\ entries[i].offset <= dataUsed
    /\ entries[i].size <= MaxFileSize
    /\ entries[i].offset + entries[i].size <= TotalData

(* From the first call of fs_init on, "/" is the first entry and a         *)
(* directory: no deletion removes it or swaps another entry into its place.*)
RootStays ==
  boot # BootCalls =>
    /\ entries # <<>>
    /\ entries[1].name = Root /\ entries[1].dir

(* A call changes the table at one name only: an entry that is moved by a  *)
(* deletion (251) keeps its size, its data and its kind.                   *)
EntryOf(n) == IF Exists(n) THEN {entries[Find(n)]} ELSE {}

OneNameAtATime ==
  [][\E n \in Names : \A m \in Names \ {n} : EntryOf(m)' = EntryOf(m)]_vars

(* data_used, which never goes down, moves only when an entry is made that *)
(* gets exactly the bytes counted: a write that is refused, by the nested  *)
(* fs_create_file (207) too, a rewrite (197-203), a creation and a deletion*)
(* use up none of data[].                                                  *)
SpaceSpent ==
  [][dataUsed' # dataUsed =>
       LET made == entries'[Len(entries')]
       IN  /\ Len(entries') > Len(entries)
           /\ made.offset = dataUsed /\ made.offset + made.size = dataUsed']_vars
=============================================================================
