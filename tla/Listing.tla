------------------------------- MODULE Listing -------------------------------
(***************************************************************************)
(* ls (cmd_ls of kernel/shell.c) on the file system and in the session of  *)
(* Shell: it has fs_list_directory write the names of a directory into a   *)
(* buffer, one to a line, and takes the buffer apart with strtok.  ls -l   *)
(* calls fs_normalize_path for each line, which uses strtok too.           *)
(*                                                                         *)
(* In the texts here a name is one character, as nothing looks into it.    *)
(* The buffer has room for every name of a full table.                     *)
(***************************************************************************)
EXTENDS Shell, Libc

(* What stands between the names is in none of them.                       *)
ASSUME ListingAssumption == Files \cap {"NL", "/"} = {}

-----------------------------------------------------------------------------
LineOf_MarkBelow(e) == <<FileName(e.name)>> \o (IF e.dir THEN <<"NL", "/">> ELSE <<"NL">>)

(* The line that fs_list_directory writes for an entry: its name, and a    *)
(* slash after a directory's.                                              *)
LineOf(e) == <<FileName(e.name)>> \o (IF e.dir THEN <<"/", "NL">> ELSE <<"NL">>)

(* What it has written of a directory after the first k entries.           *)
Written(dirname) ==
  LET dir == WithSlash(Normalize(dirname))
      written[k \in 0 .. Len(entries)] ==
        IF k = 0 THEN <<>>
        ELSE written[k - 1] \o (IF IsBelow(entries[k].name, dir) THEN LineOf(entries[k]) ELSE <<>>)
  IN  written

(* The text that is left in the buffer, which has no newline at its end.   *)
ListingBuffer(dirname) ==
  LET all == Written(dirname)[Len(entries)]
  IN  IF all = <<>> THEN <<>> ELSE Seqs!Front(all)

(* The lines that a loop over strtok gets to see, when between two calls   *)
(* its body leaves strtok's position alone, or takes it to the end of      *)
(* another text.  (The path of a line is the name of an entry, which       *)
(* fs_normalize_path has made of MaxDepth pieces at most: it comes to the  *)
(* end of it.)  No text has more lines than characters.                    *)
See(st, elsewhere) ==
  LET t == Strtok(st.rest, {"NL"})
  IN  IF t.token = <<>> THEN [st EXCEPT !.rest = <<>>]
      ELSE [seen |-> Append(st.seen, t.token), rest |-> IF elsewhere THEN <<>> ELSE t.rest]

Loop(text, elsewhere) ==
  LET loop[n \in 0 .. Len(text)] ==
        IF n = 0 THEN [seen |-> <<>>, rest |-> text] ELSE See(loop[n - 1], elsewhere)
  IN  loop

LinesSeen(text, elsewhere) == Loop(text, elsewhere)[Len(text)].seen

(* ls: four names to a row.                                                *)
PlainLines(dirname)  == LinesSeen(ListingBuffer(dirname), FALSE)
PlainAnswer(dirname) ==
  LET lines == PlainLines(dirname)
  IN  Seqs!FlattenSeq([i \in DOMAIN lines |->
                    Printf(<<"%", "-", "2", "0", "s">>, <<String(lines[i])>>)
                      \o (IF i % 4 = 0 \/ i = Len(lines) THEN <<"NL">> ELSE <<>>)])

(* ls -l: fs_normalize_path (strtok over a copy of the path, to its end)   *)
(* gives the path that size, kind and permissions are looked up with.      *)
LongLines(dirname) == LinesSeen(ListingBuffer(dirname), TRUE)
RowPath(dirname, line) ==
  Normalize(Normalize(dirname) \o (IF Len(line) = 2 THEN <<line[1], Empty>> ELSE line))

-----------------------------------------------------------------------------
ListedEntries(dir) == { e \in { entries[i] : i \in DOMAIN entries } : IsBelow(e.name, WithSlash(Normalize(dir))) }

(* Taking the buffer apart gives back what went into it: ls has one line   *)
(* for each entry that is directly below the directory, in the order of    *)
(* the table, marked as what it is, and the path that ls -l makes of the   *)
(* line (with the mark and the slash between) is the name of that entry,   *)
(* so that the size and the kind beside a name are those of the entry of   *)
(* that name.                                                              *)
LinesNameEntries ==
  \A dir \in {cwd, RootDir} \cup { Directory(n) : n \in TheNames } :
    LET lines == PlainLines(dir)
    IN  /\ { [name |-> RowPath(dir, lines[k]), dir |-> Len(lines[k]) = 2] : k \in DOMAIN lines }
             = { [name |-> e.name, dir |-> e.dir] : e \in ListedEntries(dir) }
        /\ \A j, k \in DOMAIN lines :
             j < k => Find(RowPath(dir, lines[j])) < Find(RowPath(dir, lines[k]))

(* shell.c:395 "// Parse buffer and show detailed info", under the heading *)
(* "total files in %s:" (393): ls -l has a row for each of them.           *)
LsLongShowsAll ==
  Ready => \A n \in TheNames : LongLines(Directory(n)) = PlainLines(Directory(n))

(* shell.c:50 "List directory contents": what ls prints has the names in   *)
(* it.                                                                     *)
LsShowsNames ==
  Ready => \A e \in ListedEntries(cwd) :
             \E i \in DOMAIN PlainAnswer(cwd) : PlainAnswer(cwd)[i] = FileName(e.name)
=============================================================================
