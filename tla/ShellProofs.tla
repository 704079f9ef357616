----------------------------- MODULE ShellProofs -----------------------------
(***************************************************************************)
(* Theorems about the session of Shell and what it makes of the file       *)
(* system, and about ls, for every table of names, every list of boot      *)
(* calls and every set of arguments, host names and passwords.             *)
(***************************************************************************)
EXTENDS Listing, FileSystemProofs, TextProofs

(* What identifies the user.                                               *)
IInv ==
  /\ isRoot \in BOOLEAN
  /\ username \in {"user", "root"}
  /\ isRoot <=> username = "root"

(* The commands that identify the user anew; the others leave is_root and  *)
(* username alone.                                                         *)
LEMMA SessionCases ==
  ASSUME SNext
  PROVE  \/ UNCHANGED <<isRoot, username>>
         \/ \E password \in Passwords : RootShell(password)
         \/ ExitRoot
<1>1. CASE Start
  BY <1>1 DEF Start, session
<1>2. CASE Ready /\ Command /\ UNCHANGED boot
  <2>1. CASE \E arg \in Args : Cd(arg) \/ Mkdir(arg) \/ Touch(arg) \/ Rm(arg)
    <3>1. PICK arg \in Args : Cd(arg) \/ Mkdir(arg) \/ Touch(arg) \/ Rm(arg)
      BY <2>1
    <3>2. CASE Cd(arg)
      BY <3>2 DEF Cd
    <3>3. CASE Mkdir(arg)
      BY <3>3 DEF Mkdir, session
    <3>4. CASE Touch(arg)
      BY <3>4 DEF Touch, session
    <3>5. CASE Rm(arg)
      BY <3>5 DEF Rm, session
    <3>6. QED
      BY <3>1, <3>2, <3>3, <3>4, <3>5
  <2>2. CASE CdHome
    BY <2>2 DEF CdHome
  <2>3. CASE \E user \in {"root", "user"}, password \in Passwords : Su(user, password)
    BY <2>3 DEF Su
  <2>4. CASE \E name \in Hosts : SetHostname(name)
    BY <2>4 DEF SetHostname
  <2>5. QED
    BY <1>2, <2>1, <2>2, <2>3, <2>4 DEF Command
<1>3. QED
  BY <1>1, <1>2 DEF SNext

LEMMA IdentityNext == IInv /\ [SNext]_svars => IInv'
<1>1. SUFFICES ASSUME IInv, [SNext]_svars PROVE IInv'
  OBVIOUS
<1>2. CASE UNCHANGED <<isRoot, username>>
  BY <1>1, <1>2 DEF IInv
<1>3. CASE \E password \in Passwords : RootShell(password)
  <2>1. PICK password \in Passwords : RootShell(password)
    BY <1>3
  <2>2. CASE password \in {"root", "admin"}
    <3>1. isRoot' = TRUE /\ username' = "root"
      BY <2>1, <2>2 DEF RootShell
    <3>2. QED
      BY <3>1 DEF IInv
  <2>3. CASE password \notin {"root", "admin"}
    <3>1. UNCHANGED <<isRoot, username>>
      BY <2>1, <2>3 DEF RootShell
    <3>2. QED
      BY <1>1, <3>1 DEF IInv
  <2>4. QED
    BY <2>2, <2>3
<1>4. CASE ExitRoot
  <2>1. isRoot' = FALSE /\ username' = "user"
    BY <1>4 DEF ExitRoot
  <2>2. QED
    BY <2>1 DEF IInv
<1>5. CASE UNCHANGED svars
  <2>1. UNCHANGED <<isRoot, username>>
    BY <1>5 DEF svars, session
  <2>2. QED
    BY <1>2, <2>1
<1>6. QED
  BY <1>1, <1>2, <1>3, <1>4, <1>5, SessionCases

(* Whatever is typed, whoever has the privilege is called root and nobody  *)
(* else is: root, exit and su keep is_root and username in step.           *)
THEOREM IdentityKept == SSpec => []IdentityAgrees
<1>1. SInit => IInv
  BY DEF SInit, IInv
<1>2. IInv => IdentityAgrees
  BY DEF IInv, IdentityAgrees
<1>3. QED
  BY <1>1, <1>2, IdentityNext, PTL DEF SSpec

-----------------------------------------------------------------------------
(* Bare and Canonical, of the two spellings of a path.                     *)
LEMMA BareOf ==
  ASSUME NEW q, Plain(q)
  PROVE  /\ Bare(q) = q
         /\ q # RootDir => Bare(Append(q, Empty)) = q
         /\ Canonical(q)
<1>1. CASE q = RootDir
  <2>1. Len(q) = 2 /\ q[1] = Empty
    BY <1>1, RootPlain
  <2>2. q[Len(q) - 1] = Empty
    BY <2>1
  <2>3. QED
    BY <1>1, <2>2 DEF Bare, Canonical
<1>2. CASE q # RootDir
  <2>1. /\ q \in Seq(Piece) /\ Len(q) \in Nat /\ Len(q) > 1 /\ q[1] = Empty
        /\ \A k \in 2 .. Len(q) : q[k] \in Files
        /\ ~EndsInSlash(q) /\ q[Len(q)] # Empty
    BY <1>2, PlainNames
  <2>2. Bare(q) = q /\ Canonical(q)
    BY <1>2, <2>1 DEF Bare, Canonical
  <2>3. PICK a : a = Append(q, Empty)
    OBVIOUS
  <2>4. /\ EndsInSlash(a) /\ Len(a) = Len(q) + 1
        /\ \A k \in 1 .. Len(q) : a[k] = q[k]
    BY <1>2, <2>3, PlainSlash
  <2>5. Len(a) - 1 = Len(q) /\ a[Len(a) - 1] # Empty
    BY <2>1, <2>4
  <2>6. Bare(a) = SubSeq(a, 1, Len(a) - 1)
    BY <2>4, <2>5 DEF Bare
  <2>7. Seqs!Front(a) = SubSeq(a, 1, Len(a) - 1)
    BY DEF Seqs!Front
  <2>8. Seqs!Front(a) = q
    BY <2>1, <2>3, PieceFacts, FrontOfAppend
  <2>9. QED
    BY <2>2, <2>3, <2>6, <2>7, <2>8
<1>3. QED
  BY <1>1, <1>2

LEMMA SpelledCanonical ==
  ASSUME NEW p, Spelled(p)
  PROVE  Canonical(Bare(p))
  BY BareOf DEF Spelled

LEMMA CanonicalPlain ==
  ASSUME NEW q \in Seq(Piece), Canonical(q), Len(q) <= MaxDepth + 1
  PROVE  Plain(q)
  BY DEF Canonical, Plain

LEMMA CanonicalSpelled ==
  ASSUME NEW p \in Seq(Piece), Canonical(Bare(p)), Len(Bare(p)) <= MaxDepth + 1
  PROVE  Spelled(p)
<1>1. CASE EndsInSlash(p) /\ p[Len(p) - 1] # Empty
  <2>1. Len(p) > 1 /\ p[Len(p)] = Empty /\ Len(p) \in Nat
    BY <1>1, LenProperties DEF EndsInSlash
  <2>2. p # <<>>
    BY <2>1, EmptySeq
  <2>3. PICK q : q = Seqs!Front(p)
    OBVIOUS
  <2>4. /\ q \in Seq(Piece) /\ Len(q) = Len(p) - 1
        /\ \A i \in 1 .. Len(p) - 1 : q[i] = p[i]
    BY <2>2, <2>3, FrontOf
  <2>5. q = Bare(p)
    BY <1>1, <2>3 DEF Bare, Seqs!Front
  <2>6. Plain(q)
    BY <2>4, <2>5, CanonicalPlain
  <2>7. q # RootDir
    <3>1. q[Len(q)] # Empty
      BY <1>1, <2>1, <2>4
    <3>2. QED
      BY <3>1, RootPlain
  <2>8. /\ Append(q, Empty) \in Seq(Piece) /\ Len(Append(q, Empty)) = Len(q) + 1
        /\ \A k \in 1 .. Len(q) : Append(q, Empty)[k] = q[k]
        /\ Append(q, Empty)[Len(q) + 1] = Empty
    BY <2>6, <2>7, PlainSlash
  <2>9. ASSUME NEW k \in 1 .. Len(p) PROVE p[k] = Append(q, Empty)[k]
    <3>1. CASE k = Len(p)
      BY <2>1, <2>4, <2>8, <3>1
    <3>2. CASE k # Len(p)
      BY <2>1, <2>4, <2>8, <3>2
    <3>3. QED
      BY <3>1, <3>2
  <2>10. Len(p) = Len(Append(q, Empty))
    BY <2>1, <2>4, <2>8
  <2>11. p = Append(q, Empty)
    BY <2>8, <2>9, <2>10, SeqEqual
  <2>12. QED
    BY <2>6, <2>7, <2>11 DEF Spelled
<1>2. CASE ~(EndsInSlash(p) /\ p[Len(p) - 1] # Empty)
  <2>1. Bare(p) = p
    BY <1>2 DEF Bare
  <2>2. QED
    BY <2>1, CanonicalPlain DEF Spelled
<1>3. QED
  BY <1>1, <1>2

(* The calls of fs_init are of this kind.                                  *)
Proper(c) == Spelled(c.name) /\ (EndsInSlash(c.name) => c.op = "create" /\ c.dir)

LEMMA BootProper == \A i \in 1 .. Len(BootCalls) : Proper(BootCalls[i])
<1> SUFFICES ASSUME NEW i \in 1 .. Len(BootCalls) PROVE Proper(BootCalls[i])
  OBVIOUS
<1>1. DOMAIN BootCalls = 1 .. Len(BootCalls)
  BY LenProperties, FileSystemAssumption
<1>2. PICK c : c = BootCalls[i]
  OBVIOUS
<1>3. /\ c.name \in Seq(Piece)
      /\ Canonical(Bare(c.name)) /\ Len(Bare(c.name)) <= MaxDepth + 1
      /\ EndsInSlash(c.name) => c.op = "create" /\ c.dir
  BY <1>1, <1>2, BootAssumption
<1>4. QED
  BY <1>2, <1>3, CanonicalSpelled DEF Proper

-----------------------------------------------------------------------------
(* The entries after a call: each was there or is the one that the call    *)
(* makes.                                                                  *)
Came(c) ==
  \A i \in 1 .. Len(entries') :
    \/ \E j \in 1 .. Len(entries) :
         entries'[i].name = entries[j].name /\ entries'[i].dir = entries[j].dir
    \/ /\ entries'[i].name = c.name
       /\ (c.op = "create" /\ entries'[i].dir = c.dir) \/ c.op = "write"

LEMMA GrownEntries ==
  ASSUME entries \in Seq(Entry), NEW e \in Entry, entries' = Append(entries, e)
  PROVE  \A i \in 1 .. Len(entries') :
           entries'[i] = e \/ \E j \in 1 .. Len(entries) : entries'[i] = entries[j]
<1>1. /\ Len(entries') = Len(entries) + 1 /\ Len(entries) \in Nat
      /\ \A i \in 1 .. Len(entries) : entries'[i] = entries[i]
      /\ entries'[Len(entries) + 1] = e
  BY Grown
<1>2. \A i \in 1 .. Len(entries') : i \in 1 .. Len(entries) \/ i = Len(entries) + 1
  BY <1>1
<1>3. QED
  BY <1>1, <1>2

LEMMA ShrunkEntries ==
  ASSUME entries \in Seq(Entry), NEW k \in 1 .. Len(entries), entries' = Removed(entries, k)
  PROVE  \A i \in 1 .. Len(entries') : \E j \in 1 .. Len(entries) : entries'[i] = entries[j]
<1>1. /\ Len(entries') = Len(entries) - 1 /\ Len(entries) \in Nat
      /\ \A j \in 1 .. Len(entries) - 1 :
           entries'[j] = IF j = k THEN entries[Len(entries)] ELSE entries[j]
  BY RemovedEntries, LenProperties
<1>2. QED
  BY <1>1

LEMMA CallEntries ==
  ASSUME TypeOK, NEW c \in Calls, Call(c)
  PROVE  Came(c)
<1>0. entries \in Seq(Entry) /\ dataUsed \in Nat
  BY EntryFields DEF TypeOK
<1>1. ASSUME NEW code, Refuse(code) PROVE Came(c)
  BY <1>1 DEF Refuse, Came
<1>2. CASE c.op = "create" /\ CreateFile(c.name, c.dir)
  <2>1. CASE CreateNew(c.name, c.dir)
    <3>1. c.name \in Names /\ c.dir \in BOOLEAN
      BY <1>2 DEF Calls
    <3>2. PICK e \in Entry : /\ e = NewEntry(c.name, 0, c.dir)
                             /\ e.name = c.name /\ e.dir = c.dir
      BY <1>0, <3>1, NewEntryType
    <3>3. entries' = Append(entries, e)
      BY <2>1, <3>2 DEF CreateNew
    <3>4. QED
      BY <1>0, <1>2, <3>2, <3>3, GrownEntries DEF Came
  <2>2. QED
    BY <1>1, <1>2, <2>1 DEF CreateFile
<1>3. CASE c.op = "write" /\ WriteFile(c.name, c.data)
  <2>0. c.name \in Names /\ c.data \in Contents
    BY <1>3 DEF Calls
  <2>1. CASE WriteNew(c.name, c.data)
    <3>1. Len(c.data) \in Nat
      BY <2>0, ContentsLen
    <3>2. PICK e \in Entry : /\ e = NewEntry(c.name, Len(c.data), FALSE)
                             /\ e.name = c.name
      <4>1. NewEntry(c.name, Len(c.data), FALSE) \in Entry
        BY <1>0, <2>0, <3>1, NewFileType
      <4>2. NewEntry(c.name, Len(c.data), FALSE).name = c.name
        BY DEF NewEntry
      <4>3. QED
        BY <4>1, <4>2, Zenon
    <3>3. entries' = Append(entries, e)
      BY <2>1, <3>2 DEF WriteNew
    <3>4. QED
      BY <1>0, <1>3, <3>2, <3>3, GrownEntries DEF Came
  <2>2. CASE WriteOver(c.name, c.data)
    <3>1. /\ entries' = [entries EXCEPT ![Find(c.name)].size = Len(c.data)]
          /\ Exists(c.name)
      BY <2>2 DEF WriteOver
    <3>2. Find(c.name) \in 1 .. Len(entries)
      BY <1>0, <3>1, FindFinds
    <3>3. PICK f \in 1 .. Len(entries) : f = Find(c.name)
      BY <3>2
    <3>4. entries[f] \in Entry
      BY <1>0, ElementOfSeq
    <3>5. PICK e \in Entry :
            /\ e = [entries[f] EXCEPT !.size = Len(c.data)]
            /\ e.name = entries[f].name /\ e.dir = entries[f].dir
      BY <2>0, <3>4, ContentsLen, ResizedEntry
    <3>6. entries' = [entries EXCEPT ![f] = e]
      BY <3>1, <3>3, <3>5
    <3>7. /\ Len(entries') = Len(entries)
          /\ \A i \in 1 .. Len(entries) :
               entries'[i] = IF i = f THEN e ELSE entries[i]
      BY <1>0, <3>6, ExceptSeq
    <3>8. \A i \in 1 .. Len(entries) :
            entries'[i].name = entries[i].name /\ entries'[i].dir = entries[i].dir
      BY <3>5, <3>7
    <3>9. QED
      BY <3>7, <3>8 DEF Came
  <2>3. QED
    BY <1>1, <1>3, <2>1, <2>2 DEF WriteFile
<1>4. CASE c.op = "delete" /\ DeleteFile(c.name)
  <2>1. CASE Remove(c.name)
    <3>1. entries' = Removed(entries, Find(c.name)) /\ Exists(c.name)
      BY <2>1 DEF Remove
    <3>2. Find(c.name) \in 1 .. Len(entries) /\ entries[Find(c.name)].name = c.name
      BY <1>0, <3>1, FindFinds
    <3>3. PICK f \in 1 .. Len(entries) : f = Find(c.name) /\ entries[f].name = c.name
      BY <3>2
    <3>4. entries' = Removed(entries, f)
      BY <3>1, <3>3
    <3>5. QED
      BY <1>0, <1>4, <3>3, <3>4, ShrunkEntries DEF Came
  <2>2. QED
    BY <1>1, <1>4, <2>1 DEF DeleteFile
<1>5. QED
  BY <1>2, <1>3, <1>4 DEF Call

-----------------------------------------------------------------------------
(* How current_dir and the names in the table are spelled.                 *)
Places ==
  /\ Spelled(cwd)
  /\ \A i \in 1 .. Len(entries) :
       Spelled(entries[i].name) /\ (EndsInSlash(entries[i].name) => entries[i].dir)
  /\ \A i \in 1 .. Len(boot) : Proper(boot[i])

LEMMA Triple ==
  ASSUME NEW S, NEW x \in S, NEW y \in S, NEW z \in S
  PROVE  /\ <<x, y, z>> \in Seq(S) /\ Len(<<x, y, z>>) = 3
         /\ <<x, y, z>>[1] = x /\ <<x, y, z>>[2] = y /\ <<x, y, z>>[3] = z
  OBVIOUS

LEMMA HomesPlain ==
  ASSUME NEW home \in {RootHome, UserHome}
  PROVE  Plain(home) /\ home # RootDir
<1>1. "root" \in Files /\ "home" \in Files /\ "user" \in Files
  BY ShellAssumption
<1>2. "root" \in Piece /\ "home" \in Piece /\ "user" \in Piece /\ Empty \in Piece
  BY <1>1, PieceFacts
<1>3. MaxDepth \in Nat /\ MaxDepth >= 2
  BY ShellAssumption, DepthNat
<1>4. CASE home = RootHome
  <2>1. /\ home \in Seq(Piece) /\ Len(home) = 2
        /\ home[1] = Empty /\ home[2] = "root"
    BY <1>2, <1>4, Pair DEF RootHome
  <2>2. \A k \in 2 .. Len(home) : home[k] \in Files
    BY <1>1, <2>1
  <2>3. home # RootDir
    BY <1>1, <2>1, PieceFacts, RootPlain
  <2>4. QED
    BY <1>3, <2>1, <2>2, <2>3 DEF Plain
<1>5. CASE home = UserHome
  <2>1. /\ home \in Seq(Piece) /\ Len(home) = 3
        /\ home[1] = Empty /\ home[2] = "home" /\ home[3] = "user"
    BY <1>2, <1>5, Triple DEF UserHome
  <2>2. \A k \in 2 .. Len(home) : k = 2 \/ k = 3
    BY <2>1
  <2>3. \A k \in 2 .. Len(home) : home[k] \in Files
    BY <1>1, <2>1, <2>2
  <2>4. home # RootDir
    BY <2>1, RootPlain
  <2>5. QED
    BY <1>3, <2>1, <2>3, <2>4 DEF Plain
<1>6. QED
  BY <1>4, <1>5

(* The entries stay, and current_dir stays or is set to a path that cd     *)
(* makes; or the table is given a call with such a path, and the session   *)
(* stays.                                                                  *)
Stays ==
  /\ UNCHANGED <<entries, data, dataUsed>> /\ ret' \in -4 .. 0
  /\ \/ cwd' = cwd
     \/ cwd' \in {RootHome, UserHome}
     \/ \E arg \in Args : cwd' = Target(arg, cwd)

Calling(c) ==
  /\ Call(c) /\ cwd' = cwd
  /\ Proper(c) \/ (c.op = "delete" /\ Plain(c.name))

LEMMA CommandCases ==
  ASSUME TypeOK, RootInv, Places, Ready, Command
  PROVE  Stays \/ \E c \in Calls : Calling(c)
<1>1. ret \in -4 .. 0
  BY DEF TypeOK
<1>2. \A arg \in Args : arg \in Seq(Piece)
  BY ShellAssumption
<1>3. cwd \in Seq(Piece)
  BY SpelledSeq DEF Places
<1>4. ASSUME NEW arg \in Args, Cd(arg) PROVE Stays
  <2>1. PICK ok \in BOOLEAN : ok = (Unchecked(arg) \/ Exists(Target(arg, cwd)))
    OBVIOUS
  <2>2. /\ cwd' = IF ok THEN Target(arg, cwd) ELSE cwd
        /\ ret' = IF ok THEN 0 ELSE -1
        /\ UNCHANGED <<entries, data, dataUsed>>
    BY <1>4, <2>1 DEF Cd
  <2>3. ret' \in -4 .. 0
    BY <2>2
  <2>4. cwd' = cwd \/ cwd' = Target(arg, cwd)
    BY <2>2
  <2>5. QED
    BY <2>2, <2>3, <2>4 DEF Stays
<1>5. ASSUME NEW arg \in Args, Mkdir(arg) PROVE \E c \in Calls : Calling(c)
  <2>1. PICK path : path = WithSlash(Absolute(arg, cwd))
    OBVIOUS
  <2>2. path \in Names /\ CreateFile(path, TRUE) /\ cwd' = cwd
    BY <1>5, <2>1 DEF Mkdir, session
  <2>3. Spelled(path)
    BY <1>2, <1>3, <2>1, AbsolutePlain, WithSlashSpelled
  <2>4. PICK c : c = [op |-> "create", name |-> path, dir |-> TRUE]
    OBVIOUS
  <2>5. c \in Calls /\ c.op = "create" /\ c.name = path /\ c.dir = TRUE
    BY <2>2, <2>4 DEF Calls
  <2>6. Call(c)
    BY <2>2, <2>5, Zenon DEF Call
  <2>7. Proper(c)
    BY <2>3, <2>5, Zenon DEF Proper
  <2>8. QED
    BY <2>2, <2>5, <2>6, <2>7 DEF Calling
<1>6. ASSUME NEW arg \in Args, Touch(arg) PROVE Stays \/ \E c \in Calls : Calling(c)
  <2>1. PICK path : path = Absolute(arg, cwd)
    OBVIOUS
  <2>2. path \in Names /\ CreateFile(path, FALSE) /\ cwd' = cwd
    BY <1>6, <2>1 DEF Touch, session
  <2>3. Plain(path)
    BY <1>2, <1>3, <2>1, AbsolutePlain
  <2>4. CASE path = RootDir
    <3>1. boot # BootCalls
      BY FileSystemAssumption DEF Ready
    <3>2. 1 <= Len(entries) /\ entries[1].name = RootDir
      BY <3>1, ShellAssumption DEF RootInv
    <3>3. DOMAIN entries = 1 .. Len(entries) /\ Len(entries) \in Nat
      BY EntryFields
    <3>4. Exists(path)
      BY <2>4, <3>2, <3>3 DEF Exists
    <3>5. ~CreateNew(path, FALSE)
      BY <3>4 DEF CreateNew
    <3>6. Refuse(-1) \/ Refuse(-2)
      BY <2>2, <3>5 DEF CreateFile
    <3>7. QED
      BY <2>2, <3>6 DEF Refuse, Stays
  <2>5. CASE path # RootDir
    <3>1. PICK c : c = [op |-> "create", name |-> path, dir |-> FALSE]
      OBVIOUS
    <3>2. c \in Calls /\ c.op = "create" /\ c.name = path /\ c.dir = FALSE
      BY <2>2, <3>1 DEF Calls
    <3>3. Call(c)
      BY <2>2, <3>2, Zenon DEF Call
    <3>4. Proper(c)
      BY <2>3, <2>5, <3>2, PlainNames DEF Proper, Spelled
    <3>5. QED
      BY <2>2, <3>2, <3>3, <3>4 DEF Calling
  <2>6. QED
    BY <2>4, <2>5
<1>7. ASSUME NEW arg \in Args, Rm(arg) PROVE Stays \/ \E c \in Calls : Calling(c)
  <2>1. PICK path : path = Absolute(arg, cwd)
    OBVIOUS
  <2>2. DeleteFile(path) /\ cwd' = cwd
    BY <1>7, <2>1 DEF Rm, session
  <2>3. Plain(path)
    BY <1>2, <1>3, <2>1, AbsolutePlain
  <2>4. CASE path \in Names
    <3>1. PICK c : c = [op |-> "delete", name |-> path]
      OBVIOUS
    <3>2. c \in Calls /\ c.op = "delete" /\ c.name = path
      BY <2>4, <3>1 DEF Calls
    <3>3. Call(c)
      BY <2>2, <3>2, Zenon DEF Call
    <3>4. QED
      BY <2>2, <2>3, <3>2, <3>3 DEF Calling
  <2>5. CASE path \notin Names
    <3>1. DOMAIN entries = 1 .. Len(entries)
      BY EntryFields
    <3>2. \A i \in 1 .. Len(entries) : entries[i] \in Entry
      BY ElementOfSeq DEF TypeOK
    <3>3. ~Exists(path)
      BY <2>5, <3>1, <3>2 DEF Exists, Entry
    <3>4. Refuse(-1)
      BY <2>2, <3>3 DEF DeleteFile, Remove
    <3>5. QED
      BY <2>2, <3>4 DEF Refuse, Stays
  <2>6. QED
    BY <2>4, <2>5
<1>8. CASE CdHome
  BY <1>1, <1>8 DEF CdHome, Stays
<1>9. ASSUME NEW user, NEW password, Su(user, password) PROVE Stays
  <2>1. CASE RootShell(password)
    BY <1>1, <2>1 DEF RootShell, Stays
  <2>2. CASE ExitRoot
    BY <1>1, <2>2 DEF ExitRoot, Stays
  <2>3. QED
    BY <1>9, <2>1, <2>2 DEF Su
<1>10. ASSUME NEW name, SetHostname(name) PROVE Stays
  BY <1>1, <1>10 DEF SetHostname, Stays
<1>11. QED
  BY <1>4, <1>5, <1>6, <1>7, <1>8, <1>9, <1>10 DEF Command

(* What a command or a call of fs_init does to the places.                 *)
LEMMA EntriesPlaced ==
  ASSUME Places, NEW c, Came(c), Proper(c) \/ c.op = "delete",
         c.op = "delete" => \A i \in 1 .. Len(entries') :
           \E j \in 1 .. Len(entries) :
             entries'[i].name = entries[j].name /\ entries'[i].dir = entries[j].dir
  PROVE  \A i \in 1 .. Len(entries') :
           Spelled(entries'[i].name) /\ (EndsInSlash(entries'[i].name) => entries'[i].dir)
<1> SUFFICES ASSUME NEW i \in 1 .. Len(entries')
             PROVE  /\ Spelled(entries'[i].name)
                    /\ EndsInSlash(entries'[i].name) => entries'[i].dir
  OBVIOUS
<1>1. CASE \E j \in 1 .. Len(entries) :
             entries'[i].name = entries[j].name /\ entries'[i].dir = entries[j].dir
  BY <1>1 DEF Places
<1>2. CASE /\ entries'[i].name = c.name /\ c.op # "delete"
           /\ (c.op = "create" /\ entries'[i].dir = c.dir) \/ c.op = "write"
  <2>1. Proper(c)
    BY <1>2
  <2>2. Spelled(c.name) /\ (EndsInSlash(c.name) => c.op = "create" /\ c.dir)
    BY <2>1 DEF Proper
  <2>3. QED
    BY <1>2, <2>2
<1>3. QED
  BY <1>1, <1>2 DEF Came

LEMMA CallPlaces ==
  ASSUME TypeOK, Places, NEW c \in Calls, Calling(c), boot = <<>>, boot' = boot
  PROVE  Places'
<1>1. Came(c)
  BY CallEntries DEF Calling
<1>2. cwd' = cwd
  BY DEF Calling
<1>3. c.op = "delete" => \A i \in 1 .. Len(entries') :
         \E j \in 1 .. Len(entries) :
           entries'[i].name = entries[j].name /\ entries'[i].dir = entries[j].dir
  BY <1>1 DEF Came
<1>4. \A i \in 1 .. Len(entries') :
        Spelled(entries'[i].name) /\ (EndsInSlash(entries'[i].name) => entries'[i].dir)
  BY <1>1, <1>3, EntriesPlaced DEF Calling
<1>5. QED
  BY <1>2, <1>4 DEF Places

LEMMA StaysPlaces ==
  ASSUME Places, Stays, boot = <<>>, boot' = boot
  PROVE  Places'
<1>1. entries' = entries
  BY DEF Stays
<1>2. Spelled(cwd')
  <2>1. CASE cwd' = cwd
    BY <2>1 DEF Places
  <2>2. CASE cwd' \in {RootHome, UserHome}
    BY <2>2, HomesPlain DEF Spelled
  <2>3. CASE \E arg \in Args : cwd' = Target(arg, cwd)
    <3>1. PICK arg \in Args : cwd' = Target(arg, cwd)
      BY <2>3
    <3>2. arg \in Seq(Piece)
      BY ShellAssumption
    <3>3. QED
      BY <3>1, <3>2, TargetSpelled DEF Places
  <2>4. QED
    BY <2>1, <2>2, <2>3 DEF Stays
<1>3. QED
  BY <1>1, <1>2 DEF Places

LEMMA BootPlaces ==
  ASSUME TypeOK, Places, Boot, UNCHANGED session
  PROVE  Places'
<1>1. boot \in Seq(Calls) /\ boot # <<>> /\ boot' = Tail(boot) /\ Call(Head(boot))
  BY DEF Boot, TypeOK
<1>2. /\ Head(boot) \in Calls /\ Head(boot) = boot[1]
      /\ Len(boot) \in Nat \ {0}
      /\ Len(Tail(boot)) = Len(boot) - 1
      /\ \A i \in 1 .. Len(Tail(boot)) : Tail(boot)[i] = boot[i + 1]
  BY <1>1, HeadTailProperties, EmptySeq
<1>3. PICK c \in Calls : c = Head(boot) /\ Call(c)
  BY <1>1, <1>2
<1>4. 1 \in 1 .. Len(boot) /\ \A i \in 1 .. Len(Tail(boot)) : i + 1 \in 1 .. Len(boot)
  BY <1>2
<1>5. Proper(c)
  BY <1>2, <1>3, <1>4 DEF Places
<1>6. \A i \in 1 .. Len(boot') : Proper(boot'[i])
  BY <1>1, <1>2, <1>4 DEF Places
<1>7. Came(c)
  BY <1>3, CallEntries
<1>8. c.op = "delete" => \A i \in 1 .. Len(entries') :
         \E j \in 1 .. Len(entries) :
           entries'[i].name = entries[j].name /\ entries'[i].dir = entries[j].dir
  BY <1>7 DEF Came
<1>9. \A i \in 1 .. Len(entries') :
        Spelled(entries'[i].name) /\ (EndsInSlash(entries'[i].name) => entries'[i].dir)
  BY <1>5, <1>7, <1>8, EntriesPlaced
<1>10. cwd' = cwd
  BY DEF session
<1>11. QED
  BY <1>6, <1>9, <1>10 DEF Places

-----------------------------------------------------------------------------
(* The inductive invariant of the session and its file system.             *)
SInv ==
  /\ TypeOK
  /\ RootInv
  /\ Places
  /\ IInv
  /\ hostname \in Hosts

(* A step of the session is a step of the file system or leaves it alone.  *)
LEMMA TableSteps ==
  ASSUME SInv, [SNext]_svars
  PROVE  \/ [Next]_vars
         \/ UNCHANGED <<entries, data, dataUsed, boot>> /\ ret' \in -4 .. 0
<1>1. CASE UNCHANGED svars
  BY <1>1 DEF svars
<1>2. CASE Start
  BY <1>2 DEF Start, Next
<1>3. CASE Ready /\ Command /\ UNCHANGED boot
  <2>1. CASE Stays
    BY <1>3, <2>1 DEF Stays
  <2>2. CASE \E c \in Calls : Calling(c)
    BY <1>3, <2>2 DEF Calling, Ready, Next, Serve
  <2>3. QED
    BY <1>3, <2>1, <2>2, CommandCases DEF SInv
<1>4. QED
  BY <1>1, <1>2, <1>3 DEF SNext

LEMMA PlacesNext ==
  ASSUME SInv, [SNext]_svars
  PROVE  Places'
<1>1. CASE UNCHANGED svars
  BY <1>1 DEF svars, vars, session, SInv, Places
<1>2. CASE Start
  BY <1>2, BootPlaces DEF Start, SInv
<1>3. CASE Ready /\ Command /\ UNCHANGED boot
  <2>1. boot = <<>> /\ boot' = boot
    BY <1>3 DEF Ready
  <2>2. QED
    BY <1>3, <2>1, CommandCases, StaysPlaces, CallPlaces DEF SInv
<1>4. QED
  BY <1>1, <1>2, <1>3 DEF SNext

LEMMA HostNext ==
  ASSUME hostname \in Hosts, [SNext]_svars
  PROVE  hostname' \in Hosts
<1>1. CASE UNCHANGED svars
  BY <1>1 DEF svars, session
<1>2. CASE Start
  BY <1>2 DEF Start, session
<1>3. CASE Command
  <2>1. CASE \E arg \in Args : Cd(arg) \/ Mkdir(arg) \/ Touch(arg) \/ Rm(arg)
    BY <2>1 DEF Cd, Mkdir, Touch, Rm, session
  <2>2. CASE CdHome
    BY <2>2 DEF CdHome
  <2>3. CASE \E user \in {"root", "user"}, password \in Passwords : Su(user, password)
    BY <2>3 DEF Su, RootShell, ExitRoot
  <2>4. CASE \E name \in Hosts : SetHostname(name)
    BY <2>4 DEF SetHostname
  <2>5. QED
    BY <1>3, <2>1, <2>2, <2>3, <2>4 DEF Command
<1>4. QED
  BY <1>1, <1>2, <1>3 DEF SNext

LEMMA SInvInit == SInit => SInv
<1> SUFFICES ASSUME SInit PROVE SInv
  OBVIOUS
<1>1. Init /\ cwd = RootDir /\ isRoot = FALSE /\ username = "user" /\ hostname = "alphaos"
  BY DEF SInit
<1>2. TypeOK
  BY <1>1, TypeInit
<1>3. RootInv
  BY <1>1 DEF Init, RootInv
<1>4. IInv
  BY <1>1 DEF IInv
<1>5. hostname \in Hosts
  BY <1>1, ShellAssumption
<1>6. Spelled(cwd)
  BY <1>1, RootPlain DEF Spelled
<1>7. boot = BootCalls /\ Len(entries) = 0
  BY <1>1 DEF Init
<1>8. \A i \in 1 .. Len(entries) : FALSE
  BY <1>7
<1>9. Places
  BY <1>1, <1>6, <1>7, <1>8, BootProper DEF Places
<1>10. QED
  BY <1>2, <1>3, <1>4, <1>5, <1>9 DEF SInv

LEMMA SInvNext == SInv /\ [SNext]_svars => SInv'
<1> SUFFICES ASSUME SInv, [SNext]_svars PROVE SInv'
  OBVIOUS
<1>1. TypeOK'
  <2>1. CASE [Next]_vars
    BY <2>1, TypeNext DEF SInv
  <2>2. CASE UNCHANGED <<entries, data, dataUsed, boot>> /\ ret' \in -4 .. 0
    BY <2>2 DEF SInv, TypeOK
  <2>3. QED
    BY <2>1, <2>2, TableSteps
<1>2. RootInv'
  <2>1. CASE [Next]_vars
    BY <1>1, <2>1, RootNext DEF SInv
  <2>2. CASE UNCHANGED <<entries, data, dataUsed, boot>>
    BY <2>2 DEF SInv, RootInv
  <2>3. QED
    BY <2>1, <2>2, TableSteps
<1>3. IInv'
  BY IdentityNext DEF SInv
<1>4. hostname' \in Hosts
  BY HostNext DEF SInv
<1>5. Places'
  BY PlacesNext
<1>6. QED
  BY <1>1, <1>2, <1>3, <1>4, <1>5 DEF SInv

(* The types of the session.                                               *)
THEOREM SessionTyped == SSpec => []STypeOK
<1>1. SInv => STypeOK
  BY SpelledSeq DEF SInv, Places, IInv, STypeOK
<1>2. QED
  BY <1>1, SInvInit, SInvNext, PTL DEF SSpec

-----------------------------------------------------------------------------
(* The directory of a name, and what is directly below it.                 *)
LEMMA DirectoryPlain ==
  ASSUME NEW p, Spelled(p)
  PROVE  /\ Plain(Directory(p))
         /\ Directory(p) = IF Seqs!Front(p) = <<Empty>> THEN RootDir ELSE Seqs!Front(p)
<1>1. p \in Seq(Piece) /\ Len(p) > 1 /\ Len(p) \in Nat
  BY SpelledSeq, LenProperties DEF IsAbsolute
<1>2. Directory(p) = IF Seqs!Front(p) = <<Empty>> THEN RootDir ELSE Seqs!Front(p)
  <2>1. Len(p) # 1
    <3>1. PICK n \in Nat : n = Len(p)
      BY <1>1
    <3>2. n > 1
      BY <1>1, <3>1
    <3>3. n # 1
      BY <3>2
    <3>4. QED
      BY <3>1, <3>3
  <2>2. QED
    BY <2>1, Zenon DEF Directory
<1>3. CASE p = RootDir
  <2>1. <<Empty>> \in Seq(Piece) /\ Empty \in Piece
    BY PieceFacts, Single
  <2>2. RootDir = Append(<<Empty>>, Empty)
    BY DEF RootDir
  <2>3. Seqs!Front(p) = <<Empty>>
    BY <1>3, <2>1, <2>2, FrontOfAppend
  <2>4. QED
    BY <1>2, <2>3, RootPlain
<1>4. CASE Plain(p) /\ p # RootDir
  BY <1>2, <1>4, FrontPlain, RootPlain
<1>5. CASE \E q : Plain(q) /\ q # RootDir /\ p = Append(q, Empty)
  <2>1. PICK q : Plain(q) /\ q # RootDir /\ p = Append(q, Empty)
    BY <1>5
  <2>2. q \in Seq(Piece)
    BY <2>1, PlainNames
  <2>3. Seqs!Front(p) = q
    BY <2>1, <2>2, PieceFacts, FrontOfAppend
  <2>4. QED
    BY <1>2, <2>1, <2>3, RootPlain
<1>6. QED
  BY <1>2, <1>3, <1>4, <1>5 DEF Spelled

LEMMA NormalizeBare ==
  ASSUME NEW p, Spelled(p)
  PROVE  Plain(Bare(p)) /\ Normalize(p) = Bare(p)
<1>1. CASE Plain(p)
  BY <1>1, BareOf, NormalizeKeeps
<1>2. CASE \E q : Plain(q) /\ q # RootDir /\ p = Append(q, Empty)
  BY <1>2, BareOf, NormalizeKeeps
<1>3. QED
  BY <1>1, <1>2 DEF Spelled

LEMMA Below ==
  ASSUME NEW b, Plain(b), NEW m, Spelled(m)
  PROVE  IsBelow(m, WithSlash(b)) <=> ~EndsInSlash(m) /\ Directory(m) = b
<1>1. m \in Seq(Piece) /\ Len(m) > 1 /\ Len(m) \in Nat
  BY SpelledSeq, LenProperties DEF IsAbsolute
<1>2. CASE EndsInSlash(m)
  BY <1>2 DEF EndsInSlash, IsBelow
<1>3. CASE ~EndsInSlash(m)
  <2>1. Plain(m) /\ m # RootDir
    BY <1>3, PlainSlash, RootPlain DEF Spelled
  <2>2. m[Len(m)] # Empty
    BY <2>1, PlainNames
  <2>3. PICK d : d = WithSlash(b)
    OBVIOUS
  <2>4. /\ Seqs!Front(m) = SubSeq(m, 1, Len(m) - 1)
        /\ Seqs!Front(d) = SubSeq(d, 1, Len(d) - 1)
    BY DEF Seqs!Front
  <2>5. IsBelow(m, d) <=> Len(m) = Len(d) /\ Seqs!Front(m) = Seqs!Front(d)
    BY <2>2, <2>4, Zenon DEF IsBelow
  <2>6. m # <<>> /\ Len(Seqs!Front(m)) = Len(m) - 1
    BY <1>1, EmptySeq, FrontOf
  <2>7. Directory(m) = IF Seqs!Front(m) = <<Empty>> THEN RootDir ELSE Seqs!Front(m)
    BY DirectoryPlain
  <2>8. Len(<<Empty>>) = 1
    BY PieceFacts, Single
  <2>9. CASE b = RootDir
    <3>1. d = RootDir
      BY <2>3, <2>9, RootPlain DEF WithSlash
    <3>2. <<Empty>> \in Seq(Piece) /\ Empty \in Piece /\ RootDir = Append(<<Empty>>, Empty)
      BY PieceFacts, Single DEF RootDir
    <3>3. Seqs!Front(d) = <<Empty>>
      BY <3>1, <3>2, FrontOfAppend
    <3>4. Len(d) = 2
      BY <3>1, RootPlain
    <3>5. Seqs!Front(m) = <<Empty>> => Len(m) = 2
      BY <1>1, <2>6, <2>8
    <3>6. IsBelow(m, d) <=> Seqs!Front(m) = <<Empty>>
      BY <2>5, <3>3, <3>4, <3>5
    <3>7. Seqs!Front(m) # RootDir
      <4>1. Len(Seqs!Front(m)) = 2 => Len(m) = 3
        <5>1. PICK n \in Nat : n = Len(m)
          BY <1>1
        <5>2. Len(Seqs!Front(m)) = n - 1
          BY <2>6, <5>1
        <5>3. n - 1 = 2 => n = 3
          OBVIOUS
        <5>4. QED
          BY <5>1, <5>2, <5>3
      <4>2. SUFFICES ASSUME Seqs!Front(m) = RootDir PROVE FALSE
        OBVIOUS
      <4>3. Len(m) = 3
        BY <4>1, <4>2, RootPlain, Zenon
      <4>4. m[2] \in Files
        BY <2>1, <4>3, PlainNames
      <4>5. Seqs!Front(m)[2] = m[2]
        BY <1>1, <2>6, <4>3, FrontOf
      <4>6. QED
        BY <4>2, <4>4, <4>5, RootPlain, PieceFacts
    <3>8. Directory(m) = RootDir <=> Seqs!Front(m) = <<Empty>>
      BY <2>7, <3>7, Zenon
    <3>9. QED
      BY <1>3, <2>3, <2>9, <3>6, <3>8
  <2>10. CASE b # RootDir
    <3>1. b \in Seq(Piece) /\ Len(b) \in Nat /\ Len(b) > 1
      BY <2>10, PlainNames
    <3>2. d = Append(b, Empty) /\ Len(d) = Len(b) + 1
      BY <2>3, <2>10, PlainSlash
    <3>3. Seqs!Front(d) = b
      BY <3>1, <3>2, PieceFacts, FrontOfAppend
    <3>4. Seqs!Front(m) = b => Len(m) = Len(d)
      BY <1>1, <2>6, <3>1, <3>2
    <3>5. IsBelow(m, d) <=> Seqs!Front(m) = b
      BY <2>5, <3>3, <3>4
    <3>6. b # <<Empty>>
      <4>1. PICK n \in Nat : n = Len(b) /\ n > 1
        BY <3>1
      <4>2. n # 1
        BY <4>1
      <4>3. QED
        BY <2>8, <4>1, <4>2, Zenon
    <3>7. Directory(m) = b <=> Seqs!Front(m) = b
      BY <2>7, <2>10, <3>6, Zenon
    <3>8. QED
      BY <1>3, <2>3, <3>5, <3>7
  <2>11. QED
    BY <2>9, <2>10
<1>4. QED
  BY <1>2, <1>3

(* Of a directory ls shows what stands in it without a slash at its end.   *)
LEMMA ListedAre ==
  ASSUME SInv, NEW dir \in {cwd} \cup { Directory(n) : n \in TheNames }
  PROVE  ListDirectory(dir) =
           { FileName(n) : n \in { m \in TheNames : /\ ~EndsInSlash(m)
                                                    /\ Directory(m) = Bare(dir) } }
<1>1. DOMAIN entries = 1 .. Len(entries)
  BY EntryFields DEF SInv
<1>2. \A n \in TheNames : Spelled(n)
  BY <1>1 DEF SInv, Places, TheNames
<1>3. Spelled(dir)
  BY <1>2, DirectoryPlain DEF SInv, Places, Spelled
<1>4. PICK b : b = Bare(dir) /\ Plain(b) /\ Normalize(dir) = b
  BY <1>3, NormalizeBare
<1>5. \A m \in TheNames :
        IsBelow(m, WithSlash(b)) <=> ~EndsInSlash(m) /\ Directory(m) = b
  BY <1>2, <1>4, Below
<1>6. ListDirectory(dir) =
        { FileName(entries[i].name) :
            i \in { j \in DOMAIN entries : IsBelow(entries[j].name, WithSlash(b)) } }
  BY <1>4 DEF ListDirectory
<1>7. \A j \in DOMAIN entries : entries[j].name \in TheNames
  BY DEF TheNames
<1>8. \A n \in TheNames : \E j \in DOMAIN entries : entries[j].name = n
  BY DEF TheNames
<1>9. ListDirectory(dir) =
        { FileName(n) : n \in { m \in TheNames : IsBelow(m, WithSlash(b)) } }
  BY <1>6, <1>7, <1>8
<1>10. { m \in TheNames : IsBelow(m, WithSlash(b)) } =
       { m \in TheNames : ~EndsInSlash(m) /\ Directory(m) = b }
  BY <1>5
<1>11. QED
  BY <1>4, <1>9, <1>10

(* ls of the current directory, or of the directory of any name, shows the *)
(* files that are in it, and nothing that is not.                          *)
THEOREM FilesListed == SSpec => []ListsItsFiles
<1>1. SInv => ListsItsFiles
  <2> SUFFICES ASSUME SInv,
                      NEW dir \in {cwd} \cup { Directory(n) : n \in TheNames },
                      NEW inside, inside = { n \in TheNames \ {RootDir} : Directory(Bare(n)) = Bare(dir) }
               PROVE  /\ { FileName(n) : n \in inside \cap FileNames } \subseteq ListDirectory(dir)
                      /\ ListDirectory(dir) \subseteq { FileName(Bare(n)) : n \in inside }
    BY DEF ListsItsFiles
  <2>1. DOMAIN entries = 1 .. Len(entries)
    BY EntryFields DEF SInv
  <2>2. ListDirectory(dir) =
          { FileName(n) : n \in { m \in TheNames : ~EndsInSlash(m) /\ Directory(m) = Bare(dir) } }
    BY ListedAre
  <2>3. \A n \in TheNames : Spelled(n)
    BY <2>1 DEF SInv, Places, TheNames
  <2>4. \A n \in FileNames : n \in TheNames /\ ~EndsInSlash(n)
    <3>1. SUFFICES ASSUME NEW i \in 1 .. Len(entries), ~entries[i].dir
                   PROVE  entries[i].name \in TheNames /\ ~EndsInSlash(entries[i].name)
      BY <2>1 DEF FileNames
    <3>2. QED
      BY <2>1, <3>1 DEF SInv, Places, TheNames
  <2>5. \A n \in TheNames : ~EndsInSlash(n) => Bare(n) = n
    BY DEF Bare
  <2>6. EndsInSlash(RootDir)
    BY RootPlain DEF EndsInSlash
  <2>7. \A n \in inside \cap FileNames : ~EndsInSlash(n) /\ Directory(n) = Bare(dir) /\ n \in TheNames
    BY <2>4, <2>5
  <2>8. \A n \in TheNames : ~EndsInSlash(n) /\ Directory(n) = Bare(dir) => n \in inside /\ Bare(n) = n
    BY <2>5, <2>6
  <2>9. QED
    BY <2>2, <2>7, <2>8
<1>2. QED
  BY <1>1, SInvInit, SInvNext, PTL DEF SSpec

-----------------------------------------------------------------------------
(* What lies between two newlines is a token of strtok.                    *)
LEMMA LineTaken ==
  ASSUME NEW C, NEW s \in Seq(C), NEW at \in Nat, NEW n \in Nat \ {0}, at + n <= Len(s),
         \A k \in at + 1 .. at + n : s[k] # "NL",
         at + n = Len(s) \/ s[at + n + 1] = "NL"
  PROVE  Strtok(SubSeq(s, at + 1, Len(s)), {"NL"})
           = [token |-> SubSeq(s, at + 1, at + n), rest |-> SubSeq(s, at + n + 2, Len(s))]
<1> DEFINE D == {"NL"}
<1>1. PICK r : r = SubSeq(s, at + 1, Len(s))
  OBVIOUS
<1>2. Len(s) \in Nat /\ at \in 0 .. Len(s)
  BY LenProperties
<1>3. r \in Seq(C) /\ Len(r) = Len(s) - at /\ \A i \in 1 .. Len(r) : r[i] = s[at + i]
  BY <1>1, <1>2, RestIs
<1>4. 1 \in 1 .. Len(r) /\ n \in 1 .. Len(r) /\ Len(r) \in Nat
  BY <1>2, <1>3
<1>5. \A i \in 1 .. n : r[i] \notin D
  <2>1. \A i \in 1 .. n : i \in 1 .. Len(r) /\ at + i \in at + 1 .. at + n
    BY <1>4
  <2>2. QED
    BY <1>3, <2>1
<1>6. ~NoToken(r, D)
  BY <1>4, <1>5 DEF NoToken
<1>7. PICK b \in 1 .. Len(r), e \in 1 .. Len(r) : OneToken(r, D, b, e)
  BY <1>3, <1>6, StrtokFacts
<1>8. /\ b <= e
      /\ \A i \in 1 .. b - 1 : r[i] \in D
      /\ \A i \in b .. e : r[i] \notin D
      /\ e = Len(r) \/ r[e + 1] \in D
      /\ Strtok(r, D) = [token |-> SubSeq(r, b, e), rest |-> SubSeq(r, e + 2, Len(r))]
  BY <1>7 DEF OneToken
<1> HIDE DEF D
<1>9. b = 1
  <2>1. SUFFICES ASSUME b # 1 PROVE FALSE
    OBVIOUS
  <2>2. 1 \in 1 .. b - 1 /\ 1 \in 1 .. n
    BY <2>1
  <2>3. QED
    BY <1>5, <1>8, <2>2
<1>10. e = n
  <2>1. ~(e < n)
    <3>1. SUFFICES ASSUME e < n PROVE FALSE
      OBVIOUS
    <3>2. e # Len(r) /\ e + 1 \in 1 .. n
      BY <1>4, <3>1
    <3>3. QED
      BY <1>5, <1>8, <3>2
  <2>2. ~(n < e)
    <3>1. SUFFICES ASSUME n < e PROVE FALSE
      OBVIOUS
    <3>2. n + 1 \in b .. e /\ n + 1 \in 1 .. Len(r)
      BY <1>4, <1>9, <3>1
    <3>3. at + n # Len(s) /\ at + (n + 1) = at + n + 1
      BY <1>2, <1>3, <3>1
    <3>4. r[n + 1] = "NL"
      BY <1>3, <3>2, <3>3
    <3>5. QED
      BY <1>8, <3>2, <3>4 DEF D
  <2>3. QED
    BY <2>1, <2>2
<1>11. SubSeq(r, 1, n) = SubSeq(s, at + 1, at + n)
  <2>1. 1 \in Nat \ {0} /\ n \in Int /\ n <= Len(r)
    BY <1>4
  <2>2. QED
    BY <1>1, <1>2, <2>1, PartOfRest
<1>12. SubSeq(r, n + 2, Len(r)) = SubSeq(s, at + n + 2, Len(s))
  <2>1. n + 2 \in Nat \ {0} /\ Len(r) \in Int /\ Len(r) <= Len(r)
    BY <1>4
  <2>2. SubSeq(r, n + 2, Len(r)) = SubSeq(s, at + (n + 2), at + Len(r))
    BY <1>1, <1>2, <2>1, PartOfRest
  <2>3. at + (n + 2) = at + n + 2 /\ at + Len(r) = Len(s)
    BY <1>2, <1>3
  <2>4. QED
    BY <2>2, <2>3
<1>13. QED
  BY <1>1, <1>8, <1>9, <1>10, <1>11, <1>12 DEF D

(* The characters of the listing, and a line of it without its newline.    *)
Letter   == Files \cup {"NL", "/"}
Shown(e) == IF e.dir THEN <<FileName(e.name), "/">> ELSE <<FileName(e.name)>>

LEMMA LineOfIs ==
  ASSUME NEW e, FileName(e.name) \in Files, e.dir \in BOOLEAN
  PROVE  \E n \in {1, 2} :
           /\ Shown(e) \in Seq(Letter) /\ Len(Shown(e)) = n
           /\ n = 2 <=> e.dir
           /\ Shown(e)[1] = FileName(e.name)
           /\ LineOf(e) \in Seq(Letter) /\ Len(LineOf(e)) = n + 1
           /\ \A k \in 1 .. n : LineOf(e)[k] = Shown(e)[k] /\ Shown(e)[k] # "NL"
           /\ LineOf(e)[n + 1] = "NL"
<1>1. PICK f : f = FileName(e.name)
  OBVIOUS
<1>2. f \in Letter /\ "NL" \in Letter /\ "/" \in Letter /\ f # "NL" /\ "/" # "NL"
  BY <1>1, ListingAssumption DEF Letter
<1>3. CASE e.dir
  <2>1. Shown(e) = <<f, "/">>
    BY <1>1, <1>3 DEF Shown
  <2>2. LineOf(e) = <<f>> \o <<"/", "NL">>
    BY <1>1, <1>3 DEF LineOf
  <2>3. \A k \in 1 .. 2 : k = 1 \/ k = 2
    OBVIOUS
  <2>4. /\ Shown(e) \in Seq(Letter) /\ Len(Shown(e)) = 2 /\ Shown(e)[1] = f /\ Shown(e)[2] = "/"
    BY <1>2, <2>1, Pair
  <2>5. /\ LineOf(e) \in Seq(Letter) /\ Len(LineOf(e)) = 3
        /\ LineOf(e)[1] = f /\ LineOf(e)[2] = "/" /\ LineOf(e)[3] = "NL"
    <3>1. /\ <<f>> \in Seq(Letter) /\ Len(<<f>>) = 1 /\ <<f>>[1] = f
          /\ <<"/", "NL">> \in Seq(Letter) /\ Len(<<"/", "NL">>) = 2
          /\ <<"/", "NL">>[1] = "/" /\ <<"/", "NL">>[2] = "NL"
      BY <1>2, Single, Pair
    <3>2. QED
      BY <2>2, <3>1, ConcatProperties
  <2>6. QED
    BY <1>1, <1>2, <1>3, <2>3, <2>4, <2>5
<1>4. CASE ~e.dir
  <2>1. Shown(e) = <<f>>
    BY <1>1, <1>4 DEF Shown
  <2>2. LineOf(e) = <<f>> \o <<"NL">>
    BY <1>1, <1>4 DEF LineOf
  <2>3. \A k \in 1 .. 1 : k = 1
    OBVIOUS
  <2>4. Shown(e) \in Seq(Letter) /\ Len(Shown(e)) = 1 /\ Shown(e)[1] = f
    BY <1>2, <2>1, Single
  <2>5. LineOf(e) \in Seq(Letter) /\ Len(LineOf(e)) = 2 /\ LineOf(e)[1] = f /\ LineOf(e)[2] = "NL"
    <3>1. /\ <<f>> \in Seq(Letter) /\ Len(<<f>>) = 1 /\ <<f>>[1] = f
          /\ <<"NL">> \in Seq(Letter) /\ Len(<<"NL">>) = 1 /\ <<"NL">>[1] = "NL"
      BY <1>2, Single
    <3>2. QED
      BY <2>2, <3>1, ConcatProperties
  <2>6. QED
    BY <1>1, <1>2, <1>4, <2>3, <2>4, <2>5
<1>5. QED
  BY <1>3, <1>4

(* What ls -l makes of a line is the name of its entry.                    *)
LEMMA SlashAtEnd ==
  ASSUME NEW p \in Seq(Piece)
  PROVE  Normalize(Append(p, Empty)) = Normalize(p)
  BY StackSlash DEF Normalize

LEMMA BelowNamed ==
  ASSUME NEW b, Plain(b), NEW m, Spelled(m), IsBelow(m, WithSlash(b))
  PROVE  /\ FileName(m) \in Files
         /\ Normalize(b \o <<FileName(m)>>) = m
         /\ Normalize(b \o <<FileName(m), Empty>>) = m
<1>1. ~EndsInSlash(m) /\ Directory(m) = b
  BY Below
<1>2. Plain(m) /\ m # RootDir
  BY <1>1, PlainSlash, RootPlain DEF Spelled
<1>3. PICK f \in Files : f = FileName(m)
  BY <1>2, PlainNames DEF FileName
<1>4. f \in Piece /\ Empty \in Piece /\ b \in Seq(Piece)
  BY PieceFacts DEF Plain
<1>5. /\ <<f>> \in Seq(Piece) /\ Len(<<f>>) = 1 /\ <<f>>[1] = f
      /\ <<f, Empty>> \in Seq(Piece) /\ Len(<<f, Empty>>) = 2
      /\ <<f, Empty>>[1] = f /\ <<f, Empty>>[2] = Empty
  BY <1>4, Single, Pair
<1>6. Normalize(b \o <<f>>) = m
  <2>1. Absolute(<<f>>, b) = m
    BY <1>1, <1>2, <1>3, TakenApart
  <2>2. ~IsAbsolute(<<f>>)
    BY <1>5 DEF IsAbsolute
  <2>3. QED
    BY <2>1, <2>2 DEF Absolute
<1>7. b \o <<f, Empty>> = Append(b \o <<f>>, Empty)
  <2>1. PICK n \in Nat : n = Len(b)
    BY <1>4, LenProperties
  <2>2. PICK p : p = b \o <<f>>
    OBVIOUS
  <2>3. PICK q : q = b \o <<f, Empty>>
    OBVIOUS
  <2>4. /\ p \in Seq(Piece) /\ Len(p) = n + 1
        /\ \A k \in 1 .. n : p[k] = b[k]
        /\ \A k \in 1 .. 1 : p[n + k] = <<f>>[k]
    BY <1>4, <1>5, <2>1, <2>2, Joined
  <2>5. /\ q \in Seq(Piece) /\ Len(q) = n + 2
        /\ \A k \in 1 .. n : q[k] = b[k]
        /\ \A k \in 1 .. 2 : q[n + k] = <<f, Empty>>[k]
    BY <1>4, <1>5, <2>1, <2>3, Joined
  <2>6. /\ Append(p, Empty) \in Seq(Piece) /\ Len(Append(p, Empty)) = n + 2
        /\ \A k \in 1 .. n + 1 : Append(p, Empty)[k] = p[k]
        /\ Append(p, Empty)[n + 2] = Empty
    <3>1. (n + 1) + 1 = n + 2
      OBVIOUS
    <3>2. QED
      BY <1>4, <2>4, <3>1, AppendProperties
  <2>7. \A k \in 1 .. n + 2 : q[k] = Append(p, Empty)[k]
    <3>1. ASSUME NEW k \in 1 .. n + 2 PROVE q[k] = Append(p, Empty)[k]
      <4>1. CASE k \in 1 .. n
        BY <2>4, <2>5, <2>6, <4>1
      <4>2. CASE k = n + 1
        <5>1. 1 \in 1 .. 1 /\ 1 \in 1 .. 2 /\ k \in 1 .. n + 1
          BY <4>2
        <5>2. p[n + 1] = <<f>>[1] /\ q[n + 1] = <<f, Empty>>[1] /\ Append(p, Empty)[n + 1] = p[n + 1]
          BY <2>4, <2>5, <2>6, <4>2, <5>1
        <5>3. QED
          BY <1>5, <4>2, <5>2
      <4>3. CASE k = n + 2
        <5>1. 2 \in 1 .. 2
          OBVIOUS
        <5>2. q[n + 2] = <<f, Empty>>[2]
          BY <2>5, <5>1
        <5>3. QED
          BY <1>5, <2>6, <4>3, <5>2, Zenon
      <4>4. k \in 1 .. n \/ k = n + 1 \/ k = n + 2
        OBVIOUS
      <4>5. QED
        BY <4>1, <4>2, <4>3, <4>4, Zenon
    <3>2. QED
      BY <3>1
  <2>8. q = Append(p, Empty)
    BY <2>5, <2>6, <2>7, SeqEqual
  <2>9. QED
    BY <2>2, <2>3, <2>8
<1>8. b \o <<f>> \in Seq(Piece)
  BY <1>4, <1>5, Joined
<1>9. Normalize(b \o <<f, Empty>>) = m
  BY <1>6, <1>7, <1>8, SlashAtEnd
<1>10. QED
  BY <1>3, <1>6, <1>9

LEMMA RowNamed ==
  ASSUME NEW dir, Spelled(dir), NEW e, Spelled(e.name), e.dir \in BOOLEAN,
         IsBelow(e.name, WithSlash(Normalize(dir)))
  PROVE  /\ FileName(e.name) \in Files
         /\ RowPath(dir, Shown(e)) = e.name
         /\ Len(Shown(e)) = 2 <=> e.dir
<1>1. PICK b : b = Normalize(dir)
  OBVIOUS
<1>2. Plain(b)
  BY <1>1, NormalizeBare
<1>3. PICK f : f = FileName(e.name)
  OBVIOUS
<1>4. f \in Files /\ Normalize(b \o <<f>>) = e.name /\ Normalize(b \o <<f, Empty>>) = e.name
  BY <1>1, <1>2, <1>3, BelowNamed
<1>5. PICK n \in {1, 2} : /\ Len(Shown(e)) = n
                          /\ n = 2 <=> e.dir
                          /\ Shown(e)[1] = f
  BY <1>3, <1>4, LineOfIs
<1>6. CASE e.dir
  BY <1>1, <1>3, <1>4, <1>5, <1>6 DEF RowPath
<1>7. CASE ~e.dir
  <2>1. Shown(e) = <<f>> /\ Len(Shown(e)) # 2
    BY <1>3, <1>5, <1>7 DEF Shown
  <2>2. QED
    BY <1>1, <1>3, <1>4, <1>5, <1>7, <2>1 DEF RowPath
<1>8. QED
  BY <1>6, <1>7

(* The text of a directory, entry by entry.                                *)
Lists(dir, k) == IsBelow(entries[k].name, WithSlash(Normalize(dir)))

LEMMA EntryListed ==
  ASSUME SInv, NEW dir, Spelled(dir), NEW k \in 1 .. Len(entries), Lists(dir, k)
  PROVE  /\ FileName(entries[k].name) \in Files /\ entries[k].dir \in BOOLEAN
         /\ RowPath(dir, Shown(entries[k])) = entries[k].name
         /\ Len(Shown(entries[k])) = 2 <=> entries[k].dir
<1>1. entries[k] \in Entry
  BY ElementOfSeq DEF SInv, TypeOK
<1>2. entries[k].dir \in BOOLEAN
  BY <1>1 DEF Entry
<1>3. Spelled(entries[k].name)
  BY DEF SInv, Places
<1>4. QED
  BY <1>2, <1>3, RowNamed DEF Lists

LEMMA WrittenDef ==
  ASSUME SInv, NEW dir, Spelled(dir)
  PROVE  /\ Written(dir)[0] = <<>>
         /\ \A k \in 1 .. Len(entries) :
              Written(dir)[k] =
                Written(dir)[k - 1] \o (IF Lists(dir, k) THEN LineOf(entries[k]) ELSE <<>>)
         /\ \A k \in 0 .. Len(entries) : Written(dir)[k] \in Seq(Letter)
<1> DEFINE S == Seq(Letter)
<1> DEFINE line(k) == IF Lists(dir, k) THEN LineOf(entries[k]) ELSE <<>>
<1>1. PICK N \in Nat : N = Len(entries)
  BY EntryFields DEF SInv
<1>2. \A k \in 1 .. N : line(k) \in S
  <2>1. ASSUME NEW k \in 1 .. N PROVE line(k) \in S
    <3>1. CASE Lists(dir, k)
      BY <1>1, <3>1, EntryListed, LineOfIs
    <3>2. CASE ~Lists(dir, k)
      BY <3>2
    <3>3. QED
      BY <3>1, <3>2
  <2>2. QED
    BY <2>1
<1> DEFINE turn == [k \in 1 .. N |-> [x \in S |-> x \o line(k)]]
<1> HIDE DEF line
<1>3. turn \in [1 .. N -> [S -> S]]
  BY <1>2
<1>4. <<>> \in S
  OBVIOUS
<1> HIDE DEF S, turn
<1>5. PICK f \in [0 .. N -> S] : \A k \in 0 .. N : f[k] = IF k = 0 THEN <<>> ELSE turn[k][f[k - 1]]
  <2>1. CanRun(S, <<>>, N, turn)
    BY <1>3, <1>4, Runs
  <2>2. QED
    BY <2>1 DEF CanRun
<1>6. \A k \in 0 .. N : f[k] = IF k = 0 THEN <<>> ELSE f[k - 1] \o line(k)
  <2>1. ASSUME NEW k \in 0 .. N, k # 0 PROVE f[k] = f[k - 1] \o line(k)
    <3>1. k \in 1 .. N /\ k - 1 \in 0 .. N /\ f[k - 1] \in S
      BY <2>1
    <3>2. f[k] = turn[k][f[k - 1]]
      BY <1>5, <2>1
    <3>3. QED
      BY <3>1, <3>2 DEF turn
  <2>2. QED
    BY <1>5, <2>1
<1>7. \E g : g = [k \in 0 .. N |-> IF k = 0 THEN <<>> ELSE g[k - 1] \o line(k)]
  <2>1. f = [k \in 0 .. N |-> f[k]]
    BY <1>5
  <2>2. f = [k \in 0 .. N |-> IF k = 0 THEN <<>> ELSE f[k - 1] \o line(k)]
    BY <1>6, <2>1
  <2>3. QED
    BY <2>2, Zenon
<1> DEFINE F == CHOOSE g : g = [k \in 0 .. N |-> IF k = 0 THEN <<>> ELSE g[k - 1] \o line(k)]
<1>8. F = [k \in 0 .. N |-> IF k = 0 THEN <<>> ELSE F[k - 1] \o line(k)]
  BY <1>7, Zenon
<1>9. Written(dir) = F
  BY <1>1 DEF Written, line, Lists
<1> HIDE DEF F
<1>10. F[0] = <<>> /\ \A k \in 1 .. N : F[k] = F[k - 1] \o line(k)
  <2>1. ASSUME NEW k \in 0 .. N PROVE F[k] = IF k = 0 THEN <<>> ELSE F[k - 1] \o line(k)
    BY <1>8, Zenon
  <2>2. 0 \in 0 .. N /\ \A k \in 1 .. N : k \in 0 .. N /\ k # 0
    OBVIOUS
  <2>3. QED
    BY <2>1, <2>2, Zenon
<1>11. \A k \in 0 .. N : F[k] \in S
  <2> DEFINE P == { k \in Nat : k <= N => F[k] \in S }
  <2>1. 0 \in P
    BY <1>4, <1>10
  <2>2. ASSUME NEW k \in P PROVE k + 1 \in P
    <3>1. SUFFICES ASSUME k + 1 <= N PROVE F[k + 1] \in S
      OBVIOUS
    <3>2. F[k] \in S /\ k + 1 \in 1 .. N /\ (k + 1) - 1 = k
      BY <3>1
    <3>3. F[k + 1] = F[k] \o line(k + 1) /\ line(k + 1) \in S
      BY <1>2, <1>10, <3>2
    <3>4. QED
      BY <3>2, <3>3 DEF S
  <2>3. P \in SUBSET Nat
    OBVIOUS
  <2> HIDE DEF P
  <2>4. P = Nat
    BY <2>1, <2>2, <2>3, NatInd
  <2>5. QED
    BY <2>4 DEF P
<1>12. QED
  BY <1>1, <1>9, <1>10, <1>11 DEF S, line

LEMMA WrittenGrows ==
  ASSUME SInv, NEW dir, Spelled(dir), NEW j \in Nat, NEW m \in Nat, j <= m, m <= Len(entries)
  PROVE  /\ Len(Written(dir)[j]) \in Nat /\ Len(Written(dir)[m]) \in Nat
         /\ Len(Written(dir)[j]) <= Len(Written(dir)[m])
         /\ \A i \in 1 .. Len(Written(dir)[j]) : Written(dir)[m][i] = Written(dir)[j][i]
<1>1. PICK N \in Nat : N = Len(entries)
  BY EntryFields DEF SInv
<1>2. PICK W : W = Written(dir)
  OBVIOUS
<1>3. /\ \A k \in 0 .. N : W[k] \in Seq(Letter) /\ Len(W[k]) \in Nat
      /\ \A k \in 1 .. N : \E t \in Seq(Letter) : W[k] = W[k - 1] \o t
  <2>1. \A k \in 0 .. N : W[k] \in Seq(Letter)
    BY <1>1, <1>2, WrittenDef
  <2>2. ASSUME NEW k \in 1 .. N PROVE \E t \in Seq(Letter) : W[k] = W[k - 1] \o t
    <3>1. CASE Lists(dir, k)
      <4>1. LineOf(entries[k]) \in Seq(Letter)
        BY <1>1, <3>1, EntryListed, LineOfIs
      <4>2. QED
        BY <1>1, <1>2, <3>1, <4>1, WrittenDef
    <3>2. CASE ~Lists(dir, k)
      <4>1. <<>> \in Seq(Letter)
        OBVIOUS
      <4>2. QED
        BY <1>1, <1>2, <3>2, <4>1, WrittenDef
    <3>3. QED
      BY <3>1, <3>2
  <2>3. QED
    BY <2>1, <2>2, LenProperties
<1> DEFINE Good(k) == /\ Len(W[j]) <= Len(W[k])
                      /\ \A i \in 1 .. Len(W[j]) : W[k][i] = W[j][i]
<1> DEFINE P == { d \in Nat : j + d <= N => Good(j + d) }
<1>4. 0 \in P
  <2>1. j + 0 = j /\ j \in 0 .. N
    BY <1>1
  <2>2. QED
    BY <1>3, <2>1
<1>5. ASSUME NEW d \in P PROVE d + 1 \in P
  <2>1. SUFFICES ASSUME j + (d + 1) <= N PROVE Good(j + (d + 1))
    OBVIOUS
  <2>2. PICK k \in Nat : k = j + d
    OBVIOUS
  <2>3. Good(k) /\ k + 1 \in 1 .. N /\ k \in 0 .. N /\ j \in 0 .. N
        /\ (k + 1) - 1 = k /\ j + (d + 1) = k + 1
    BY <1>1, <2>1, <2>2
  <2>4. PICK t \in Seq(Letter) : W[k + 1] = W[k] \o t
    BY <1>3, <2>3
  <2>5. PICK a, b, c : a = W[j] /\ b = W[k] /\ c = W[k + 1]
    OBVIOUS
  <2>6. /\ a \in Seq(Letter) /\ b \in Seq(Letter) /\ c = b \o t
        /\ Len(a) \in Nat /\ Len(b) \in Nat /\ Len(t) \in Nat
        /\ Len(a) <= Len(b) /\ \A i \in 1 .. Len(a) : b[i] = a[i]
    BY <1>3, <2>3, <2>4, <2>5, LenProperties
  <2>7. /\ Len(c) = Len(b) + Len(t)
        /\ \A i \in 1 .. Len(b) + Len(t) : c[i] = IF i <= Len(b) THEN b[i] ELSE t[i - Len(b)]
    BY <2>6, ConcatProperties
  <2>8. Len(a) <= Len(c) /\ \A i \in 1 .. Len(a) : c[i] = a[i]
    BY <2>6, <2>7
  <2>9. QED
    BY <2>3, <2>5, <2>8
<1>6. P \in SUBSET Nat
  OBVIOUS
<1> HIDE DEF P
<1>7. P = Nat
  BY <1>4, <1>5, <1>6, NatInd
<1>8. m - j \in P /\ j + (m - j) = m
  BY <1>7
<1>9. Good(m)
  BY <1>1, <1>8 DEF P
<1>10. j \in 0 .. N /\ m \in 0 .. N
  BY <1>1
<1>11. QED
  BY <1>2, <1>3, <1>9, <1>10

(* The buffer is what was written but for its last character.              *)
LEMMA BufferIs ==
  ASSUME SInv, NEW dir, Spelled(dir), NEW B, B = ListingBuffer(dir),
         NEW all, all = Written(dir)[Len(entries)]
  PROVE  /\ B \in Seq(Letter) /\ Len(B) \in Nat /\ Len(all) \in Nat
         /\ Len(B) = IF Len(all) = 0 THEN 0 ELSE Len(all) - 1
         /\ \A i \in 1 .. Len(B) : B[i] = all[i]
<1>1. PICK N \in Nat : N = Len(entries)
  BY EntryFields DEF SInv
<1>2. N \in 0 .. N
  OBVIOUS
<1>3. all \in Seq(Letter) /\ Len(all) \in Nat
  BY <1>1, <1>2, WrittenDef, LenProperties
<1>4. B = IF all = <<>> THEN <<>> ELSE Seqs!Front(all)
  BY DEF ListingBuffer
<1>5. CASE all = <<>>
  <2>1. B = <<>> /\ Len(all) = 0
    BY <1>4, <1>5
  <2>2. <<>> \in Seq(Letter) /\ Len(<<>>) = 0
    OBVIOUS
  <2>3. QED
    BY <1>3, <2>1, <2>2
<1>6. CASE all # <<>>
  <2>1. B = Seqs!Front(all) /\ Len(all) # 0
    BY <1>3, <1>4, <1>6, EmptySeq
  <2>2. QED
    BY <1>3, <1>6, <2>1, FrontOf
<1>7. QED
  BY <1>5, <1>6

LEMMA TakesLine ==
  ASSUME SInv, NEW dir, Spelled(dir), NEW k \in 1 .. Len(entries), Lists(dir, k),
         NEW B, B = ListingBuffer(dir), NEW W, W = Written(dir)
  PROVE  /\ Strtok(SubSeq(B, Len(W[k - 1]) + 1, Len(B)), {"NL"})
              = [token |-> Shown(entries[k]), rest |-> SubSeq(B, Len(W[k]) + 1, Len(B))]
         /\ Shown(entries[k]) # <<>>
         /\ Len(W[k - 1]) \in Nat /\ Len(W[k]) \in Nat
         /\ Len(W[k - 1]) + 2 <= Len(W[k])
<1>1. PICK N \in Nat : N = Len(entries)
  BY EntryFields DEF SInv
<1>2. k - 1 \in 0 .. N /\ k \in 1 .. N /\ k \in 0 .. N /\ N \in 0 .. N
  BY <1>1
<1>3. PICK at, s, t, line : at = Len(W[k - 1]) /\ s = W[k - 1] /\ t = Shown(entries[k]) /\ line = LineOf(entries[k])
  OBVIOUS
<1>4. PICK n \in {1, 2} :
           /\ t \in Seq(Letter) /\ Len(t) = n
           /\ line \in Seq(Letter) /\ Len(line) = n + 1
           /\ \A i \in 1 .. n : line[i] = t[i] /\ t[i] # "NL"
           /\ line[n + 1] = "NL"
  <2>1. FileName(entries[k].name) \in Files /\ entries[k].dir \in BOOLEAN
    BY EntryListed
  <2>2. QED
    BY <1>3, <2>1, LineOfIs
<1>5. s \in Seq(Letter) /\ at = Len(s) /\ at \in Nat
  BY <1>1, <1>2, <1>3, WrittenDef, LenProperties
<1>6. W[k] = s \o line
  BY <1>1, <1>2, <1>3, WrittenDef
<1>7. PICK u : u = W[k]
  OBVIOUS
<1>8. /\ Len(u) = at + n + 1
      /\ \A i \in 1 .. n + 1 : u[at + i] = line[i]
  <2>1. /\ Len(u) = Len(s) + Len(line)
        /\ \A i \in 1 .. Len(s) + Len(line) : u[i] = IF i <= Len(s) THEN s[i] ELSE line[i - Len(s)]
    BY <1>4, <1>5, <1>6, <1>7, ConcatProperties
  <2>2. ASSUME NEW i \in 1 .. n + 1 PROVE u[at + i] = line[i]
    <3>1. PICK j \in Nat : j = at + i
      BY <1>5
    <3>2. j \in 1 .. Len(s) + Len(line) /\ ~(j <= Len(s)) /\ j - Len(s) = i
      BY <1>4, <1>5, <3>1
    <3>3. u[j] = line[j - Len(s)]
      BY <2>1, <3>2
    <3>4. QED
      BY <3>1, <3>2, <3>3
  <2>3. QED
    BY <1>4, <1>5, <2>1, <2>2
<1>9. PICK all : all = W[N]
  OBVIOUS
<1>10. /\ Len(all) \in Nat /\ Len(u) <= Len(all)
       /\ \A i \in 1 .. Len(u) : all[i] = u[i]
  <2>1. k \in Nat /\ N \in Nat /\ k <= N /\ N <= Len(entries)
    BY <1>1, <1>2
  <2>2. QED
    BY <1>7, <1>9, <2>1, WrittenGrows
<1>11. /\ B \in Seq(Letter) /\ Len(B) = Len(all) - 1
       /\ \A i \in 1 .. Len(B) : B[i] = all[i]
  <2>1. all = Written(dir)[Len(entries)]
    BY <1>1, <1>9
  <2>2. Len(all) # 0
    BY <1>4, <1>5, <1>8, <1>10
  <2>3. QED
    BY <2>1, <2>2, BufferIs
<1>12. at + n <= Len(B)
  BY <1>4, <1>5, <1>8, <1>10, <1>11
<1>13. \A i \in 1 .. n : B[at + i] = t[i] /\ B[at + i] # "NL"
  <2>1. ASSUME NEW i \in 1 .. n PROVE B[at + i] = t[i] /\ B[at + i] # "NL"
    <3>1. at + i \in 1 .. Len(B) /\ at + i \in 1 .. Len(u) /\ i \in 1 .. n + 1
      BY <1>4, <1>5, <1>8, <1>12
    <3>2. B[at + i] = u[at + i]
      BY <1>10, <1>11, <3>1
    <3>3. QED
      BY <1>4, <1>8, <3>1, <3>2
  <2>2. QED
    BY <2>1
<1>14. \A j \in at + 1 .. at + n : B[j] # "NL"
  <2>1. ASSUME NEW j \in at + 1 .. at + n PROVE B[j] # "NL"
    <3>1. j - at \in 1 .. n /\ at + (j - at) = j
      BY <1>4, <1>5
    <3>2. QED
      BY <1>13, <3>1
  <2>2. QED
    BY <2>1
<1>15. at + n = Len(B) \/ B[at + n + 1] = "NL"
  <2>1. SUFFICES ASSUME at + n # Len(B) PROVE B[at + n + 1] = "NL"
    OBVIOUS
  <2>2. Len(B) \in Nat
    BY <1>11, LenProperties
  <2>3. at + n + 1 \in 1 .. Len(B) /\ at + n + 1 \in 1 .. Len(u) /\ n + 1 \in 1 .. n + 1
        /\ at + n + 1 = at + (n + 1)
    BY <1>4, <1>5, <1>8, <1>12, <2>1, <2>2
  <2>4. B[at + n + 1] = u[at + (n + 1)]
    BY <1>10, <1>11, <2>3
  <2>5. QED
    BY <1>4, <1>8, <2>3, <2>4
<1>16. n \in Nat \ {0}
  BY <1>4
<1>17. Strtok(SubSeq(B, at + 1, Len(B)), {"NL"})
         = [token |-> SubSeq(B, at + 1, at + n), rest |-> SubSeq(B, at + n + 2, Len(B))]
  BY <1>5, <1>11, <1>12, <1>14, <1>15, <1>16, LineTaken
<1>18. SubSeq(B, at + 1, at + n) = t
  <2>1. PICK p : p = SubSeq(B, at + 1, at + n)
    OBVIOUS
  <2>2. Len(B) \in Nat /\ \A j \in 1 .. Len(B) : B[j] \in Letter
    BY <1>11, LenProperties, ElementOfSeq
  <2>3. /\ p \in Seq(Letter) /\ Len(p) = n
        /\ \A i \in 1 .. n : p[i] = B[at + i]
    <3>1. PICK b \in Int, e \in Int : b = at + 1 /\ e = at + n
      BY <1>5, <1>16
    <3>2. b <= e /\ \A j \in b .. e : B[j] \in Letter
      BY <1>5, <1>12, <1>16, <2>2, <3>1
    <3>3. p = SubSeq(B, b, e)
      BY <2>1, <3>1
    <3>4. /\ p \in Seq(Letter) /\ Len(p) = e - b + 1
          /\ \A i \in 1 .. e - b + 1 : p[i] = B[b + i - 1]
      BY <3>2, <3>3, SubSeqProperties
    <3>5. e - b + 1 = n /\ \A i \in 1 .. n : b + i - 1 = at + i
      BY <1>5, <1>16, <3>1
    <3>6. QED
      BY <3>4, <3>5
  <2>4. Len(p) = Len(t) /\ \A i \in 1 .. Len(p) : p[i] = t[i]
    BY <1>4, <1>13, <2>3
  <2>5. p = t
    BY <1>4, <2>3, <2>4, SeqEqual
  <2>6. QED
    BY <2>1, <2>5
<1>19. at + n + 2 = Len(u) + 1 /\ at + 2 <= Len(u) /\ Len(u) \in Nat
  BY <1>4, <1>5, <1>8, <1>16
<1>20. t # <<>>
  BY <1>4, <1>16, EmptySeq
<1>21. QED
  BY <1>3, <1>5, <1>7, <1>17, <1>18, <1>19, <1>20

(* The loop over strtok, turn by turn.                                     *)
LEMMA LoopDef ==
  ASSUME NEW C, NEW text \in Seq(C)
  PROVE  /\ Loop(text, FALSE)[0] = [seen |-> <<>>, rest |-> text]
         /\ \A n \in 1 .. Len(text) : Loop(text, FALSE)[n] = See(Loop(text, FALSE)[n - 1], FALSE)
<1> DEFINE S == [seen : Seq(Seq(C)), rest : Seq(C)]
<1>1. PICK N \in Nat : N = Len(text)
  BY LenProperties
<1>2. ASSUME NEW st \in S PROVE See(st, FALSE) \in S
  <2>1. st.seen \in Seq(Seq(C)) /\ st.rest \in Seq(C)
    OBVIOUS
  <2>2. PICK t : t = Strtok(st.rest, {"NL"})
    OBVIOUS
  <2>3. t.token \in Seq(C) /\ t.rest \in Seq(C) /\ <<>> \in Seq(C)
    BY <2>1, <2>2, StrtokType
  <2>4. CASE t.token = <<>>
    <3>1. See(st, FALSE) = [st EXCEPT !.rest = <<>>]
      BY <2>2, <2>4 DEF See
    <3>2. QED
      BY <2>3, <3>1
  <2>5. CASE t.token # <<>>
    <3>1. PICK u : u = Append(st.seen, t.token)
      OBVIOUS
    <3>2. See(st, FALSE) = [seen |-> u, rest |-> t.rest]
      BY <2>2, <2>5, <3>1 DEF See
    <3>3. u \in Seq(Seq(C))
      BY <2>1, <2>3, <3>1, AppendProperties
    <3>4. QED
      <4>1. t.rest \in Seq(C)
        BY <2>3
      <4>2. PICK v : v = t.rest
        OBVIOUS
      <4>3. See(st, FALSE) = [seen |-> u, rest |-> v] /\ v \in Seq(C)
        BY <3>2, <4>1, <4>2
      <4>4. [seen |-> u, rest |-> v] \in S
        BY <3>3, <4>3
      <4>5. QED
        BY <4>3, <4>4
  <2>6. QED
    BY <2>4, <2>5
<1> DEFINE a == [seen |-> <<>>, rest |-> text]
<1> DEFINE turn == [n \in 1 .. N |-> [x \in S |-> See(x, FALSE)]]
<1>3. a \in S
  <2>1. <<>> \in Seq(Seq(C))
    OBVIOUS
  <2>2. QED
    BY <2>1
<1>4. turn \in [1 .. N -> [S -> S]]
  BY <1>2
<1> HIDE DEF S, a, turn
<1>5. PICK f \in [0 .. N -> S] : \A n \in 0 .. N : f[n] = IF n = 0 THEN a ELSE turn[n][f[n - 1]]
  <2>1. CanRun(S, a, N, turn)
    BY <1>3, <1>4, Runs
  <2>2. QED
    BY <2>1 DEF CanRun
<1>6. \A n \in 0 .. N : f[n] = IF n = 0 THEN a ELSE See(f[n - 1], FALSE)
  <2>1. ASSUME NEW n \in 0 .. N, n # 0 PROVE f[n] = See(f[n - 1], FALSE)
    <3>1. n \in 1 .. N /\ n - 1 \in 0 .. N /\ f[n - 1] \in S
      BY <2>1
    <3>2. f[n] = turn[n][f[n - 1]]
      BY <1>5, <2>1
    <3>3. QED
      BY <3>1, <3>2 DEF turn
  <2>2. QED
    BY <1>5, <2>1
<1>7. \E g : g = [n \in 0 .. N |-> IF n = 0 THEN a ELSE See(g[n - 1], FALSE)]
  BY <1>5, <1>6
<1> DEFINE F == CHOOSE g : g = [n \in 0 .. N |-> IF n = 0 THEN a ELSE See(g[n - 1], FALSE)]
<1>8. F = [n \in 0 .. N |-> IF n = 0 THEN a ELSE See(F[n - 1], FALSE)]
  BY <1>7, Zenon
<1>9. Loop(text, FALSE) = F
  BY <1>1 DEF Loop, a
<1> HIDE DEF F
<1>10. F[0] = a /\ \A n \in 1 .. N : F[n] = See(F[n - 1], FALSE)
  <2>1. ASSUME NEW n \in 0 .. N PROVE F[n] = IF n = 0 THEN a ELSE See(F[n - 1], FALSE)
    BY <1>8, Zenon
  <2>2. 0 \in 0 .. N /\ \A n \in 1 .. N : n \in 0 .. N /\ n # 0
    OBVIOUS
  <2>3. QED
    BY <2>1, <2>2, Zenon
<1>11. QED
  BY <1>1, <1>9, <1>10 DEF a

(* What the loop has seen when strtok is past what was written of the      *)
(* first k entries: a line for each that is listed.                        *)
Rows(ix) == [i \in 1 .. Len(ix) |-> Shown(entries[ix[i]])]

Read(dir, k, ix) ==
  /\ Rising(ix) /\ Positions(ix) = { j \in 1 .. k : Lists(dir, j) }
  /\ 2 * Len(ix) <= Len(Written(dir)[k])
  /\ Loop(ListingBuffer(dir), FALSE)[Len(ix)]
       = [seen |-> Rows(ix),
          rest |-> SubSeq(ListingBuffer(dir), Len(Written(dir)[k]) + 1, Len(ListingBuffer(dir)))]

LEMMA RisingMore ==
  ASSUME NEW ix, Rising(ix), NEW k \in Nat, \A x \in Positions(ix) : x <= k
  PROVE  /\ Rising(Append(ix, k + 1))
         /\ Positions(Append(ix, k + 1)) = Positions(ix) \cup {k + 1}
         /\ Len(ix) \in Nat /\ Len(Append(ix, k + 1)) = Len(ix) + 1
         /\ \A i \in 1 .. Len(ix) : Append(ix, k + 1)[i] = ix[i]
         /\ Append(ix, k + 1)[Len(ix) + 1] = k + 1
<1>1. /\ ix \in Seq(Nat) /\ Len(ix) \in Nat
      /\ \A i \in 1 .. Len(ix) : ix[i] \in Nat /\ ix[i] <= k
      /\ \A i, j \in 1 .. Len(ix) : i < j => ix[i] < ix[j]
  BY LenProperties, ElementOfSeq DEF Rising, Positions
<1>2. PICK n, m, x : n = Len(ix) /\ m = k + 1 /\ x = Append(ix, k + 1)
  OBVIOUS
<1>3. m \in Nat /\ n \in Nat
  BY <1>1, <1>2
<1>4. /\ x \in Seq(Nat) /\ Len(x) = n + 1
      /\ \A i \in 1 .. n : x[i] = ix[i]
      /\ x[n + 1] = m
  BY <1>1, <1>2, <1>3, AppendProperties
<1>5. \A i, j \in 1 .. n + 1 : i < j => x[i] < x[j]
  <2>1. ASSUME NEW i \in 1 .. n + 1, NEW j \in 1 .. n + 1, i < j PROVE x[i] < x[j]
    <3>1. i \in 1 .. n /\ x[i] = ix[i]
      BY <1>3, <1>4, <2>1
    <3>2. CASE j \in 1 .. n
      BY <1>1, <1>2, <1>4, <2>1, <3>1, <3>2
    <3>3. CASE j = n + 1
      BY <1>1, <1>2, <1>4, <3>1, <3>3
    <3>4. QED
      BY <1>3, <3>2, <3>3
  <2>2. QED
    BY <2>1
<1>6. Positions(x) = Positions(ix) \cup {m}
  <2>1. ASSUME NEW y \in Positions(x) PROVE y \in Positions(ix) \cup {m}
    <3>1. PICK i \in 1 .. n + 1 : y = x[i]
      BY <1>4, <2>1 DEF Positions
    <3>2. CASE i \in 1 .. n
      BY <1>2, <1>4, <3>1, <3>2 DEF Positions
    <3>3. CASE i = n + 1
      BY <1>4, <3>1, <3>3
    <3>4. QED
      BY <1>3, <3>2, <3>3
  <2>2. ASSUME NEW y \in Positions(ix) PROVE y \in Positions(x)
    <3>1. PICK i \in 1 .. n : y = ix[i]
      BY <1>2, <2>2 DEF Positions
    <3>2. i \in 1 .. n + 1 /\ y = x[i]
      BY <1>3, <1>4, <3>1
    <3>3. QED
      BY <1>4, <3>2 DEF Positions
  <2>3. m \in Positions(x)
    <3>1. n + 1 \in 1 .. Len(x)
      BY <1>3, <1>4
    <3>2. QED
      BY <1>4, <3>1, Zenon DEF Positions
  <2>4. QED
    BY <2>1, <2>2, <2>3
<1>7. QED
  BY <1>2, <1>3, <1>4, <1>5, <1>6 DEF Rising

LEMMA RowsMore ==
  ASSUME NEW ix \in Seq(Nat), NEW k \in Nat
  PROVE  Rows(Append(ix, k + 1)) = Append(Rows(ix), Shown(entries[k + 1]))
<1>1. PICK n, m, x, r : n = Len(ix) /\ m = k + 1 /\ x = Append(ix, k + 1) /\ r = Rows(ix)
  OBVIOUS
<1>2. n \in Nat /\ m \in Nat
  BY <1>1, LenProperties
<1>3. Len(x) = n + 1 /\ (\A i \in 1 .. n : x[i] = ix[i]) /\ x[n + 1] = m
  BY <1>1, <1>2, AppendProperties
<1> DEFINE T == { Shown(e) : e \in { entries[i] : i \in Nat } }
<1>4. PICK t : t = Shown(entries[m])
  OBVIOUS
<1>5. ix \in Seq(Nat) /\ \A i \in 1 .. n : ix[i] \in Nat
  BY <1>1, ElementOfSeq
<1>6. t \in T
  BY <1>2, <1>4
<1>7. r = [i \in 1 .. n |-> Shown(entries[ix[i]])]
  BY <1>1 DEF Rows
<1>8. \A i \in 1 .. n : Shown(entries[ix[i]]) \in T
  BY <1>5
<1> HIDE DEF T
<1>9. r \in Seq(T) /\ Len(r) = n
  BY <1>2, <1>7, <1>8
<1>10. PICK v, w : v = Rows(x) /\ w = Append(r, t)
  OBVIOUS
<1>11. w \in Seq(T) /\ Len(w) = n + 1 /\ (\A i \in 1 .. n : w[i] = r[i]) /\ w[n + 1] = t
  BY <1>6, <1>9, <1>10, AppendProperties
<1>12. v = [i \in 1 .. n + 1 |-> Shown(entries[x[i]])]
  BY <1>3, <1>10 DEF Rows
<1>13. \A i \in 1 .. n + 1 : v[i] = w[i]
  <2>1. ASSUME NEW i \in 1 .. n + 1 PROVE v[i] = w[i]
    <3>1. v[i] = Shown(entries[x[i]])
      BY <1>12, <2>1
    <3>2. CASE i \in 1 .. n
      BY <1>3, <1>7, <1>11, <3>1, <3>2
    <3>3. CASE i = n + 1
      BY <1>3, <1>4, <1>11, <3>1, <3>3
    <3>4. QED
      BY <1>2, <3>2, <3>3
  <2>2. QED
    BY <2>1
<1>14. v \in Seq(T) /\ Len(v) = n + 1
  <2>1. n + 1 \in Nat /\ \A i \in 1 .. n + 1 : w[i] \in T
    BY <1>2, <1>11, ElementOfSeq
  <2>2. \A i \in 1 .. n + 1 : Shown(entries[x[i]]) \in T
    BY <1>12, <1>13, <2>1
  <2>3. QED
    BY <1>12, <2>1, <2>2
<1>15. v = w
  BY <1>11, <1>13, <1>14, SeqEqual
<1>16. QED
  BY <1>1, <1>4, <1>10, <1>15

LEMMA SeesLine ==
  ASSUME NEW st, NEW p, p = Strtok(st.rest, {"NL"})
  PROVE  /\ p.token = <<>> => See(st, FALSE) = [st EXCEPT !.rest = <<>>]
         /\ p.token # <<>> => See(st, FALSE) = [seen |-> Append(st.seen, p.token), rest |-> p.rest]
<1>1. See(st, FALSE) = IF p.token = <<>> THEN [st EXCEPT !.rest = <<>>]
                       ELSE [seen |-> Append(st.seen, p.token), rest |-> IF FALSE THEN <<>> ELSE p.rest]
  BY Zenon DEF See
<1>2. QED
  BY <1>1

LEMMA ReadOn ==
  ASSUME SInv, NEW dir, Spelled(dir), NEW k \in Nat, k + 1 <= Len(entries), NEW ix, Read(dir, k, ix)
  PROVE  \E jx : Read(dir, k + 1, jx)
<1>1. PICK N \in Nat : N = Len(entries)
  BY EntryFields DEF SInv
<1>2. k \in 0 .. N /\ k + 1 \in 1 .. N /\ k + 1 \in 0 .. N /\ N \in 0 .. N /\ (k + 1) - 1 = k
  BY <1>1
<1>3. PICK W, B, F : W = Written(dir) /\ B = ListingBuffer(dir) /\ F = Loop(B, FALSE)
  OBVIOUS
<1>4. /\ Rising(ix) /\ Positions(ix) = { j \in 1 .. k : Lists(dir, j) }
      /\ 2 * Len(ix) <= Len(W[k])
      /\ F[Len(ix)] = [seen |-> Rows(ix), rest |-> SubSeq(B, Len(W[k]) + 1, Len(B))]
  BY <1>3 DEF Read
<1>5. W[k] \in Seq(Letter) /\ W[k + 1] = W[k] \o (IF Lists(dir, k + 1) THEN LineOf(entries[k + 1]) ELSE <<>>)
  BY <1>1, <1>2, <1>3, WrittenDef
<1>6. CASE ~Lists(dir, k + 1)
  <2>1. W[k + 1] = W[k]
    BY <1>5, <1>6, ConcatEmptySeq
  <2>2. { j \in 1 .. k + 1 : Lists(dir, j) } = { j \in 1 .. k : Lists(dir, j) }
    <3>1. ASSUME NEW j \in 1 .. k + 1, Lists(dir, j) PROVE j \in 1 .. k
      <4>1. j # k + 1
        BY <1>6, <3>1
      <4>2. QED
        BY <4>1
    <3>2. 1 .. k \subseteq 1 .. k + 1
      OBVIOUS
    <3>3. QED
      BY <3>1, <3>2
  <2>3. Read(dir, k + 1, ix)
    BY <1>3, <1>4, <2>1, <2>2 DEF Read
  <2>4. QED
    BY <2>3
<1>7. CASE Lists(dir, k + 1)
  <2>1. PICK n, a, b, t : n = Len(ix) /\ a = Len(W[k]) /\ b = Len(W[k + 1]) /\ t = Shown(entries[k + 1])
    OBVIOUS
  <2>2. /\ Strtok(SubSeq(B, a + 1, Len(B)), {"NL"}) = [token |-> t, rest |-> SubSeq(B, b + 1, Len(B))]
        /\ t # <<>> /\ a \in Nat /\ b \in Nat /\ a + 2 <= b
    <3>1. PICK m \in 1 .. Len(entries) : m = k + 1 /\ m - 1 = k
      BY <1>1, <1>2
    <3>2. Lists(dir, m)
      BY <1>7, <3>1
    <3>3. /\ Strtok(SubSeq(B, Len(W[m - 1]) + 1, Len(B)), {"NL"})
               = [token |-> Shown(entries[m]), rest |-> SubSeq(B, Len(W[m]) + 1, Len(B))]
          /\ Shown(entries[m]) # <<>>
          /\ Len(W[m - 1]) \in Nat /\ Len(W[m]) \in Nat
          /\ Len(W[m - 1]) + 2 <= Len(W[m])
      BY <1>3, <3>2, TakesLine
    <3>4. QED
      BY <2>1, <3>1, <3>3
  <2>3. PICK jx : jx = Append(ix, k + 1)
    OBVIOUS
  <2>4. /\ Rising(jx) /\ Positions(jx) = Positions(ix) \cup {k + 1}
        /\ n \in Nat /\ Len(jx) = n + 1
    <3>1. \A x \in Positions(ix) : x <= k
      BY <1>4
    <3>2. QED
      BY <1>4, <2>1, <2>3, <3>1, RisingMore
  <2>5. Positions(jx) = { j \in 1 .. k + 1 : Lists(dir, j) }
    <3>1. k + 1 \in 1 .. k + 1 /\ 1 .. k + 1 = (1 .. k) \cup {k + 1}
      OBVIOUS
    <3>2. QED
      BY <1>4, <1>7, <2>4, <3>1
  <2>6. 2 * (n + 1) <= b
    BY <1>4, <2>1, <2>2, <2>4
  <2>7. Rows(jx) = Append(Rows(ix), t)
    BY <1>4, <2>1, <2>3, RowsMore DEF Rising
  <2>8. n + 1 \in 1 .. Len(B)
    <3>1. PICK all : all = W[N]
      OBVIOUS
    <3>2. /\ Len(all) \in Nat /\ b <= Len(all)
      <4>1. k + 1 \in Nat /\ N \in Nat /\ k + 1 <= N /\ N <= Len(entries)
        BY <1>1, <1>2
      <4>2. QED
        BY <1>3, <2>1, <3>1, <4>1, WrittenGrows
    <3>3. Len(B) \in Nat /\ Len(B) = IF Len(all) = 0 THEN 0 ELSE Len(all) - 1
      <4>1. all = Written(dir)[Len(entries)]
        BY <1>1, <1>3, <3>1
      <4>2. QED
        BY <1>3, <4>1, BufferIs
    <3>4. QED
      BY <2>2, <2>4, <2>6, <3>2, <3>3
  <2>9. F[n + 1] = See(F[n], FALSE)
    <3>1. B \in Seq(Letter)
      BY <1>3, BufferIs
    <3>2. \A i \in 1 .. Len(B) : F[i] = See(F[i - 1], FALSE)
      BY <1>3, <3>1, LoopDef
    <3>3. (n + 1) - 1 = n
      BY <2>4
    <3>4. F[n + 1] = See(F[(n + 1) - 1], FALSE)
      BY <2>8, <3>2
    <3>5. QED
      BY <3>3, <3>4
  <2>10. F[n + 1] = [seen |-> Rows(jx), rest |-> SubSeq(B, b + 1, Len(B))]
    <3>1. PICK r, s, u : r = Rows(ix) /\ s = SubSeq(B, a + 1, Len(B)) /\ u = SubSeq(B, b + 1, Len(B))
      OBVIOUS
    <3>2. F[n] = [seen |-> r, rest |-> s]
      BY <1>4, <2>1, <3>1
    <3>3. Strtok(s, {"NL"}) = [token |-> t, rest |-> u]
      BY <2>2, <3>1
    <3>4. See([seen |-> r, rest |-> s], FALSE) = [seen |-> Append(r, t), rest |-> u]
      <4>1. PICK st, p : st = [seen |-> r, rest |-> s] /\ p = Strtok(s, {"NL"})
        OBVIOUS
      <4>2. st.seen = r /\ st.rest = s /\ p.token = t /\ p.rest = u
        BY <3>3, <4>1
      <4>3. p = Strtok(st.rest, {"NL"})
        BY <4>1, <4>2
      <4>4. See(st, FALSE) = [seen |-> Append(st.seen, p.token), rest |-> p.rest]
        BY <2>2, <4>2, <4>3, SeesLine
      <4>5. QED
        BY <4>1, <4>2, <4>4
    <3>5. QED
      BY <2>7, <2>9, <3>1, <3>2, <3>4
  <2>11. Read(dir, k + 1, jx)
    BY <1>3, <2>1, <2>4, <2>5, <2>6, <2>10 DEF Read
  <2>12. QED
    BY <2>11
<1>8. QED
  BY <1>6, <1>7

(* What ls shows: a line for each entry that is listed, in their order.    *)
LEMMA NothingRead ==
  ASSUME SInv, NEW dir, Spelled(dir)
  PROVE  Read(dir, 0, <<>>)
<1>1. PICK W, B, F : W = Written(dir) /\ B = ListingBuffer(dir) /\ F = Loop(B, FALSE)
  OBVIOUS
<1>2. Rising(<<>>) /\ Positions(<<>>) = {} /\ Len(<<>>) = 0
  BY DEF Rising, Positions
<1>3. { j \in 1 .. 0 : Lists(dir, j) } = {}
  OBVIOUS
<1>4. Len(W[0]) = 0
  <2>1. W[0] = <<>>
    BY <1>1, WrittenDef
  <2>2. QED
    BY <2>1
<1>5. B \in Seq(Letter)
  BY <1>1, BufferIs
<1>6. F[0] = [seen |-> <<>>, rest |-> B]
  BY <1>1, <1>5, LoopDef
<1>7. Rows(<<>>) = <<>>
  BY <1>2 DEF Rows
<1>8. SubSeq(B, 0 + 1, Len(B)) = B
  BY <1>5, SubSeqFull
<1>9. /\ Rising(<<>>) /\ Positions(<<>>) = { j \in 1 .. 0 : Lists(dir, j) }
      /\ 2 * Len(<<>>) <= Len(W[0])
      /\ F[Len(<<>>)] = [seen |-> Rows(<<>>), rest |-> SubSeq(B, Len(W[0]) + 1, Len(B))]
  BY <1>2, <1>3, <1>4, <1>6, <1>7, <1>8
<1>10. QED
  BY <1>1, <1>9 DEF Read

LEMMA AllRead ==
  ASSUME SInv, NEW dir, Spelled(dir)
  PROVE  \E ix : Read(dir, Len(entries), ix)
<1>1. PICK N \in Nat : N = Len(entries)
  BY EntryFields DEF SInv
<1> DEFINE P == { k \in Nat : k <= N => \E ix : Read(dir, k, ix) }
<1>2. 0 \in P
  BY NothingRead
<1>3. ASSUME NEW k \in P PROVE k + 1 \in P
  <2>1. SUFFICES ASSUME k + 1 <= N PROVE \E ix : Read(dir, k + 1, ix)
    OBVIOUS
  <2>2. k \in Nat /\ k <= N /\ k + 1 <= Len(entries)
    BY <1>1, <2>1
  <2>3. PICK ix : Read(dir, k, ix)
    BY <2>2
  <2>4. QED
    BY <2>2, <2>3, ReadOn
<1>4. P \in SUBSET Nat
  OBVIOUS
<1> HIDE DEF P
<1>5. N \in P
  BY <1>1, <1>2, <1>3, <1>4, NatInd
<1>6. QED
  BY <1>1, <1>5 DEF P

LEMMA PlainLinesAre ==
  ASSUME SInv, NEW dir, Spelled(dir)
  PROVE  \E ix : /\ Rising(ix) /\ Positions(ix) = { j \in 1 .. Len(entries) : Lists(dir, j) }
                 /\ PlainLines(dir) = Rows(ix)
<1>1. PICK N \in Nat : N = Len(entries)
  BY EntryFields DEF SInv
<1>2. PICK ix : Read(dir, N, ix)
  BY <1>1, AllRead
<1>3. PICK all, B, F, n : /\ all = Written(dir)[Len(entries)] /\ B = ListingBuffer(dir)
                          /\ F = Loop(B, FALSE) /\ n = Len(ix)
  OBVIOUS
<1>4. /\ Rising(ix) /\ Positions(ix) = { j \in 1 .. N : Lists(dir, j) }
      /\ 2 * n <= Len(all)
      /\ F[n] = [seen |-> Rows(ix), rest |-> SubSeq(B, Len(all) + 1, Len(B))]
  BY <1>1, <1>2, <1>3 DEF Read
<1>5. n \in Nat
  BY <1>3, <1>4, LenProperties DEF Rising
<1>6. /\ B \in Seq(Letter) /\ Len(B) \in Nat /\ Len(all) \in Nat
      /\ Len(B) = IF Len(all) = 0 THEN 0 ELSE Len(all) - 1
  BY <1>3, BufferIs
<1>7. n <= Len(B)
  BY <1>4, <1>5, <1>6
<1>8. F[n] = [seen |-> Rows(ix), rest |-> <<>>]
  <2>1. PICK a \in Int : a = Len(all) + 1
    BY <1>6
  <2>2. Len(B) \in Int /\ Len(B) < a
    BY <1>6, <2>1
  <2>3. SubSeq(B, a, Len(B)) = <<>>
    BY <2>1, <2>2, SubSeqEmpty
  <2>4. QED
    BY <1>4, <2>1, <2>3
<1>9. See(F[n], FALSE) = F[n]
  <2>1. <<>> \in Seq(Letter) /\ Len(<<>>) = 0
    OBVIOUS
  <2>2. Strtok(<<>>, {"NL"}) = [token |-> <<>>, rest |-> <<>>]
    <3>1. PICK s : s = <<>>
      OBVIOUS
    <3>2. s \in Seq(Letter) /\ Len(s) = 0
      BY <2>1, <3>1
    <3>3. NoToken(s, {"NL"})
      <4>1. NoToken(s, {"NL"}) \/ \E b, e \in 1 .. Len(s) : OneToken(s, {"NL"}, b, e)
        BY <3>2, StrtokFacts
      <4>2. 1 .. Len(s) = {}
        BY <3>2
      <4>3. QED
        BY <4>1, <4>2
    <3>4. QED
      BY <3>1, <3>3 DEF NoToken
  <2>3. PICK st, r : st = F[n] /\ r = Rows(ix)
    OBVIOUS
  <2>4. st = [seen |-> r, rest |-> <<>>]
    BY <1>8, <2>3
  <2>5. See(st, FALSE) = [st EXCEPT !.rest = <<>>]
    <3>1. PICK p : p = Strtok(<<>>, {"NL"})
      OBVIOUS
    <3>2. st.rest = <<>> /\ p.token = <<>>
      BY <2>2, <2>4, <3>1
    <3>3. p = Strtok(st.rest, {"NL"})
      BY <3>1, <3>2
    <3>4. QED
      BY <3>2, <3>3, SeesLine
  <2>6. [st EXCEPT !.rest = <<>>] = st
    BY <2>4
  <2>7. QED
    BY <2>3, <2>5, <2>6
<1>10. \A i \in 1 .. Len(B) : F[i] = See(F[i - 1], FALSE)
  BY <1>3, <1>6, LoopDef
<1> DEFINE P == { d \in Nat : n + d <= Len(B) => F[n + d] = F[n] }
<1>11. 0 \in P
  BY <1>5
<1>12. ASSUME NEW d \in P PROVE d + 1 \in P
  <2>1. SUFFICES ASSUME n + (d + 1) <= Len(B) PROVE F[n + (d + 1)] = F[n]
    OBVIOUS
  <2>2. PICK m \in Nat : m = n + d
    BY <1>5
  <2>3. F[m] = F[n] /\ m + 1 \in 1 .. Len(B) /\ (m + 1) - 1 = m /\ n + (d + 1) = m + 1
    BY <1>5, <1>6, <2>1, <2>2
  <2>4. F[m + 1] = See(F[(m + 1) - 1], FALSE)
    BY <1>10, <2>3
  <2>5. QED
    BY <1>9, <2>3, <2>4
<1>13. P \in SUBSET Nat
  OBVIOUS
<1> HIDE DEF P
<1>14. P = Nat
  BY <1>11, <1>12, <1>13, NatInd
<1>15. Len(B) - n \in P /\ n + (Len(B) - n) = Len(B)
  BY <1>5, <1>6, <1>7, <1>14
<1>16. F[Len(B)] = F[n]
  BY <1>6, <1>15 DEF P
<1>17. PlainLines(dir) = F[Len(B)].seen
  BY <1>3 DEF PlainLines, LinesSeen
<1>18. PlainLines(dir) = Rows(ix)
  BY <1>8, <1>16, <1>17
<1>19. QED
  BY <1>1, <1>4, <1>18

LEMMA FindsIt ==
  ASSUME SInv, UniqueNames, NEW i \in 1 .. Len(entries)
  PROVE  Find(entries[i].name) = i
<1>1. PICK n : n = entries[i].name
  OBVIOUS
<1>2. DOMAIN entries = 1 .. Len(entries) /\ Len(entries) \in Nat
  BY EntryFields DEF SInv
<1>3. \A j \in 1 .. Len(entries) : entries[j].name = n => j = i
  BY <1>1, <1>2 DEF UniqueNames
<1> DEFINE First(j) == entries[j].name = n /\ \A m \in 1 .. j - 1 : entries[m].name # n
<1>4. First(i)
  <2>1. ASSUME NEW m \in 1 .. i - 1 PROVE entries[m].name # n
    <3>1. m \in 1 .. Len(entries) /\ m # i
      BY <1>2
    <3>2. QED
      BY <1>3, <3>1
  <2>2. QED
    BY <1>1, <2>1
<1>5. \A j \in 1 .. Len(entries) : First(j) => j = i
  BY <1>3
<1> HIDE DEF First
<1>6. Find(n) = CHOOSE j \in 1 .. Len(entries) : First(j)
  BY <1>2 DEF Find, First
<1>7. QED
  BY <1>1, <1>4, <1>5, <1>6

LEMMA LinesAre ==
  ASSUME SInv, UniqueNames, NEW dir, Spelled(dir), NEW lines, lines = PlainLines(dir)
  PROVE  /\ { [name |-> RowPath(dir, lines[k]), dir |-> Len(lines[k]) = 2] : k \in DOMAIN lines }
              = { [name |-> e.name, dir |-> e.dir] : e \in ListedEntries(dir) }
         /\ \A j, k \in DOMAIN lines :
              j < k => Find(RowPath(dir, lines[j])) < Find(RowPath(dir, lines[k]))
<1>1. PICK N \in Nat : N = Len(entries) /\ DOMAIN entries = 1 .. N
  BY EntryFields DEF SInv
<1>2. PICK ix : /\ Rising(ix) /\ Positions(ix) = { j \in 1 .. N : Lists(dir, j) }
                /\ lines = Rows(ix)
  BY <1>1, PlainLinesAre
<1>3. PICK n \in Nat : n = Len(ix)
  BY <1>2, LenProperties DEF Rising
<1>4. DOMAIN lines = 1 .. n /\ \A k \in 1 .. n : lines[k] = Shown(entries[ix[k]])
  BY <1>2, <1>3 DEF Rows
<1>5. \A k \in 1 .. n : ix[k] \in 1 .. N /\ Lists(dir, ix[k])
  BY <1>2, <1>3 DEF Positions
<1>6. \A i \in 1 .. N : Lists(dir, i) => \E k \in 1 .. n : ix[k] = i
  BY <1>2, <1>3 DEF Positions
<1>7. ASSUME NEW k \in 1 .. n
      PROVE  /\ RowPath(dir, lines[k]) = entries[ix[k]].name
             /\ (Len(lines[k]) = 2) = entries[ix[k]].dir
  <2>1. PICK i \in 1 .. N : i = ix[k] /\ Lists(dir, i) /\ lines[k] = Shown(entries[i])
    BY <1>4, <1>5
  <2>2. /\ entries[i].dir \in BOOLEAN
        /\ RowPath(dir, Shown(entries[i])) = entries[i].name
        /\ Len(Shown(entries[i])) = 2 <=> entries[i].dir
    BY <1>1, <2>1, EntryListed
  <2>3. (Len(Shown(entries[i])) = 2) = entries[i].dir
    BY <2>2
  <2>4. QED
    BY <2>1, <2>2, <2>3
<1> DEFINE row(k) == [name |-> RowPath(dir, lines[k]), dir |-> Len(lines[k]) = 2]
<1> DEFINE mark(e) == [name |-> e.name, dir |-> e.dir]
<1>8. \A k \in 1 .. n : row(k) = mark(entries[ix[k]])
  BY <1>7
<1>9. ListedEntries(dir) = { entries[i] : i \in { j \in 1 .. N : Lists(dir, j) } }
  BY <1>1, Zenon DEF ListedEntries, Lists
<1> HIDE DEF row, mark
<1>10. { row(k) : k \in 1 .. n } = { mark(e) : e \in ListedEntries(dir) }
  <2>1. ASSUME NEW k \in 1 .. n PROVE row(k) \in { mark(e) : e \in ListedEntries(dir) }
    <3>1. entries[ix[k]] \in ListedEntries(dir)
      BY <1>5, <1>9
    <3>2. QED
      BY <1>8, <3>1
  <2>2. ASSUME NEW e \in ListedEntries(dir) PROVE mark(e) \in { row(k) : k \in 1 .. n }
    <3>1. PICK i \in 1 .. N : e = entries[i] /\ Lists(dir, i)
      BY <1>9, <2>2
    <3>2. PICK k \in 1 .. n : ix[k] = i
      BY <1>6, <3>1
    <3>3. row(k) = mark(e)
      BY <1>8, <3>1, <3>2
    <3>4. QED
      BY <3>3
  <2>3. QED
    BY <2>1, <2>2
<1>11. ASSUME NEW j \in 1 .. n, NEW k \in 1 .. n, j < k
       PROVE  Find(RowPath(dir, lines[j])) < Find(RowPath(dir, lines[k]))
  <2>1. ix[j] < ix[k]
    BY <1>2, <1>3, <1>11 DEF Rising
  <2>2. \A i \in 1 .. n : Find(RowPath(dir, lines[i])) = ix[i]
    BY <1>1, <1>5, <1>7, FindsIt
  <2>3. QED
    BY <2>1, <2>2
<1>12. QED
  BY <1>4, <1>10, <1>11 DEF row, mark

(* What ls shows of a directory is what is directly in it: a line for each *)
(* entry, in the order of the table, from which ls -l can look it up.      *)
THEOREM LinesNamed == SSpec => []LinesNameEntries
<1> DEFINE Inv == SInv /\ UniqueNames
<1>1. SInit => Inv
  <2>1. SInit => UniqueNames
    BY DEF SInit, Init, UniqueNames
  <2>2. QED
    BY <2>1, SInvInit
<1>2. Inv /\ [SNext]_svars => Inv'
  <2> SUFFICES ASSUME SInv, UniqueNames, [SNext]_svars PROVE SInv' /\ UniqueNames'
    OBVIOUS
  <2>1. SInv'
    BY SInvNext
  <2>2. UniqueNames'
    <3>1. CASE [Next]_vars
      BY <2>1, <3>1, UniqueNext DEF SInv
    <3>2. CASE UNCHANGED <<entries, data, dataUsed, boot>>
      BY <3>2 DEF UniqueNames
    <3>3. [Next]_vars \/ UNCHANGED <<entries, data, dataUsed, boot>>
      BY TableSteps, Zenon
    <3>4. QED
      BY <3>1, <3>2, <3>3, Zenon
  <2>3. QED
    BY <2>1, <2>2
<1>3. Inv => LinesNameEntries
  <2> SUFFICES ASSUME SInv, UniqueNames,
                      NEW dir \in {cwd, RootDir} \cup { Directory(n) : n \in TheNames }
               PROVE  LET lines == PlainLines(dir)
                      IN  /\ { [name |-> RowPath(dir, lines[k]), dir |-> Len(lines[k]) = 2] : k \in DOMAIN lines }
                               = { [name |-> e.name, dir |-> e.dir] : e \in ListedEntries(dir) }
                          /\ \A j, k \in DOMAIN lines :
                               j < k => Find(RowPath(dir, lines[j])) < Find(RowPath(dir, lines[k]))
    BY DEF LinesNameEntries
  <2>1. Spelled(dir)
    <3>1. DOMAIN entries = 1 .. Len(entries)
      BY EntryFields DEF SInv
    <3>2. \A n \in TheNames : Spelled(n)
      BY <3>1 DEF SInv, Places, TheNames
    <3>3. Spelled(RootDir)
      BY RootPlain DEF Spelled
    <3>4. QED
      BY <3>2, <3>3, DirectoryPlain DEF SInv, Places, Spelled
  <2>2. QED
    BY <2>1, LinesAre
<1> HIDE DEF Inv
<1>4. QED
  BY <1>1, <1>2, <1>3, PTL DEF SSpec
=============================================================================
