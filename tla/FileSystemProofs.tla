-------------------------- MODULE FileSystemProofs --------------------------
(***************************************************************************)
(* Theorems about FileSystem, for every table size, data size, set of      *)
(* names and list of boot calls.                                           *)
(***************************************************************************)
EXTENDS FileSystem, NatInduction, SequenceTheorems, TLAPS

-----------------------------------------------------------------------------
(* The lookup loop finds an entry of the name, when there is one.          *)
LEMMA FindFinds ==
  ASSUME entries \in Seq(Entry), NEW n, Exists(n)
  PROVE  /\ Find(n) \in 1 .. Len(entries)
         /\ entries[Find(n)].name = n
<1> DEFINE S == { i \in 1 .. Len(entries) : entries[i].name = n }
<1>1. DOMAIN entries = 1 .. Len(entries) /\ Len(entries) \in Nat
  BY LenProperties
<1>2. S \in SUBSET Nat /\ S # {}
  BY <1>1 DEF Exists
<1>3. PICK i \in S : \A j \in S : i <= j
  BY <1>2, NatMin
<1>4. \A j \in 1 .. i - 1 : entries[j].name # n
  BY <1>1, <1>3
<1>5. QED
  BY <1>1, <1>3, <1>4 DEF Find

(* A call of the file system either refuses and changes nothing, or is one *)
(* of four updates.                                                        *)
LEMMA CallCases ==
  ASSUME NEW c \in Calls, Call(c)
  PROVE  \/ \E code \in -4 .. -1 : Refuse(code)
         \/ \E n \in Names, dir \in BOOLEAN : CreateNew(n, dir)
         \/ \E n \in Names, d \in Contents : WriteOver(n, d)
         \/ \E n \in Names, d \in Contents : WriteNew(n, d)
         \/ \E n \in Names : Remove(n)
<1>1. CASE c.op = "create" /\ CreateFile(c.name, c.dir)
  <2>1. c.name \in Names /\ c.dir \in BOOLEAN
    BY <1>1 DEF Calls
  <2>2. QED
    BY <1>1, <2>1 DEF CreateFile
<1>2. CASE c.op = "write" /\ WriteFile(c.name, c.data)
  <2>1. c.name \in Names /\ c.data \in Contents
    BY <1>2 DEF Calls
  <2>2. QED
    BY <1>2, <2>1 DEF WriteFile
<1>3. CASE c.op = "delete" /\ DeleteFile(c.name)
  <2>1. c.name \in Names
    BY <1>3 DEF Calls
  <2>2. QED
    BY <1>3, <2>1 DEF DeleteFile
<1>4. QED
  BY <1>1, <1>2, <1>3 DEF Call

(* What a deletion leaves: every entry but the deleted one, each where it  *)
(* was or, for the last, in the deleted one's place.                       *)
LEMMA RemovedEntries ==
  ASSUME NEW S, NEW s \in Seq(S), NEW i \in 1 .. Len(s)
  PROVE  /\ Removed(s, i) \in Seq(S)
         /\ Len(Removed(s, i)) = Len(s) - 1
         /\ \A j \in 1 .. Len(s) - 1 :
              Removed(s, i)[j] = IF j = i THEN s[Len(s)] ELSE s[j]
<1> DEFINE t == [s EXCEPT ![i] = s[Len(s)]]
<1>1. Len(s) \in Nat /\ Len(s) \in 1 .. Len(s)
  BY LenProperties
<1>2. s[Len(s)] \in S
  BY <1>1, ElementOfSeq
<1>3. /\ t \in Seq(S) /\ Len(t) = Len(s)
      /\ \A j \in 1 .. Len(s) : t[j] = IF j = i THEN s[Len(s)] ELSE s[j]
  BY <1>2, ExceptSeq
<1>4. \A j \in 1 .. Len(s) - 1 : t[j] \in S
  BY <1>1, <1>3, ElementOfSeq
<1> HIDE DEF t
<1>5. /\ SubSeq(t, 1, Len(s) - 1) \in Seq(S)
      /\ Len(SubSeq(t, 1, Len(s) - 1)) =
           IF 1 <= Len(s) - 1 THEN Len(s) - 1 - 1 + 1 ELSE 0
      /\ \A j \in 1 .. Len(s) - 1 - 1 + 1 :
           SubSeq(t, 1, Len(s) - 1)[j] = t[1 + j - 1]
  BY <1>1, <1>4, SubSeqProperties
<1>6. Removed(s, i) = SubSeq(t, 1, Len(s) - 1)
  BY DEF Removed, t
<1>7. QED
  BY <1>1, <1>3, <1>5, <1>6

(* A step of the file system is one of these, and what is left of fs_init  *)
(* only shrinks.                                                           *)
LEMMA StepCases ==
  ASSUME TypeOK, Next
  PROVE  /\ \/ \E code \in -4 .. -1 : Refuse(code)
            \/ \E n \in Names, dir \in BOOLEAN : CreateNew(n, dir)
            \/ \E n \in Names, d \in Contents : WriteOver(n, d)
            \/ \E n \in Names, d \in Contents : WriteNew(n, d)
            \/ \E n \in Names : Remove(n)
         /\ \/ boot # <<>> /\ boot' = Tail(boot) /\ Call(Head(boot))
            \/ boot = <<>> /\ boot' = boot
<1>1. CASE Boot
  <2>1. Head(boot) \in Calls
    BY <1>1, HeadTailProperties DEF Boot, TypeOK
  <2>2. QED
    BY <1>1, <2>1, CallCases DEF Boot
<1>2. CASE \E c \in Calls : Serve(c)
  <2>1. PICK c \in Calls : Serve(c)
    BY <1>2
  <2>2. Call(c)
    BY <2>1 DEF Serve
  <2>3. boot = <<>> /\ boot' = boot
    BY <2>1 DEF Serve
  <2>4. QED
    BY <2>2, <2>3, CallCases
<1>3. QED
  BY <1>1, <1>2 DEF Next

(* An entry that is given another size.                                    *)
LEMMA ResizedEntry ==
  ASSUME NEW e \in Entry, NEW size \in Nat
  PROVE  /\ [e EXCEPT !.size = size] \in Entry
         /\ [e EXCEPT !.size = size].size = size
         /\ [e EXCEPT !.size = size].name = e.name
         /\ [e EXCEPT !.size = size].offset = e.offset
         /\ [e EXCEPT !.size = size].dir = e.dir
  BY DEF Entry

LEMMA NewEntryType ==
  ASSUME dataUsed \in Nat, NEW n \in Names, NEW size \in Nat, NEW dir \in BOOLEAN
  PROVE  /\ NewEntry(n, size, dir) \in Entry
         /\ NewEntry(n, size, dir).name = n
         /\ NewEntry(n, size, dir).size = size
         /\ NewEntry(n, size, dir).offset = dataUsed
         /\ NewEntry(n, size, dir).dir = dir
  BY DEF NewEntry, Entry

LEMMA SizesNat ==
  MaxFiles \in Nat \ {0} /\ MaxFileSize \in Nat /\ TotalData \in Nat
  BY FileSystemAssumption

LEMMA ContentsLen ==
  ASSUME NEW d \in Contents
  PROVE  Len(d) \in Nat
<1>1. d \in Seq(Bytes)
  BY FileSystemAssumption
<1>2. QED
  BY <1>1, LenProperties

(* A table that is given one more entry.                                   *)
LEMMA Grown ==
  ASSUME entries \in Seq(Entry), NEW e \in Entry
  PROVE  /\ Append(entries, e) \in Seq(Entry)
         /\ Len(Append(entries, e)) = Len(entries) + 1
         /\ Len(entries) \in Nat
         /\ \A m \in Nat : Len(entries) < m => Len(Append(entries, e)) <= m
         /\ \A i \in 1 .. Len(entries) : Append(entries, e)[i] = entries[i]
         /\ Append(entries, e)[Len(entries) + 1] = e
<1>1. Len(entries) \in Nat
  BY LenProperties
<1>2. QED
  BY <1>1, AppendProperties

LEMMA NewFileType ==
  ASSUME dataUsed \in Nat, NEW n \in Names, NEW size \in Nat
  PROVE  /\ NewEntry(n, size, FALSE) \in Entry
         /\ NewEntry(n, size, FALSE).name = n
         /\ NewEntry(n, size, FALSE).size = size
         /\ NewEntry(n, size, FALSE).offset = dataUsed
  BY DEF NewEntry, Entry

(* Copying d into data[] leaves bytes in data[].                           *)
LEMMA StoreType ==
  ASSUME data \in [0 .. TotalData - 1 -> Bytes], NEW o \in Nat, NEW d \in Contents
  PROVE  Store(o, d) \in [0 .. TotalData - 1 -> Bytes]
<1>1. d \in Seq(Bytes)
  BY FileSystemAssumption
<1>2. Len(d) \in Nat /\ \A k \in 1 .. Len(d) : d[k] \in Bytes
  BY <1>1, LenProperties, ElementOfSeq
<1>3. ASSUME NEW a \in 0 .. TotalData - 1
      PROVE  (IF a \in o .. o + Len(d) - 1 THEN d[a - o + 1] ELSE data[a]) \in Bytes
  <2>1. CASE a \in o .. o + Len(d) - 1
    <3>1. a - o + 1 \in 1 .. Len(d)
      BY <1>2, <2>1, FileSystemAssumption
    <3>2. QED
      BY <1>2, <2>1, <3>1
  <2>2. CASE a \notin o .. o + Len(d) - 1
    BY <2>2
  <2>3. QED
    BY <2>1, <2>2
<1>4. DOMAIN data = 0 .. TotalData - 1
  OBVIOUS
<1>5. QED
  BY <1>3, <1>4 DEF Store

-----------------------------------------------------------------------------
(* The types hold in every state of every file system.                     *)
LEMMA TypeInit == Init => TypeOK
<1> SUFFICES ASSUME Init PROVE TypeOK
  OBVIOUS
<1>1. entries \in Seq(Entry) /\ Len(entries) <= MaxFiles
  BY EmptySeq, FileSystemAssumption DEF Init
<1>2. data \in [0 .. TotalData - 1 -> Bytes]
  BY FileSystemAssumption DEF Init
<1>3. QED
  BY <1>1, <1>2, FileSystemAssumption DEF Init, TypeOK

LEMMA TypeNext == TypeOK /\ [Next]_vars => TypeOK'
<1> SUFFICES ASSUME TypeOK, [Next]_vars PROVE TypeOK'
  OBVIOUS
<1>1. CASE UNCHANGED vars
  BY <1>1 DEF vars, TypeOK
<1>2. CASE Next
  <2>1. boot' \in Seq(Calls)
    BY <1>2, StepCases, HeadTailProperties DEF TypeOK
  <2>2. ASSUME NEW code \in -4 .. -1, Refuse(code) PROVE TypeOK'
    BY <2>1, <2>2 DEF Refuse, TypeOK
  <2>3. ASSUME NEW n \in Names, NEW dir \in BOOLEAN, CreateNew(n, dir)
        PROVE  TypeOK'
    <3>1. entries' = Append(entries, NewEntry(n, 0, dir)) /\ Len(entries) < MaxFiles
      BY <2>3 DEF CreateNew
    <3>2. NewEntry(n, 0, dir) \in Entry
      BY NewEntryType DEF TypeOK
    <3>3. entries' \in Seq(Entry) /\ Len(entries') <= MaxFiles
      BY <3>1, <3>2, Grown, SizesNat DEF TypeOK
    <3>4. QED
      BY <2>1, <2>3, <3>3 DEF CreateNew, TypeOK
  <2>4. ASSUME NEW n \in Names, NEW d \in Contents, WriteOver(n, d)
        PROVE  TypeOK'
    <3>1. Find(n) \in 1 .. Len(entries)
      BY <2>4, FindFinds DEF WriteOver, TypeOK
    <3>2. entries[Find(n)] \in Entry
      BY <3>1, ElementOfSeq DEF TypeOK
    <3>3. Len(d) \in Nat
      BY ContentsLen
    <3>4. [entries[Find(n)] EXCEPT !.size = Len(d)] \in Entry
      BY <3>2, <3>3, ResizedEntry
    <3>5. entries' \in Seq(Entry) /\ Len(entries') = Len(entries)
      BY <2>4, <3>1, <3>4, ExceptSeq DEF WriteOver, TypeOK
    <3>6. data' \in [0 .. TotalData - 1 -> Bytes]
      BY <2>4, <3>2, StoreType DEF WriteOver, TypeOK, Entry
    <3>7. QED
      BY <2>1, <2>4, <3>5, <3>6 DEF WriteOver, TypeOK
  <2>5. ASSUME NEW n \in Names, NEW d \in Contents, WriteNew(n, d)
        PROVE  TypeOK'
    <3>1. /\ entries' = Append(entries, NewEntry(n, Len(d), FALSE))
          /\ Len(entries) < MaxFiles
          /\ data' = Store(dataUsed, d)
          /\ dataUsed' = dataUsed + Len(d) /\ dataUsed + Len(d) <= TotalData
      BY <2>5 DEF WriteNew, Admits
    <3>2. Len(d) \in Nat
      BY ContentsLen
    <3>3. NewEntry(n, Len(d), FALSE) \in Entry
      <4>1. dataUsed \in Nat
        BY SizesNat DEF TypeOK
      <4>2. QED
        BY ONLY n \in Names, <3>2, <4>1, NewFileType
    <3>4. entries' \in Seq(Entry) /\ Len(entries') <= MaxFiles
      BY <3>1, <3>3, Grown, SizesNat DEF TypeOK
    <3>5. data' \in [0 .. TotalData - 1 -> Bytes]
      BY <3>1, StoreType DEF TypeOK
    <3>6. dataUsed' \in 0 .. TotalData
      BY <3>1, <3>2, SizesNat DEF TypeOK
    <3>7. ret' = 0
      BY <2>5 DEF WriteNew
    <3>8. QED
      BY <2>1, <3>4, <3>5, <3>6, <3>7 DEF TypeOK
  <2>6. ASSUME NEW n \in Names, Remove(n) PROVE TypeOK'
    <3>1. Find(n) \in 1 .. Len(entries)
      BY <2>6, FindFinds DEF Remove, TypeOK
    <3>2. entries' \in Seq(Entry) /\ Len(entries') = Len(entries) - 1
      BY <2>6, <3>1, RemovedEntries DEF Remove, TypeOK
    <3>3. Len(entries) \in Nat
      BY LenProperties DEF TypeOK
    <3>4. Len(entries') <= MaxFiles
      BY <3>2, <3>3, SizesNat DEF TypeOK
    <3>5. QED
      BY <2>1, <2>6, <3>2, <3>4 DEF Remove, TypeOK
  <2>7. QED
    BY <1>2, <2>2, <2>3, <2>4, <2>5, <2>6, StepCases
<1>3. QED
  BY <1>1, <1>2

THEOREM TypeCorrect == Spec => []TypeOK
<1>1. QED
  BY TypeInit, TypeNext, PTL DEF Spec

-----------------------------------------------------------------------------
(* The four ways in which a step changes the table, entry by entry.        *)
Kept == entries' = entries /\ dataUsed' = dataUsed

Added ==
  \E e \in Entry :
    /\ \A i \in 1 .. Len(entries) : entries[i].name # e.name
    /\ Len(entries') = Len(entries) + 1
    /\ \A i \in 1 .. Len(entries) : entries'[i] = entries[i]
    /\ entries'[Len(entries) + 1] = e
    /\ e.offset = dataUsed
    /\ e.size <= MaxFileSize
    /\ dataUsed + e.size <= TotalData
    /\ dataUsed' = dataUsed + e.size

Rewritten ==
  /\ Len(entries') = Len(entries)
  /\ \A i \in 1 .. Len(entries) :
       /\ entries'[i].name = entries[i].name
       /\ entries'[i].offset = entries[i].offset
       /\ entries'[i].dir = entries[i].dir
       /\ \/ entries'[i].size = entries[i].size
          \/ /\ entries'[i].size <= MaxFileSize
             /\ dataUsed + entries'[i].size <= TotalData
  /\ \E f \in 1 .. Len(entries) :
       \A i \in 1 .. Len(entries) : i # f => entries'[i] = entries[i]
  /\ dataUsed' = dataUsed

Dropped ==
  \E i \in 1 .. Len(entries) :
    /\ entries[i].name # Root
    /\ Len(entries') = Len(entries) - 1
    /\ \A j \in 1 .. Len(entries) - 1 :
         entries'[j] = IF j = i THEN entries[Len(entries)] ELSE entries[j]
    /\ dataUsed' = dataUsed

LEMMA Effects ==
  ASSUME TypeOK, [Next]_vars
  PROVE  Kept \/ Added \/ Rewritten \/ Dropped
<1>1. CASE UNCHANGED vars
  BY <1>1 DEF vars, Kept
<1>2. CASE Next
  <2>0. /\ entries \in Seq(Entry) /\ dataUsed \in Nat /\ dataUsed <= TotalData
        /\ Len(entries) \in Nat /\ DOMAIN entries = 1 .. Len(entries)
    BY SizesNat, LenProperties DEF TypeOK
  <2>1. ASSUME NEW code \in -4 .. -1, Refuse(code) PROVE Kept
    BY <2>1 DEF Refuse, Kept
  <2>2. ASSUME NEW n \in Names, NEW dir \in BOOLEAN, CreateNew(n, dir)
        PROVE  Added
    <3>1. /\ entries' = Append(entries, NewEntry(n, 0, dir))
          /\ dataUsed' = dataUsed /\ ~Exists(n)
      BY <2>2 DEF CreateNew
    <3>2. PICK e \in Entry : /\ e = NewEntry(n, 0, dir)
                             /\ e.name = n /\ e.offset = dataUsed /\ e.size = 0
      BY <2>0, NewEntryType
    <3>3. \A i \in 1 .. Len(entries) : entries[i].name # e.name
      BY <2>0, <3>1, <3>2 DEF Exists
    <3>4. entries' = Append(entries, e)
      BY <3>1, <3>2
    <3>5. /\ Len(entries') = Len(entries) + 1
          /\ \A i \in 1 .. Len(entries) : entries'[i] = entries[i]
          /\ entries'[Len(entries) + 1] = e
      BY <2>0, <3>4, Grown
    <3>6. /\ e.size <= MaxFileSize /\ dataUsed + e.size <= TotalData
          /\ dataUsed' = dataUsed + e.size
      BY <2>0, <3>1, <3>2, SizesNat
    <3>7. QED
      BY <3>2, <3>3, <3>5, <3>6 DEF Added
  <2>3. ASSUME NEW n \in Names, NEW d \in Contents, WriteOver(n, d)
        PROVE  Rewritten
    <3>1. /\ entries' = [entries EXCEPT ![Find(n)].size = Len(d)]
          /\ dataUsed' = dataUsed /\ Exists(n)
          /\ Len(d) <= MaxFileSize /\ dataUsed + Len(d) <= TotalData
      BY <2>3 DEF WriteOver, Admits
    <3>2. Find(n) \in 1 .. Len(entries)
      BY <2>0, <3>1, FindFinds
    <3>3. PICK f \in 1 .. Len(entries) : f = Find(n)
      BY <3>2
    <3>4. entries[f] \in Entry
      BY <2>0, ElementOfSeq
    <3>5. PICK e \in Entry :
            /\ e = [entries[f] EXCEPT !.size = Len(d)]
            /\ e.size = Len(d) /\ e.name = entries[f].name
            /\ e.offset = entries[f].offset /\ e.dir = entries[f].dir
      BY <3>4, ContentsLen, ResizedEntry
    <3>6. entries' = [entries EXCEPT ![f] = e]
      BY <3>1, <3>3, <3>5
    <3>7. /\ Len(entries') = Len(entries)
          /\ \A i \in 1 .. Len(entries) :
               entries'[i] = IF i = f THEN e ELSE entries[i]
      BY <2>0, <3>6, ExceptSeq
    <3>8. QED
      BY <3>1, <3>5, <3>7 DEF Rewritten
  <2>4. ASSUME NEW n \in Names, NEW d \in Contents, WriteNew(n, d)
        PROVE  Added
    <3>1. /\ entries' = Append(entries, NewEntry(n, Len(d), FALSE))
          /\ dataUsed' = dataUsed + Len(d) /\ ~Exists(n)
          /\ Len(d) <= MaxFileSize /\ dataUsed + Len(d) <= TotalData
      BY <2>4 DEF WriteNew, Admits
    <3>2. PICK e \in Entry : /\ e = NewEntry(n, Len(d), FALSE)
                             /\ e.name = n /\ e.offset = dataUsed /\ e.size = Len(d)
      BY <2>0, ContentsLen, NewFileType
    <3>3. \A i \in 1 .. Len(entries) : entries[i].name # e.name
      BY <2>0, <3>1, <3>2 DEF Exists
    <3>4. entries' = Append(entries, e)
      BY <3>1, <3>2
    <3>5. /\ Len(entries') = Len(entries) + 1
          /\ \A i \in 1 .. Len(entries) : entries'[i] = entries[i]
          /\ entries'[Len(entries) + 1] = e
      BY <2>0, <3>4, Grown
    <3>6. QED
      BY <3>1, <3>2, <3>3, <3>5 DEF Added
  <2>5. ASSUME NEW n \in Names, Remove(n) PROVE Dropped
    <3>1. /\ entries' = Removed(entries, Find(n)) /\ dataUsed' = dataUsed
          /\ Exists(n) /\ n # Root
      BY <2>5 DEF Remove
    <3>2. Find(n) \in 1 .. Len(entries) /\ entries[Find(n)].name = n
      BY <2>0, <3>1, FindFinds
    <3>3. PICK i \in 1 .. Len(entries) : i = Find(n)
      BY <3>2
    <3>4. /\ Len(entries') = Len(entries) - 1
          /\ \A j \in 1 .. Len(entries) - 1 :
               entries'[j] = IF j = i THEN entries[Len(entries)] ELSE entries[j]
      BY <2>0, <3>1, <3>3, RemovedEntries
    <3>5. QED
      BY <3>1, <3>2, <3>3, <3>4 DEF Dropped
  <2>6. QED
    BY <1>2, <2>1, <2>2, <2>3, <2>4, <2>5, StepCases
<1>3. QED
  BY <1>1, <1>2

(* Space in data[] is spent only on a new file, which gets all of it,      *)
(* whatever the calls and their results (fs.c:158-259).                    *)
THEOREM SpaceIsSpent == Spec => SpaceSpent
<1> DEFINE A == dataUsed' # dataUsed =>
                  /\ Len(entries') > Len(entries)
                  /\ entries'[Len(entries')].offset = dataUsed
                  /\ entries'[Len(entries')].offset + entries'[Len(entries')].size = dataUsed'
<1>1. ASSUME TypeOK, [Next]_vars PROVE A
  <2>1. CASE Added
    <3>1. PICK e \in Entry : /\ Len(entries') = Len(entries) + 1
                             /\ entries'[Len(entries) + 1] = e
                             /\ e.offset = dataUsed /\ dataUsed' = dataUsed + e.size
      BY <2>1 DEF Added
    <3>2. Len(entries) \in Nat
      BY <1>1, LenProperties DEF TypeOK
    <3>3. entries'[Len(entries')] = e /\ Len(entries') > Len(entries)
      BY <3>1, <3>2
    <3>4. QED
      BY <3>1, <3>3
  <2>2. CASE Kept \/ Rewritten \/ Dropped
    BY <2>2 DEF Kept, Rewritten, Dropped
  <2>3. QED
    BY <1>1, <2>1, <2>2, Effects
<1>2. TypeOK /\ [Next]_vars => [A]_vars
  BY <1>1
<1>3. QED
  BY <1>2, TypeCorrect, PTL DEF Spec, SpaceSpent

(* The entries and their fields, in the terms of arithmetic.               *)
LEMMA EntryFields ==
  ASSUME TypeOK
  PROVE  /\ Len(entries) \in Nat /\ DOMAIN entries = 1 .. Len(entries)
         /\ dataUsed \in Nat /\ dataUsed <= TotalData
         /\ \A i \in 1 .. Len(entries) :
              entries[i].size \in Nat /\ entries[i].offset \in Nat
<1>1. /\ Len(entries) \in Nat /\ DOMAIN entries = 1 .. Len(entries)
      /\ dataUsed \in Nat /\ dataUsed <= TotalData
  BY LenProperties, SizesNat DEF TypeOK
<1>2. \A i \in 1 .. Len(entries) : entries[i] \in Entry
  BY ElementOfSeq DEF TypeOK
<1>3. QED
  BY <1>1, <1>2 DEF Entry

-----------------------------------------------------------------------------
(* Every entry's bytes lie inside data[]: the update branch of             *)
(* fs_write_file never copies past the array, although its space test is   *)
(* not about the offset it copies to.                                      *)
LEMMA BoundsNext ==
  ASSUME TypeOK, TypeOK', ExtentsInBounds, [Next]_vars
  PROVE  ExtentsInBounds'
<1>0. /\ Len(entries) \in Nat /\ DOMAIN entries = 1 .. Len(entries)
      /\ dataUsed \in Nat /\ dataUsed <= TotalData
      /\ \A i \in 1 .. Len(entries) :
           entries[i].size \in Nat /\ entries[i].offset \in Nat
  BY EntryFields
<1>1. \A i \in 1 .. Len(entries) :
        /\ entries[i].offset <= dataUsed
        /\ entries[i].size <= MaxFileSize
        /\ entries[i].offset + entries[i].size <= TotalData
  BY <1>0 DEF ExtentsInBounds
<1>2. Len(entries') \in Nat /\ DOMAIN entries' = 1 .. Len(entries')
  BY LenProperties DEF TypeOK
<1>3. CASE Kept
  BY <1>3 DEF Kept, ExtentsInBounds
<1>4. CASE Added
  <2>1. PICK e \in Entry :
          /\ Len(entries') = Len(entries) + 1
          /\ \A i \in 1 .. Len(entries) : entries'[i] = entries[i]
          /\ entries'[Len(entries) + 1] = e
          /\ e.offset = dataUsed /\ e.size <= MaxFileSize
          /\ dataUsed + e.size <= TotalData
          /\ dataUsed' = dataUsed + e.size
    BY <1>4 DEF Added
  <2>2. e.size \in Nat
    BY DEF Entry
  <2>3. ASSUME NEW i \in 1 .. Len(entries')
        PROVE  /\ entries'[i].offset <= dataUsed'
               /\ entries'[i].size <= MaxFileSize
               /\ entries'[i].offset + entries'[i].size <= TotalData
    <3>1. CASE i \in 1 .. Len(entries)
      BY <1>0, <1>1, <2>1, <2>2, <3>1
    <3>2. CASE i = Len(entries) + 1
      BY <1>0, <2>1, <2>2, <3>2
    <3>3. QED
      BY <1>0, <2>1, <3>1, <3>2
  <2>4. QED
    BY <1>2, <2>3 DEF ExtentsInBounds
<1>5. CASE Rewritten
  <2>1. ASSUME NEW i \in 1 .. Len(entries')
        PROVE  /\ entries'[i].offset <= dataUsed'
               /\ entries'[i].size <= MaxFileSize
               /\ entries'[i].offset + entries'[i].size <= TotalData
    <3>1. entries'[i].size \in Nat
      <4>1. entries'[i] \in Entry
        BY ElementOfSeq DEF TypeOK
      <4>2. QED
        BY <4>1 DEF Entry
    <3>2. i \in 1 .. Len(entries)
      BY <1>5 DEF Rewritten
    <3>3. /\ dataUsed' = dataUsed /\ entries'[i].offset = entries[i].offset
          /\ \/ entries'[i].size = entries[i].size
             \/ /\ entries'[i].size <= MaxFileSize
                /\ dataUsed + entries'[i].size <= TotalData
      BY <1>5, <3>2 DEF Rewritten
    <3>4. PICK o \in Nat, m \in Nat, n \in Nat :
            o = entries[i].offset /\ m = entries[i].size /\ n = entries'[i].size
      BY <1>0, <3>1, <3>2
    <3>5. o <= dataUsed /\ m <= MaxFileSize /\ o + m <= TotalData
      BY <1>1, <3>2, <3>4
    <3>6. n = m \/ (n <= MaxFileSize /\ dataUsed + n <= TotalData)
      <4>1. CASE entries'[i].size = entries[i].size
        BY ONLY <3>4, <4>1
      <4>2. CASE entries'[i].size <= MaxFileSize /\ dataUsed + entries'[i].size <= TotalData
        BY ONLY <3>4, <4>2
      <4>3. QED
        BY ONLY <3>3, <4>1, <4>2
    <3>7. n <= MaxFileSize /\ o + n <= TotalData
      <4>1. PICK u \in Nat, t \in Nat, z \in Nat :
              u = dataUsed /\ t = TotalData /\ z = MaxFileSize
        BY <1>0, SizesNat
      <4>2. o <= u /\ m <= z /\ o + m <= t /\ (n = m \/ (n <= z /\ u + n <= t))
        BY ONLY <3>5, <3>6, <4>1
      <4>3. n <= z /\ o + n <= t
        BY ONLY <4>2
      <4>4. QED
        BY ONLY <4>1, <4>3
    <3>8. QED
      BY ONLY <3>3, <3>4, <3>5, <3>7
  <2>2. QED
    BY <1>2, <2>1 DEF ExtentsInBounds
<1>6. CASE Dropped
  <2>1. PICK k \in 1 .. Len(entries) :
          /\ Len(entries') = Len(entries) - 1
          /\ \A j \in 1 .. Len(entries) - 1 :
               entries'[j] = IF j = k THEN entries[Len(entries)] ELSE entries[j]
          /\ dataUsed' = dataUsed
    BY <1>6 DEF Dropped
  <2>2. ASSUME NEW i \in 1 .. Len(entries')
        PROVE  \E j \in 1 .. Len(entries) : entries'[i] = entries[j]
    BY <1>0, <2>1
  <2>3. QED
    BY <1>1, <1>2, <2>1, <2>2 DEF ExtentsInBounds
<1>7. QED
  BY <1>3, <1>4, <1>5, <1>6, Effects

THEOREM Bounds == Spec => []ExtentsInBounds
<1>1. Init => ExtentsInBounds
  BY DEF Init, ExtentsInBounds
<1>2. TypeOK /\ TypeOK' /\ ExtentsInBounds /\ [Next]_vars => ExtentsInBounds'
  BY BoundsNext
<1>3. QED
  BY <1>1, <1>2, TypeCorrect, PTL DEF Spec

-----------------------------------------------------------------------------
(* No two entries ever have the same name.                                 *)
LEMMA UniqueNext ==
  ASSUME TypeOK, TypeOK', UniqueNames, [Next]_vars
  PROVE  UniqueNames'
<1>0. Len(entries) \in Nat /\ DOMAIN entries = 1 .. Len(entries)
  BY EntryFields
<1>1. \A i, j \in 1 .. Len(entries) : entries[i].name = entries[j].name => i = j
  BY <1>0 DEF UniqueNames
<1>2. Len(entries') \in Nat /\ DOMAIN entries' = 1 .. Len(entries')
  BY LenProperties DEF TypeOK
<1>3. CASE Kept
  BY <1>3 DEF Kept, UniqueNames
<1>4. CASE Added
  <2>1. PICK e \in Entry :
          /\ \A i \in 1 .. Len(entries) : entries[i].name # e.name
          /\ Len(entries') = Len(entries) + 1
          /\ \A i \in 1 .. Len(entries) : entries'[i] = entries[i]
          /\ entries'[Len(entries) + 1] = e
    BY <1>4 DEF Added
  <2>2. \A i \in 1 .. Len(entries') : i \in 1 .. Len(entries) \/ i = Len(entries) + 1
    BY <1>0, <2>1
  <2>3. \A i, j \in 1 .. Len(entries') :
          entries'[i].name = entries'[j].name => i = j
    BY <1>1, <2>1, <2>2
  <2>4. QED
    BY <1>2, <2>3 DEF UniqueNames
<1>5. CASE Rewritten
  BY <1>0, <1>1, <1>2, <1>5 DEF Rewritten, UniqueNames
<1>6. CASE Dropped
  <2>1. PICK k \in 1 .. Len(entries) :
          /\ Len(entries') = Len(entries) - 1
          /\ \A j \in 1 .. Len(entries) - 1 :
               entries'[j] = IF j = k THEN entries[Len(entries)] ELSE entries[j]
    BY <1>6 DEF Dropped
  <2>2. \A i, j \in 1 .. Len(entries') :
          entries'[i].name = entries'[j].name => i = j
    BY <1>0, <1>1, <2>1
  <2>3. QED
    BY <1>2, <2>2 DEF UniqueNames
<1>7. QED
  BY <1>3, <1>4, <1>5, <1>6, Effects

THEOREM Unique == Spec => []UniqueNames
<1>1. Init => UniqueNames
  BY DEF Init, UniqueNames
<1>2. TypeOK /\ TypeOK' /\ UniqueNames /\ [Next]_vars => UniqueNames'
  BY UniqueNext
<1>3. QED
  BY <1>1, <1>2, TypeCorrect, PTL DEF Spec

-----------------------------------------------------------------------------
(* "/" is the first entry from the first call of fs_init on.  The          *)
(* strengthening says where fs_init is before and after that call.         *)
RootInv ==
  /\ boot = BootCalls => entries = <<>>
  /\ boot # BootCalls =>
       /\ Len(boot) < Len(BootCalls)
       /\ 1 <= Len(entries)
       /\ entries[1].name = Root /\ entries[1].dir

LEMMA FirstCall ==
  ASSUME TypeOK, boot = BootCalls, entries = <<>>, Call(Head(boot))
  PROVE  1 <= Len(entries') /\ entries'[1].name = Root /\ entries'[1].dir
<1>1. /\ BootCalls # <<>> /\ BootCalls \in Seq(Calls)
      /\ BootCalls[1] = [op |-> "create", name |-> Root, dir |-> TRUE]
  BY FileSystemAssumption
<1>2. Head(boot) = [op |-> "create", name |-> Root, dir |-> TRUE]
  BY <1>1
<1>3. CreateFile(Root, TRUE)
  <2>1. Head(boot).op = "create" /\ Head(boot).name = Root /\ Head(boot).dir = TRUE
    BY <1>2
  <2>2. CreateFile(Head(boot).name, Head(boot).dir)
    BY <2>1 DEF Call
  <2>3. QED
    BY <2>1, <2>2, Zenon
<1>4. Len(entries) = 0 /\ ~Exists(Root)
  BY DEF Exists
<1>5. Len(entries) < MaxFiles /\ ~(Len(entries) >= MaxFiles)
  BY <1>4, SizesNat
<1>6. CreateNew(Root, TRUE)
  BY <1>3, <1>4, <1>5, Zenon DEF CreateFile
<1>7. Root \in Names /\ dataUsed \in Nat
  BY FileSystemAssumption, EntryFields
<1>8. DEFINE e == [name |-> Root, size |-> 0, offset |-> dataUsed, dir |-> TRUE]
<1>9. e \in Entry /\ e.name = Root /\ e.dir
  BY <1>7 DEF Entry
<1>10. entries' = Append(entries, e) /\ entries \in Seq(Entry)
  BY <1>6, Zenon DEF CreateNew, NewEntry, TypeOK
<1>11. HIDE DEF e
<1>12. Len(entries') = Len(entries) + 1 /\ entries'[Len(entries) + 1] = e
  BY <1>9, <1>10, Grown
<1>13. QED
  BY <1>4, <1>9, <1>12

LEMMA RootNext ==
  ASSUME TypeOK, TypeOK', RootInv, [Next]_vars
  PROVE  RootInv'
<1>0. /\ Len(entries) \in Nat
      /\ boot \in Seq(Calls) /\ BootCalls \in Seq(Calls) /\ BootCalls # <<>>
  BY EntryFields, FileSystemAssumption DEF TypeOK
<1>1. CASE UNCHANGED vars
  BY <1>1 DEF vars, RootInv
<1>2. CASE Next
  <2>1. CASE boot = BootCalls
    <3>1. boot' = Tail(boot) /\ Call(Head(boot))
      BY <1>0, <1>2, <2>1, StepCases
    <3>2. Len(boot') < Len(BootCalls)
      BY <1>0, <2>1, <3>1, HeadTailProperties, LenProperties
    <3>3. 1 <= Len(entries') /\ entries'[1].name = Root /\ entries'[1].dir
      BY <2>1, <3>1, FirstCall DEF RootInv
    <3>4. boot' # BootCalls
      BY <1>0, <3>2, LenProperties
    <3>5. QED
      BY <3>2, <3>3, <3>4 DEF RootInv
  <2>2. CASE boot # BootCalls
    <3>1. /\ Len(boot) < Len(BootCalls) /\ 1 <= Len(entries)
          /\ entries[1].name = Root /\ entries[1].dir
      BY <2>2 DEF RootInv
    <3>2. Len(boot') < Len(BootCalls)
      <4>1. CASE boot # <<>> /\ boot' = Tail(boot)
        <5>1. Len(Tail(boot)) = Len(boot) - 1 /\ Len(boot) \in Nat
          BY <1>0, <4>1, HeadTailProperties, LenProperties
        <5>2. QED
          BY <1>0, <3>1, <4>1, <5>1, LenProperties
      <4>2. CASE boot' = boot
        BY <3>1, <4>2
      <4>3. QED
        BY <1>2, <4>1, <4>2, StepCases
    <3>3. 1 <= Len(entries') /\ entries'[1].name = Root /\ entries'[1].dir
      <4>1. CASE Kept
        BY <3>1, <4>1 DEF Kept
      <4>2. CASE Added
        BY <1>0, <3>1, <4>2 DEF Added
      <4>3. CASE Rewritten
        BY <1>0, <3>1, <4>3 DEF Rewritten
      <4>4. CASE Dropped
        BY <1>0, <3>1, <4>4 DEF Dropped
      <4>5. QED
        BY <1>2, <4>1, <4>2, <4>3, <4>4, Effects
    <3>4. boot' # BootCalls
      BY <1>0, <3>2, LenProperties
    <3>5. QED
      BY <3>2, <3>3, <3>4 DEF RootInv
  <2>3. QED
    BY <2>1, <2>2
<1>3. QED
  BY <1>1, <1>2

THEOREM RootKept == Spec => []RootStays
<1>1. Init => RootInv
  BY DEF Init, RootInv
<1>2. TypeOK /\ TypeOK' /\ RootInv /\ [Next]_vars => RootInv'
  BY RootNext
<1>3. RootInv /\ TypeOK => RootStays
  BY EmptySeq DEF RootInv, RootStays, TypeOK
<1>4. QED
  BY <1>1, <1>2, <1>3, TypeCorrect, PTL DEF Spec
-----------------------------------------------------------------------------
(* What is found under a name, without the lookup loop.                    *)
Named(n) == { entries[i] : i \in { j \in DOMAIN entries : entries[j].name = n } }
LookupsExact == \A n \in Names : EntryOf(n) = Named(n)

LEMMA LookupExact == TypeOK /\ UniqueNames => LookupsExact
<1> SUFFICES ASSUME TypeOK, UniqueNames, NEW n \in Names PROVE EntryOf(n) = Named(n)
  BY DEF LookupsExact
<1>1. DOMAIN entries = 1 .. Len(entries)
  BY EntryFields
<1>2. CASE Exists(n)
  <2>1. Find(n) \in DOMAIN entries /\ entries[Find(n)].name = n
    BY <1>1, <1>2, FindFinds DEF TypeOK
  <2>2. \A i \in DOMAIN entries : entries[i].name = n => i = Find(n)
    BY <2>1 DEF UniqueNames
  <2>3. Named(n) = {entries[Find(n)]}
    BY <2>1, <2>2 DEF Named
  <2>4. QED
    BY <1>2, <2>3 DEF EntryOf
<1>3. CASE ~Exists(n)
  BY <1>3 DEF EntryOf, Named, Exists
<1>4. QED
  BY <1>2, <1>3

LEMMA NotTheLast ==
  ASSUME NEW n \in Nat, NEW i \in 1 .. n, i # n
  PROVE  i \in 1 .. n - 1
  OBVIOUS

(* The entries under every name but one are the same after a step.         *)
LEMMA OneNameNext ==
  ASSUME TypeOK, TypeOK', UniqueNames, [Next]_vars
  PROVE  \E n \in Names : \A m \in Names \ {n} : Named(m)' = Named(m)
<1>0. /\ Len(entries) \in Nat /\ DOMAIN entries = 1 .. Len(entries)
      /\ \A i \in 1 .. Len(entries) : entries[i].name \in Names
  <2>1. \A i \in 1 .. Len(entries) : entries[i] \in Entry
    BY ElementOfSeq DEF TypeOK
  <2>2. QED
    BY <2>1, EntryFields DEF Entry
<1>1. DOMAIN entries' = 1 .. Len(entries')
  BY LenProperties DEF TypeOK
<1>2. CASE Kept
  BY <1>2, FileSystemAssumption DEF Kept, Named
<1>3. CASE Added
  <2>1. PICK e \in Entry :
          /\ Len(entries') = Len(entries) + 1
          /\ \A i \in 1 .. Len(entries) : entries'[i] = entries[i]
          /\ entries'[Len(entries) + 1] = e
    BY <1>3 DEF Added
  <2>2. e.name \in Names
    BY DEF Entry
  <2>3. \A i \in 1 .. Len(entries') : i \in 1 .. Len(entries) \/ i = Len(entries) + 1
    BY <1>0, <2>1
  <2>4. \A i \in 1 .. Len(entries) : i \in 1 .. Len(entries')
    BY <1>0, <2>1
  <2>5. ASSUME NEW m \in Names \ {e.name} PROVE Named(m)' = Named(m)
    BY <1>0, <1>1, <2>1, <2>3, <2>4 DEF Named
  <2>6. QED
    BY <2>2, <2>5
<1>4. CASE Rewritten
  <2>1. PICK f \in 1 .. Len(entries) :
          \A i \in 1 .. Len(entries) : i # f => entries'[i] = entries[i]
    BY <1>4 DEF Rewritten
  <2>2. Len(entries') = Len(entries) /\ entries'[f].name = entries[f].name
    BY <1>4 DEF Rewritten
  <2>3. ASSUME NEW m \in Names \ {entries[f].name} PROVE Named(m)' = Named(m)
    BY <1>0, <1>1, <2>1, <2>2, <2>3 DEF Named
  <2>4. QED
    BY <1>0, <2>3
<1>5. CASE Dropped
  <2>1. PICK k \in 1 .. Len(entries) :
          /\ Len(entries') = Len(entries) - 1
          /\ \A j \in 1 .. Len(entries) - 1 :
               entries'[j] = IF j = k THEN entries[Len(entries)] ELSE entries[j]
    BY <1>5 DEF Dropped
  <2>2. \A i \in 1 .. Len(entries) :
          i # k => \E j \in 1 .. Len(entries') : entries'[j] = entries[i]
    <3>1. ASSUME NEW i \in 1 .. Len(entries), i # k
          PROVE  \E j \in 1 .. Len(entries') : entries'[j] = entries[i]
      <4>1. CASE i = Len(entries)
        <5>1. k \in 1 .. Len(entries) - 1
          BY <1>0, <3>1, <4>1, NotTheLast
        <5>2. k \in 1 .. Len(entries') /\ entries'[k] = entries[i]
          BY <2>1, <4>1, <5>1
        <5>3. QED
          BY <5>2
      <4>2. CASE i # Len(entries)
        <5>1. i \in 1 .. Len(entries) - 1
          BY <1>0, <4>2, NotTheLast
        <5>2. i \in 1 .. Len(entries') /\ entries'[i] = entries[i]
          BY <2>1, <3>1, <5>1
        <5>3. QED
          BY <5>2
      <4>3. QED
        BY <4>1, <4>2
    <3>2. QED
      BY <3>1
  <2>3. \A j \in 1 .. Len(entries') :
          \E i \in 1 .. Len(entries) : entries'[j] = entries[i]
    BY <1>0, <2>1
  <2>4. ASSUME NEW m \in Names \ {entries[k].name} PROVE Named(m)' = Named(m)
    <3>1. \A x : x \in Named(m) <=> \E i \in 1 .. Len(entries) : x = entries[i] /\ x.name = m
      BY <1>0 DEF Named
    <3>2. \A x : x \in Named(m)' <=> \E i \in 1 .. Len(entries') : x = entries'[i] /\ x.name = m
      BY <1>1 DEF Named
    <3>3. ASSUME NEW x \in Named(m)' PROVE x \in Named(m)
      BY <2>3, <3>1, <3>2, <3>3
    <3>4. ASSUME NEW x \in Named(m) PROVE x \in Named(m)'
      <4>1. PICK i \in 1 .. Len(entries) : x = entries[i] /\ x.name = m
        BY <3>1, <3>4
      <4>2. i # k
        BY <2>4, <4>1
      <4>3. QED
        BY <2>2, <3>2, <4>1, <4>2
    <3>5. QED
      BY <3>3, <3>4
  <2>5. QED
    BY <1>0, <2>4
<1>6. QED
  BY <1>2, <1>3, <1>4, <1>5, Effects

(* Whatever its callers do, a call of the file system changes the table at *)
(* one name only (158-259): no entry is lost, doubled or mixed up with     *)
(* another by a deletion that moves one.                                   *)
THEOREM OneName == Spec => OneNameAtATime
<1>1. TypeOK /\ UniqueNames => LookupsExact
  BY LookupExact
<1>2. ASSUME TypeOK, TypeOK', UniqueNames, LookupsExact, LookupsExact', [Next]_vars
      PROVE  \E n \in Names : \A m \in Names \ {n} : EntryOf(m)' = EntryOf(m)
  <2>1. PICK n \in Names : \A m \in Names \ {n} : Named(m)' = Named(m)
    BY <1>2, OneNameNext
  <2>2. \A m \in Names : EntryOf(m) = Named(m) /\ EntryOf(m)' = Named(m)'
    BY <1>2 DEF LookupsExact
  <2>3. QED
    BY <2>1, <2>2
<1>3. TypeOK /\ TypeOK' /\ UniqueNames /\ LookupsExact /\ LookupsExact' /\ [Next]_vars
        => [\E n \in Names : \A m \in Names \ {n} : EntryOf(m)' = EntryOf(m)]_vars
  BY <1>2
<1>4. QED
  BY <1>1, <1>3, TypeCorrect, Unique, PTL DEF Spec, OneNameAtATime
=============================================================================
