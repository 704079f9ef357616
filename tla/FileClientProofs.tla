-------------------------- MODULE FileClientProofs --------------------------
(***************************************************************************)
(* Theorems about FileClient, for every table size, data size, set of      *)
(* names and contents: careful callers never find the bytes of one file in *)
(* another, and read back what they wrote.                                 *)
(***************************************************************************)
EXTENDS FileClient, FileSystemProofs

(* fs_init is a careful caller: it names each file and directory once      *)
(* (fs.c:14-53).                                                           *)
BootNamesDiffer ==
  \A i, j \in 1 .. Len(BootCalls) : BootCalls[i].name = BootCalls[j].name => i = j

Promise == [data : Seq(Bytes), room : Nat]

(* That what the table says of the entry e agrees with what its callers    *)
(* are promised (is), in a file system with the bytes d of which the first *)
(* used are set aside; and that two entries have no byte in common.        *)
Honest(e, is, d, used) ==
  /\ e.name \in DOMAIN is
  /\ e.size <= is[e.name].room
  /\ e.offset + is[e.name].room <= used
  /\ ~e.dir => /\ Len(is[e.name].data) = e.size
               /\ \A k \in 1 .. e.size : d[e.offset + k - 1] = is[e.name].data[k]

Apart(e, f, is) ==
  \/ e.offset + is[e.name].room <= f.offset
  \/ f.offset + is[f.name].room <= e.offset

Honoured(es, is, d, used) ==
  /\ is \in [DOMAIN is -> Promise]
  /\ \A n \in DOMAIN is : \E i \in 1 .. Len(es) : es[i].name = n
  /\ \A i \in 1 .. Len(es) : Honest(es[i], is, d, used)
  /\ \A i, j \in 1 .. Len(es) : i # j => Apart(es[i], es[j], is)

FInv == Honoured(entries, expected, data, dataUsed)

(* What is left of fs_init names nothing that is there already.            *)
BInv ==
  /\ \A i \in 1 .. Len(boot) : boot[i].name \notin DOMAIN expected
  /\ \A i, j \in 1 .. Len(boot) : boot[i].name = boot[j].name => i = j

-----------------------------------------------------------------------------
LEMMA StoreAt ==
  ASSUME TypeOK, NEW o, NEW d, NEW a \in 0 .. TotalData - 1
  PROVE  Store(o, d)[a] = IF a \in o .. o + Len(d) - 1 THEN d[a - o + 1] ELSE data[a]
  BY DEF Store, TypeOK

LEMMA PromiseFields ==
  ASSUME NEW p \in Promise
  PROVE  /\ p.data \in Seq(Bytes) /\ Len(p.data) \in Nat /\ p.room \in Nat
         /\ \A d \in Seq(Bytes) : /\ [p EXCEPT !.data = d] \in Promise
                                  /\ [p EXCEPT !.data = d].data = d
                                  /\ [p EXCEPT !.data = d].room = p.room
<1>1. p.data \in Seq(Bytes) /\ p.room \in Nat
  BY DEF Promise
<1>2. QED
  BY <1>1, LenProperties DEF Promise

LEMMA NewPromise ==
  ASSUME NEW d \in Seq(Bytes), NEW room \in Nat
  PROVE  \E p \in Promise : p = [data |-> d, room |-> room] /\ p.data = d /\ p.room = room
<1> DEFINE p == [data |-> d, room |-> room]
<1>1. p \in Promise /\ p.data = d /\ p.room = room
  BY DEF Promise
<1>2. QED
  BY <1>1

(* Arithmetic of extents.                                                  *)
LEMMA ByteBefore ==
  ASSUME NEW o \in Nat, NEW s \in Nat, NEW r \in Nat, NEW u \in Nat, NEW t \in Nat,
         NEW k \in 1 .. s, s <= r, o + r <= u, u <= t
  PROVE  o + k - 1 \in 0 .. t - 1 /\ o + k - 1 < u
  OBVIOUS

LEMMA ByteOfFile ==
  ASSUME NEW o \in Nat, NEW n \in Nat, NEW t \in Nat, NEW k \in 1 .. n, o + n <= t
  PROVE  /\ o + k - 1 \in 0 .. t - 1 /\ o + k - 1 \in o .. o + n - 1
         /\ (o + k - 1) - o + 1 = k
  OBVIOUS

(* A byte of one extent is none of the bytes written to another.           *)
LEMMA ByteElsewhere ==
  ASSUME NEW o \in Nat, NEW s \in Nat, NEW r \in Nat, NEW k \in 1 .. s, s <= r,
         NEW p \in Nat, NEW n \in Nat, NEW q \in Nat, n <= q,
         o + r <= p \/ p + q <= o
  PROVE  o + k - 1 \notin p .. p + n - 1
  OBVIOUS

-----------------------------------------------------------------------------
(* A new entry, with its data at the end of what is set aside.             *)
Adds(n, d, dir) ==
  /\ ~Exists(n)
  /\ dataUsed + Len(d) <= TotalData
  /\ entries' = Append(entries, NewEntry(n, Len(d), dir))
  /\ data' = Store(dataUsed, d)
  /\ dataUsed' = dataUsed + Len(d)
  /\ expected' = [m \in DOMAIN expected \cup {n} |->
                    IF m = n THEN [data |-> d, room |-> Len(d)] ELSE expected[m]]

(* An entry's data overwritten within its room.                            *)
Overwrites(n, d) ==
  /\ Exists(n) /\ ~entries[Find(n)].dir
  /\ Len(d) <= expected[n].room
  /\ entries' = [entries EXCEPT ![Find(n)].size = Len(d)]
  /\ data' = Store(entries[Find(n)].offset, d)
  /\ dataUsed' = dataUsed
  /\ expected' = [expected EXCEPT ![n].data = d]

Drops(n) ==
  /\ Exists(n)
  /\ entries' = Removed(entries, Find(n))
  /\ data' = data /\ dataUsed' = dataUsed
  /\ expected' = [m \in DOMAIN expected \ {n} |-> expected[m]]

LEMMA AddsKeeps ==
  ASSUME TypeOK, FInv, NEW n \in Names, NEW d \in Seq(Bytes), NEW dir \in BOOLEAN,
         Adds(n, d, dir)
  PROVE  FInv'
<1> DEFINE L == Len(entries)
<1>0. /\ L \in Nat /\ DOMAIN entries = 1 .. L
      /\ dataUsed \in Nat /\ dataUsed <= TotalData /\ TotalData \in Nat
      /\ \A i \in 1 .. L : entries[i].size \in Nat /\ entries[i].offset \in Nat
  BY EntryFields, SizesNat
<1>1. Len(d) \in Nat
  BY LenProperties
<1>2. PICK e \in Entry :
        /\ e = NewEntry(n, Len(d), dir) /\ e.name = n /\ e.size = Len(d)
        /\ e.offset = dataUsed /\ e.dir = dir
  BY <1>0, <1>1, NewEntryType
<1>3. /\ Len(entries') = L + 1
      /\ \A i \in 1 .. L : entries'[i] = entries[i]
      /\ entries'[L + 1] = e
  BY <1>2, Grown DEF Adds, TypeOK
<1>4. /\ expected \in [DOMAIN expected -> Promise]
      /\ \A m \in DOMAIN expected : \E i \in 1 .. L : entries[i].name = m
      /\ \A i \in 1 .. L : Honest(entries[i], expected, data, dataUsed)
      /\ \A i, j \in 1 .. L : i # j => Apart(entries[i], entries[j], expected)
  BY DEF FInv, Honoured
<1>5. \A i \in 1 .. L : entries[i].name # n /\ entries[i].name \in DOMAIN expected
  BY <1>0, <1>4 DEF Adds, Exists, Honest
<1>6. PICK p \in Promise : p = [data |-> d, room |-> Len(d)] /\ p.data = d /\ p.room = Len(d)
  BY <1>1, NewPromise
<1>7. /\ expected' = [m \in DOMAIN expected \cup {n} |-> IF m = n THEN p ELSE expected[m]]
      /\ data' = Store(dataUsed, d) /\ dataUsed' = dataUsed + Len(d)
      /\ dataUsed + Len(d) <= TotalData
  BY <1>6 DEF Adds
<1>8. /\ DOMAIN expected' = DOMAIN expected \cup {n}
      /\ expected' \in [DOMAIN expected' -> Promise]
      /\ expected'[n] = p
      /\ \A i \in 1 .. L : expected'[entries[i].name] = expected[entries[i].name]
  BY <1>4, <1>5, <1>7
<1>9. ASSUME NEW i \in 1 .. L + 1 PROVE i \in 1 .. L \/ i = L + 1
  BY <1>0
<1>10. ASSUME NEW i \in 1 .. L
       PROVE  Honest(entries[i], expected', data', dataUsed')
  <2> DEFINE f == entries[i]
             r == expected[f.name].room
  <2>1. Honest(f, expected, data, dataUsed) /\ f.size \in Nat /\ f.offset \in Nat
    BY <1>0, <1>4
  <2>2. r \in Nat /\ f.size <= r /\ f.offset + r <= dataUsed
    BY <1>4, <2>1, PromiseFields DEF Honest
  <2>3. f.name \in DOMAIN expected' /\ expected'[f.name] = expected[f.name]
    BY <1>5, <1>8
  <2> HIDE DEF f, r
  <2>4. f.offset + r <= dataUsed'
    BY <1>0, <1>1, <1>7, <2>1, <2>2
  <2>5. ASSUME NEW k \in 1 .. f.size
        PROVE  data'[f.offset + k - 1] = data[f.offset + k - 1]
    <3>1. f.offset + k - 1 \in 0 .. TotalData - 1 /\ f.offset + k - 1 < dataUsed
      BY <1>0, <2>1, <2>2, ByteBefore
    <3>2. f.offset + k - 1 \notin dataUsed .. dataUsed + Len(d) - 1
      BY <1>0, <1>1, <3>1
    <3>3. QED
      BY <1>7, <3>1, <3>2, StoreAt
  <2>6. Honest(f, expected', data', dataUsed')
    BY <2>1, <2>2, <2>3, <2>4, <2>5 DEF Honest, r
  <2>7. QED
    BY <2>6 DEF f
<1>11. Honest(e, expected', data', dataUsed')
  <2>1. e.name \in DOMAIN expected' /\ expected'[e.name] = p
    BY <1>2, <1>8
  <2>2. e.size <= p.room /\ e.offset + p.room <= dataUsed'
    BY <1>0, <1>1, <1>2, <1>6, <1>7
  <2>3. ASSUME NEW k \in 1 .. e.size
        PROVE  data'[e.offset + k - 1] = d[k]
    <3>1. k \in 1 .. Len(d) /\ e.offset = dataUsed
      BY <1>2
    <3>2. /\ dataUsed + k - 1 \in 0 .. TotalData - 1
          /\ dataUsed + k - 1 \in dataUsed .. dataUsed + Len(d) - 1
          /\ (dataUsed + k - 1) - dataUsed + 1 = k
      BY <1>0, <1>1, <1>7, <3>1, ByteOfFile
    <3>3. QED
      BY <1>7, <3>1, <3>2, StoreAt
  <2>4. QED
    BY <1>2, <1>6, <2>1, <2>2, <2>3 DEF Honest
<1>12. ASSUME NEW i \in 1 .. L
       PROVE  Apart(entries[i], e, expected') /\ Apart(e, entries[i], expected')
  <2>1. entries[i].offset + expected[entries[i].name].room <= e.offset
    BY <1>2, <1>4 DEF Honest
  <2>2. QED
    BY <1>8, <2>1 DEF Apart
<1>13. ASSUME NEW i \in 1 .. L + 1, NEW j \in 1 .. L + 1, i # j
       PROVE  Apart(entries'[i], entries'[j], expected')
  <2>1. CASE i \in 1 .. L /\ j \in 1 .. L
    <3>1. Apart(entries[i], entries[j], expected)
      BY <1>4, <1>13, <2>1
    <3>2. QED
      BY <1>3, <1>8, <2>1, <3>1 DEF Apart
  <2>2. CASE i \in 1 .. L /\ j = L + 1
    BY <1>3, <1>12, <2>2
  <2>3. CASE i = L + 1 /\ j \in 1 .. L
    BY <1>3, <1>12, <2>3
  <2>4. QED
    BY <1>9, <1>13, <2>1, <2>2, <2>3
<1>14. ASSUME NEW i \in 1 .. L + 1 PROVE Honest(entries'[i], expected', data', dataUsed')
  BY <1>3, <1>9, <1>10, <1>11
<1>15. ASSUME NEW m \in DOMAIN expected' PROVE \E i \in 1 .. L + 1 : entries'[i].name = m
  <2>1. CASE m = n
    <3>1. L + 1 \in 1 .. L + 1
      BY <1>0
    <3>2. QED
      BY <1>2, <1>3, <2>1, <3>1
  <2>2. CASE m \in DOMAIN expected
    <3>1. PICK i \in 1 .. L : entries[i].name = m
      BY <1>4, <2>2
    <3>2. i \in 1 .. L + 1
      BY <1>0
    <3>3. QED
      BY <1>3, <3>1, <3>2
  <2>3. QED
    BY <1>8, <2>1, <2>2
<1> HIDE DEF L
<1>16. QED
  BY <1>3, <1>8, <1>13, <1>14, <1>15 DEF FInv, Honoured

LEMMA OverwritesKeeps ==
  ASSUME TypeOK, UniqueNames, FInv, NEW n \in Names, NEW d \in Seq(Bytes), Overwrites(n, d)
  PROVE  FInv'
<1> DEFINE L == Len(entries)
<1>0. /\ L \in Nat /\ DOMAIN entries = 1 .. L
      /\ dataUsed \in Nat /\ dataUsed <= TotalData /\ TotalData \in Nat
      /\ \A i \in 1 .. L : entries[i].size \in Nat /\ entries[i].offset \in Nat
  BY EntryFields, SizesNat
<1>1. Len(d) \in Nat
  BY LenProperties
<1>2. PICK f \in 1 .. L : f = Find(n) /\ entries[f].name = n
  BY FindFinds DEF Overwrites, TypeOK
<1>3. PICK e \in Entry :
        /\ e = [entries[f] EXCEPT !.size = Len(d)]
        /\ e.size = Len(d) /\ e.name = n
        /\ e.offset = entries[f].offset /\ e.dir = entries[f].dir
  <2>1. PICK h \in Entry : h = entries[f]
    BY ElementOfSeq DEF TypeOK
  <2>2. PICK e \in Entry : e = [h EXCEPT !.size = Len(d)]
    BY <1>1, ResizedEntry
  <2>3. e.size = Len(d) /\ e.name = h.name /\ e.offset = h.offset /\ e.dir = h.dir
    BY <1>1, <2>2, ResizedEntry
  <2>4. QED
    BY <1>2, <2>1, <2>2, <2>3
<1>4. /\ Len(entries') = L
      /\ \A i \in 1 .. L : entries'[i] = IF i = f THEN e ELSE entries[i]
  <2>1. entries' = [entries EXCEPT ![f] = e]
    BY <1>2, <1>3 DEF Overwrites
  <2>2. QED
    BY <2>1, ExceptSeq DEF TypeOK
<1>5. /\ expected \in [DOMAIN expected -> Promise]
      /\ \A m \in DOMAIN expected : \E i \in 1 .. L : entries[i].name = m
      /\ \A i \in 1 .. L : Honest(entries[i], expected, data, dataUsed)
      /\ \A i, j \in 1 .. L : i # j => Apart(entries[i], entries[j], expected)
  BY DEF FInv, Honoured
<1>6. \A i \in 1 .. L : i # f => entries[i].name # n
  BY <1>0, <1>2 DEF UniqueNames
<1>7. n \in DOMAIN expected /\ expected[n] \in Promise
  BY <1>2, <1>5 DEF Honest
<1>8. PICK p \in Promise :
        p = [expected[n] EXCEPT !.data = d] /\ p.data = d /\ p.room = expected[n].room
  BY <1>7, PromiseFields
<1>9. /\ data' = Store(e.offset, d) /\ dataUsed' = dataUsed
      /\ expected' = [expected EXCEPT ![n] = p]
      /\ Len(d) <= p.room /\ ~e.dir /\ p.room \in Nat /\ e.offset \in Nat
      /\ e.offset + p.room <= dataUsed
  <2>1. e.offset + p.room <= dataUsed
    BY <1>2, <1>3, <1>5, <1>8 DEF Honest
  <2>2. QED
    BY <1>0, <1>2, <1>3, <1>7, <1>8, <2>1, PromiseFields DEF Overwrites
<1>10. /\ DOMAIN expected' = DOMAIN expected
       /\ expected' \in [DOMAIN expected' -> Promise]
       /\ expected'[n] = p
       /\ \A m \in DOMAIN expected : m # n => expected'[m] = expected[m]
       /\ \A m \in DOMAIN expected : expected'[m].room = expected[m].room
  BY <1>5, <1>7, <1>8, <1>9
<1>11. ASSUME NEW i \in 1 .. L, i # f
       PROVE  Honest(entries[i], expected', data', dataUsed')
  <2> DEFINE g == entries[i]
             r == expected[g.name].room
  <2>1. Honest(g, expected, data, dataUsed) /\ g.size \in Nat /\ g.offset \in Nat
    BY <1>0, <1>5
  <2>2. r \in Nat /\ g.size <= r /\ g.offset + r <= dataUsed
    BY <1>5, <2>1, PromiseFields DEF Honest
  <2>3. g.name \in DOMAIN expected' /\ expected'[g.name] = expected[g.name]
    BY <1>6, <1>10, <1>11, <2>1 DEF Honest
  <2>4. g.offset + r <= e.offset \/ e.offset + p.room <= g.offset
    <3>1. Apart(entries[i], entries[f], expected)
      BY <1>5, <1>11
    <3>2. QED
      BY <1>2, <1>3, <1>8, <3>1 DEF Apart
  <2> HIDE DEF g, r
  <2>5. ASSUME NEW k \in 1 .. g.size
        PROVE  data'[g.offset + k - 1] = data[g.offset + k - 1]
    <3>1. g.offset + k - 1 \in 0 .. TotalData - 1
      BY <1>0, <2>1, <2>2, ByteBefore
    <3>2. g.offset + k - 1 \notin e.offset .. e.offset + Len(d) - 1
      BY <1>1, <1>9, <2>1, <2>2, <2>4, ByteElsewhere
    <3>3. PICK a \in 0 .. TotalData - 1 : a = g.offset + k - 1
      BY <3>1
    <3>4. Store(e.offset, d)[a] = data[a]
      BY <3>2, <3>3, StoreAt
    <3>5. QED
      BY <1>9, <3>3, <3>4
  <2>6. Honest(g, expected', data', dataUsed')
    BY <1>9, <2>1, <2>2, <2>3, <2>5 DEF Honest, r
  <2>7. QED
    BY <2>6 DEF g
<1>12. Honest(e, expected', data', dataUsed')
  <2>1. e.name \in DOMAIN expected' /\ expected'[e.name] = p
    BY <1>3, <1>7, <1>10
  <2>2. ASSUME NEW k \in 1 .. e.size
        PROVE  data'[e.offset + k - 1] = d[k]
    <3>1. k \in 1 .. Len(d)
      BY <1>3
    <3>2. e.offset + Len(d) <= TotalData
      BY <1>0, <1>1, <1>9
    <3>3. /\ e.offset + k - 1 \in 0 .. TotalData - 1
          /\ e.offset + k - 1 \in e.offset .. e.offset + Len(d) - 1
          /\ (e.offset + k - 1) - e.offset + 1 = k
      <4>1. PICK o \in Nat, m \in Nat, t \in Nat : o = e.offset /\ m = Len(d) /\ t = TotalData
        BY <1>0, <1>1, <1>9
      <4>2. k \in 1 .. m /\ o + m <= t
        BY ONLY <3>1, <3>2, <4>1
      <4>3. o + k - 1 \in 0 .. t - 1 /\ o + k - 1 \in o .. o + m - 1 /\ (o + k - 1) - o + 1 = k
        BY ONLY <4>2, ByteOfFile
      <4>4. QED
        BY ONLY <4>1, <4>3
    <3>4. QED
      BY <1>9, <3>1, <3>3, StoreAt
  <2>3. QED
    BY <1>3, <1>8, <1>9, <2>1, <2>2 DEF Honest
<1>13. ASSUME NEW i \in 1 .. L PROVE Honest(entries'[i], expected', data', dataUsed')
  BY <1>4, <1>11, <1>12
<1>14. \A i \in 1 .. L : entries'[i].name = entries[i].name /\ entries'[i].offset = entries[i].offset
  BY <1>2, <1>3, <1>4
<1>15. ASSUME NEW i \in 1 .. L, NEW j \in 1 .. L, i # j
       PROVE  Apart(entries'[i], entries'[j], expected')
  <2>1. Apart(entries[i], entries[j], expected)
    BY <1>5, <1>15
  <2>2. entries[i].name \in DOMAIN expected /\ entries[j].name \in DOMAIN expected
    BY <1>5 DEF Honest
  <2>3. QED
    BY <1>10, <1>14, <2>1, <2>2 DEF Apart
<1> HIDE DEF L
<1>16. QED
  BY <1>4, <1>5, <1>10, <1>13, <1>14, <1>15 DEF FInv, Honoured

LEMMA BeforeTheLast ==
  ASSUME NEW n \in Nat, NEW i \in 1 .. n - 1
  PROVE  i \in 1 .. n /\ i # n /\ n \in 1 .. n
  OBVIOUS

LEMMA DropsKeeps ==
  ASSUME TypeOK, UniqueNames, FInv, NEW n \in Names, Drops(n)
  PROVE  FInv'
<1> DEFINE L == Len(entries)
<1>0. L \in Nat /\ DOMAIN entries = 1 .. L
  BY EntryFields
<1>1. PICK f \in 1 .. L : f = Find(n) /\ entries[f].name = n
  BY FindFinds DEF Drops, TypeOK
<1>2. /\ Len(entries') = L - 1
      /\ \A j \in 1 .. L - 1 : entries'[j] = IF j = f THEN entries[L] ELSE entries[j]
  BY <1>1, RemovedEntries DEF Drops, TypeOK
<1>3. /\ expected \in [DOMAIN expected -> Promise]
      /\ \A m \in DOMAIN expected : \E i \in 1 .. L : entries[i].name = m
      /\ \A i \in 1 .. L : Honest(entries[i], expected, data, dataUsed)
      /\ \A i, j \in 1 .. L : i # j => Apart(entries[i], entries[j], expected)
  BY DEF FInv, Honoured
<1>4. \A i, j \in 1 .. L : entries[i].name = entries[j].name => i = j
  BY <1>0 DEF UniqueNames
<1>5. /\ DOMAIN expected' = DOMAIN expected \ {n}
      /\ \A m \in DOMAIN expected' : expected'[m] = expected[m]
      /\ expected' \in [DOMAIN expected' -> Promise]
      /\ data' = data /\ dataUsed' = dataUsed
  BY <1>3 DEF Drops
(* Where the entry at place i was before.                                  *)
<1> DEFINE was(i) == IF i = f THEN L ELSE i
<1>6. \A i \in 1 .. L - 1 : /\ was(i) \in 1 .. L /\ was(i) # f
                             /\ entries'[i] = entries[was(i)]
  <2>1. SUFFICES ASSUME NEW i \in 1 .. L - 1
                 PROVE  /\ was(i) \in 1 .. L /\ was(i) # f
                        /\ entries'[i] = entries[was(i)]
    OBVIOUS
  <2>2. i \in 1 .. L /\ i # L /\ L \in 1 .. L
    BY <1>0, BeforeTheLast
  <2>3. CASE i = f
    BY <1>2, <2>2, <2>3
  <2>4. CASE i # f
    BY <1>2, <2>2, <2>4
  <2>5. QED
    BY <2>3, <2>4
<1>7. \A i, j \in 1 .. L - 1 : i # j => was(i) # was(j)
  BY <1>0
<1>8. \A i \in 1 .. L : i # f => \E j \in 1 .. L - 1 : was(j) = i
  <2>1. SUFFICES ASSUME NEW i \in 1 .. L, i # f PROVE \E j \in 1 .. L - 1 : was(j) = i
    OBVIOUS
  <2>2. CASE i = L
    <3>1. f \in 1 .. L - 1
      BY <1>0, <2>1, <2>2, NotTheLast
    <3>2. was(f) = i
      BY <2>2
    <3>3. QED
      BY <3>1, <3>2
  <2>3. CASE i # L
    <3>1. i \in 1 .. L - 1
      BY <1>0, <2>3, NotTheLast
    <3>2. was(i) = i
      BY <2>1
    <3>3. QED
      BY <3>1, <3>2
  <2>4. QED
    BY <2>2, <2>3
<1> HIDE DEF was, L
<1>9. ASSUME NEW i \in 1 .. L - 1
      PROVE  /\ entries[was(i)].name \in DOMAIN expected'
             /\ expected'[entries[was(i)].name] = expected[entries[was(i)].name]
  <2>1. entries[was(i)].name \in DOMAIN expected /\ entries[was(i)].name # n
    BY <1>1, <1>3, <1>4, <1>6 DEF Honest
  <2>2. QED
    BY <1>5, <2>1
<1>10. ASSUME NEW i \in 1 .. L - 1 PROVE Honest(entries'[i], expected', data', dataUsed')
  <2>1. PICK g : g = entries[was(i)]
    OBVIOUS
  <2>2. Honest(g, expected, data, dataUsed) /\ entries'[i] = g
    BY <1>3, <1>6, <2>1
  <2>3. g.name \in DOMAIN expected' /\ expected'[g.name] = expected[g.name]
    BY <1>9, <2>1
  <2>4. Honest(g, expected', data', dataUsed')
    BY <1>5, <2>2, <2>3 DEF Honest
  <2>5. QED
    BY <2>2, <2>4
<1>11. ASSUME NEW i \in 1 .. L - 1, NEW j \in 1 .. L - 1, i # j
       PROVE  Apart(entries'[i], entries'[j], expected')
  <2>1. Apart(entries[was(i)], entries[was(j)], expected)
    BY <1>3, <1>6, <1>7, <1>11
  <2>2. QED
    BY <1>6, <1>9, <2>1 DEF Apart
<1>12. ASSUME NEW m \in DOMAIN expected' PROVE \E i \in 1 .. L - 1 : entries'[i].name = m
  <2>1. m \in DOMAIN expected /\ m # n
    BY <1>5
  <2>2. PICK i \in 1 .. L : entries[i].name = m
    BY <1>3, <2>1
  <2>3. PICK j \in 1 .. L - 1 : was(j) = i
    BY <1>1, <1>8, <2>1, <2>2
  <2>4. QED
    BY <1>6, <2>2, <2>3
<1>13. QED
  BY <1>2, <1>5, <1>10, <1>11, <1>12 DEF FInv, Honoured

-----------------------------------------------------------------------------
LEMMA StoreNothing ==
  ASSUME TypeOK, NEW o \in Nat
  PROVE  Store(o, <<>>) = data
<1>1. \A a : a \notin o .. o + Len(<<>>) - 1
  OBVIOUS
<1>2. data = [a \in DOMAIN data |-> data[a]]
  BY DEF TypeOK
<1>3. QED
  BY <1>1, <1>2 DEF Store

LEMMA NamedThere ==
  ASSUME TypeOK, FInv, NEW n
  PROVE  Exists(n) <=> n \in DOMAIN expected
<1>1. DOMAIN entries = 1 .. Len(entries)
  BY EntryFields
<1>2. QED
  BY <1>1 DEF Exists, FInv, Honoured, Honest

(* What a call of a careful caller does, and what is expected after it.    *)
Refused == ret' # 0 /\ UNCHANGED <<entries, data, dataUsed, expected>>

LEMMA NotedCases ==
  ASSUME TypeOK, FInv, NEW c \in Calls, InRoom(c), Call(c), Note(c)
  PROVE  /\ c.name \in Names
         /\ \/ Refused
            \/ ret' = 0 /\ \E dir \in BOOLEAN : Adds(c.name, <<>>, dir)
            \/ ret' = 0 /\ \E d \in Contents : Adds(c.name, d, FALSE) \/ Overwrites(c.name, d)
            \/ ret' = 0 /\ c.name # Root /\ Drops(c.name)
<1>0. dataUsed \in Nat /\ dataUsed <= TotalData
  BY EntryFields
<1>1. ASSUME NEW code \in -4 .. -1, Refuse(code) PROVE Refused
  <2>1. ret' # 0
    BY <1>1 DEF Refuse
  <2>2. expected' = expected
    BY <2>1 DEF Note
  <2>3. QED
    BY <1>1, <2>1, <2>2 DEF Refuse, Refused
<1>2. PICK n : n = c.name
  OBVIOUS
<1>3. CASE c.op = "create" /\ CreateFile(c.name, c.dir)
  <2>1. c.name \in Names /\ c.dir \in BOOLEAN
    BY <1>3 DEF Calls
  <2>2. CASE CreateNew(c.name, c.dir)
    <3>1. ret' = 0 /\ ~Exists(n) /\ data' = data /\ dataUsed' = dataUsed
          /\ entries' = Append(entries, NewEntry(n, 0, c.dir))
      BY <1>2, <2>2 DEF CreateNew
    <3>2. Expect(c, expected) = [data |-> <<>>, room |-> 0]
      BY <1>3 DEF Expect
    <3>3. expected' = [m \in DOMAIN expected \cup {n} |->
                         IF m = n THEN [data |-> <<>>, room |-> 0] ELSE expected[m]]
      BY <1>2, <1>3, <3>1, <3>2 DEF Note
    <3>4. Len(<<>>) = 0 /\ data' = Store(dataUsed, <<>>) /\ dataUsed' = dataUsed + 0
          /\ dataUsed + 0 <= TotalData
      BY <1>0, <3>1, StoreNothing
    <3>5. Adds(n, <<>>, c.dir)
      BY <3>1, <3>3, <3>4 DEF Adds
    <3>6. QED
      BY <1>2, <2>1, <3>1, <3>5
  <2>3. Refuse(-1) \/ Refuse(-2) \/ CreateNew(c.name, c.dir)
    BY <1>3 DEF CreateFile
  <2>4. -1 \in -4 .. -1 /\ -2 \in -4 .. -1
    OBVIOUS
  <2>5. QED
    BY <1>1, <2>1, <2>2, <2>3, <2>4
<1>4. CASE c.op = "write" /\ WriteFile(c.name, c.data)
  <2>1. c.name \in Names /\ c.data \in Contents
    BY <1>4 DEF Calls
  <2>2. PICK d \in Contents : d = c.data
    BY <2>1
  <2>3. CASE WriteOver(c.name, c.data)
    <3>1. /\ ret' = 0 /\ Exists(n) /\ ~entries[Find(n)].dir /\ dataUsed' = dataUsed
          /\ entries' = [entries EXCEPT ![Find(n)].size = Len(d)]
          /\ data' = Store(entries[Find(n)].offset, d)
      BY <1>2, <2>2, <2>3 DEF WriteOver
    <3>2. n \in DOMAIN expected
      BY <3>1, NamedThere
    <3>3. Expect(c, expected) = [expected[n] EXCEPT !.data = d]
      BY <1>2, <1>4, <2>2, <3>2 DEF Expect
    <3>4. DOMAIN expected \cup {n} = DOMAIN expected
      BY <3>2
    <3>5. expected' = [m \in DOMAIN expected |->
                         IF m = n THEN [expected[n] EXCEPT !.data = d] ELSE expected[m]]
      BY <1>2, <1>4, <3>1, <3>3, <3>4 DEF Note
    <3>6. expected \in [DOMAIN expected -> Promise]
      BY DEF FInv, Honoured
    <3>7. expected' = [expected EXCEPT ![n].data = d]
      BY <3>2, <3>5, <3>6
    <3>8. Len(d) <= expected[n].room
      BY <1>2, <1>4, <2>2, <3>2 DEF InRoom
    <3>9. Overwrites(n, d)
      BY <3>1, <3>7, <3>8 DEF Overwrites
    <3>10. QED
      BY <1>2, <2>1, <3>1, <3>9
  <2>4. CASE WriteNew(c.name, c.data)
    <3>1. /\ ret' = 0 /\ ~Exists(n) /\ dataUsed' = dataUsed + Len(d)
          /\ entries' = Append(entries, NewEntry(n, Len(d), FALSE))
          /\ data' = Store(dataUsed, d) /\ dataUsed + Len(d) <= TotalData
      BY <1>2, <2>2, <2>4 DEF WriteNew, Admits
    <3>2. n \notin DOMAIN expected
      BY <3>1, NamedThere
    <3>3. Expect(c, expected) = [data |-> d, room |-> Len(d)]
      BY <1>2, <1>4, <2>2, <3>2 DEF Expect
    <3>4. expected' = [m \in DOMAIN expected \cup {n} |->
                         IF m = n THEN [data |-> d, room |-> Len(d)] ELSE expected[m]]
      BY <1>2, <1>4, <3>1, <3>3 DEF Note
    <3>5. Adds(n, d, FALSE)
      BY <3>1, <3>4 DEF Adds
    <3>6. QED
      BY <1>2, <2>1, <3>1, <3>5
  <2>5. \/ Refuse(-1) \/ Refuse(-2) \/ Refuse(-3) \/ Refuse(-4)
        \/ WriteOver(c.name, c.data) \/ WriteNew(c.name, c.data)
    BY <1>4 DEF WriteFile
  <2>6. -1 \in -4 .. -1 /\ -2 \in -4 .. -1 /\ -3 \in -4 .. -1 /\ -4 \in -4 .. -1
    OBVIOUS
  <2>7. QED
    BY <1>1, <2>1, <2>3, <2>4, <2>5, <2>6
<1>5. CASE c.op = "delete" /\ DeleteFile(c.name)
  <2>1. c.name \in Names
    BY <1>5 DEF Calls
  <2>2. CASE Remove(c.name)
    <3>1. /\ ret' = 0 /\ Exists(n) /\ n # Root /\ entries' = Removed(entries, Find(n))
          /\ data' = data /\ dataUsed' = dataUsed
      BY <1>2, <2>2 DEF Remove
    <3>2. expected' = [m \in DOMAIN expected \ {n} |-> expected[m]]
      BY <1>2, <1>5, <3>1 DEF Note
    <3>3. Drops(n)
      BY <3>1, <3>2 DEF Drops
    <3>4. QED
      BY <1>2, <2>1, <3>1, <3>3
  <2>3. Refuse(-1) \/ Refuse(-2) \/ Remove(c.name)
    BY <1>5 DEF DeleteFile
  <2>4. -1 \in -4 .. -1 /\ -2 \in -4 .. -1
    OBVIOUS
  <2>5. QED
    BY <1>1, <2>1, <2>2, <2>3, <2>4
<1>6. QED
  BY <1>3, <1>4, <1>5 DEF Call

(* Every step is such a call; fs_init's are careful because they name      *)
(* nothing that is there.                                                  *)
LEMMA CarefulCalls ==
  ASSUME Careful, TypeOK, BInv, CNext
  PROVE  \E c \in Calls : /\ InRoom(c) /\ Call(c) /\ Note(c)
                          /\ \/ boot # <<>> /\ c = Head(boot) /\ boot' = Tail(boot)
                             \/ boot = <<>> /\ boot' = boot
<1>1. CASE Boot /\ Note(Head(boot))
  <2>1. boot # <<>> /\ boot' = Tail(boot) /\ Call(Head(boot)) /\ boot \in Seq(Calls)
    BY <1>1 DEF Boot, TypeOK
  <2>2. Head(boot) \in Calls /\ Head(boot) = boot[1] /\ 1 \in 1 .. Len(boot)
    BY <2>1, HeadTailProperties, EmptySeq
  <2>3. InRoom(Head(boot))
    BY <2>2 DEF InRoom, BInv
  <2>4. QED
    BY <1>1, <2>1, <2>2, <2>3
<1>2. CASE \E c \in Calls : (Careful => InRoom(c)) /\ Serve(c) /\ Note(c)
  BY <1>2 DEF Serve
<1>3. QED
  BY <1>1, <1>2 DEF CNext

LEMMA FInvNext ==
  ASSUME Careful, TypeOK, UniqueNames, FInv, BInv, [CNext]_cvars
  PROVE  FInv' /\ BInv'
<1>1. CASE UNCHANGED cvars
  BY <1>1 DEF cvars, vars, FInv, BInv
<1>2. CASE CNext
  <2>1. PICK c \in Calls : /\ InRoom(c) /\ Call(c) /\ Note(c)
                          /\ \/ boot # <<>> /\ c = Head(boot) /\ boot' = Tail(boot)
                             \/ boot = <<>> /\ boot' = boot
    BY <1>2, CarefulCalls
  <2>2. /\ c.name \in Names
        /\ \/ Refused
           \/ ret' = 0 /\ \E dir \in BOOLEAN : Adds(c.name, <<>>, dir)
           \/ ret' = 0 /\ \E d \in Contents : Adds(c.name, d, FALSE) \/ Overwrites(c.name, d)
           \/ ret' = 0 /\ c.name # Root /\ Drops(c.name)
    BY <2>1, NotedCases
  <2>3. << >> \in Seq(Bytes) /\ \A d \in Contents : d \in Seq(Bytes)
    BY EmptySeq, FileSystemAssumption
  <2>4. FInv'
    <3>1. CASE Refused
      BY <3>1 DEF Refused, FInv
    <3>2. ASSUME NEW d \in Seq(Bytes), NEW dir \in BOOLEAN, Adds(c.name, d, dir) PROVE FInv'
      BY <2>2, <3>2, AddsKeeps
    <3>3. ASSUME NEW d \in Seq(Bytes), Overwrites(c.name, d) PROVE FInv'
      BY <2>2, <3>3, OverwritesKeeps
    <3>4. CASE Drops(c.name)
      BY <2>2, <3>4, DropsKeeps
    <3>5. QED
      BY <2>2, <2>3, <3>1, <3>2, <3>3, <3>4
  <2>5. DOMAIN expected' \subseteq DOMAIN expected \cup {c.name}
    BY <2>2 DEF Refused, Adds, Overwrites, Drops
  <2>6. BInv'
    <3>1. CASE boot = <<>> /\ boot' = boot
      BY <3>1 DEF BInv
    <3>2. CASE boot # <<>> /\ c = Head(boot) /\ boot' = Tail(boot)
      <4>1. /\ Len(boot) \in Nat \ {0} /\ Len(boot') = Len(boot) - 1
            /\ \A i \in 1 .. Len(boot') : boot'[i] = boot[i + 1]
            /\ c = boot[1]
        BY <3>2, HeadTailProperties, EmptySeq DEF TypeOK
      <4>2. \A i \in 1 .. Len(boot') : i + 1 \in 1 .. Len(boot) /\ i + 1 # 1
        BY <4>1
      <4>3. ASSUME NEW i \in 1 .. Len(boot') PROVE boot'[i].name \notin DOMAIN expected'
        <5>1. boot[i + 1].name \notin DOMAIN expected
          BY <4>2 DEF BInv
        <5>2. 1 \in 1 .. Len(boot)
          BY <4>1
        <5>3. boot[i + 1].name # c.name
          BY <4>1, <4>2, <5>2 DEF BInv
        <5>4. QED
          BY <2>5, <4>1, <5>1, <5>3
      <4>4. ASSUME NEW i \in 1 .. Len(boot'), NEW j \in 1 .. Len(boot'),
                   boot'[i].name = boot'[j].name
            PROVE  i = j
        <5>1. i + 1 = j + 1
          BY <4>1, <4>2, <4>4 DEF BInv
        <5>2. QED
          BY <5>1
      <4>5. QED
        BY <4>3, <4>4 DEF BInv
    <3>3. QED
      BY <2>1, <3>1, <3>2
  <2>7. QED
    BY <2>4, <2>6
<1>3. QED
  BY <1>1, <1>2

LEMMA FInvInit == BootNamesDiffer /\ CInit => FInv /\ BInv
<1> SUFFICES ASSUME BootNamesDiffer, CInit PROVE FInv /\ BInv
  OBVIOUS
<1>1. entries = <<>> /\ expected = <<>> /\ boot = BootCalls
  BY DEF CInit, Init
<1>2. DOMAIN expected = {} /\ Len(entries) = 0
  BY <1>1
<1>3. expected \in [DOMAIN expected -> Promise]
  BY <1>1, <1>2
<1>4. FInv
  BY <1>2, <1>3 DEF FInv, Honoured
<1>5. QED
  BY <1>1, <1>2, <1>4 DEF BInv, BootNamesDiffer

LEMMA ClientIsAClient == CSpec => Spec
<1>1. CInit => Init
  BY DEF CInit
<1>2. [CNext]_cvars => [Next]_vars
  BY DEF CNext, cvars, Next
<1>3. QED
  BY <1>1, <1>2, PTL DEF CSpec, Spec

-----------------------------------------------------------------------------
(* What a careful caller finds under each name.                            *)
Found ==
  /\ { entries[i].name : i \in DOMAIN entries } = DOMAIN expected
  /\ expected \in [DOMAIN expected -> Promise]
  /\ \A n \in DOMAIN expected :
       ContentsOf(n) = IF entries[Find(n)].dir THEN Directory ELSE expected[n].data
  /\ \A n \in DOMAIN expected :
       Find(n) \in 1 .. Len(entries) /\ entries[Find(n)].name = n
  /\ \A i \in 1 .. Len(entries) : Find(entries[i].name) = i

LEMMA FoundIs == TypeOK /\ UniqueNames /\ ExtentsInBounds /\ FInv => Found
<1> SUFFICES ASSUME TypeOK, UniqueNames, ExtentsInBounds, FInv PROVE Found
  OBVIOUS
<1>0. DOMAIN entries = 1 .. Len(entries)
      /\ \A i \in 1 .. Len(entries) : entries[i].size \in Nat
  BY EntryFields
<1>1. /\ expected \in [DOMAIN expected -> Promise]
      /\ \A m \in DOMAIN expected : \E i \in 1 .. Len(entries) : entries[i].name = m
      /\ \A i \in 1 .. Len(entries) : Honest(entries[i], expected, data, dataUsed)
  BY DEF FInv, Honoured
<1>2. { entries[i].name : i \in DOMAIN entries } = DOMAIN expected
  BY <1>0, <1>1 DEF Honest
<1>3. ASSUME NEW n \in DOMAIN expected
      PROVE  Find(n) \in 1 .. Len(entries) /\ entries[Find(n)].name = n
  BY NamedThere, FindFinds DEF TypeOK
<1>4. ASSUME NEW i \in 1 .. Len(entries) PROVE Find(entries[i].name) = i
  <2>1. entries[i].name \in DOMAIN expected
    BY <1>1 DEF Honest
  <2>2. Find(entries[i].name) \in 1 .. Len(entries)
        /\ entries[Find(entries[i].name)].name = entries[i].name
    BY <1>3, <2>1
  <2>3. QED
    BY <1>0, <2>2 DEF UniqueNames
<1>5. ASSUME NEW n \in DOMAIN expected, ~entries[Find(n)].dir
      PROVE  ReadFile(n, MaxFileSize) = expected[n].data
  <2>1. PICK e : e = entries[Find(n)]
    OBVIOUS
  <2>2. /\ e.size \in Nat /\ e.size <= MaxFileSize /\ e.name = n /\ ~e.dir
        /\ Honest(e, expected, data, dataUsed)
    BY <1>0, <1>1, <1>3, <1>5, <2>1 DEF ExtentsInBounds
  <2>3. Smaller(e.size, MaxFileSize) = e.size
    BY <2>2, SizesNat DEF Smaller
  <2>4. PICK d : d = expected[n].data
    OBVIOUS
  <2>5. d \in Seq(Bytes) /\ Len(d) = e.size
        /\ \A k \in 1 .. e.size : data[e.offset + k - 1] = d[k]
    BY <1>1, <2>2, <2>4, PromiseFields DEF Honest
  <2>6. ReadFile(n, MaxFileSize) = [k \in 1 .. e.size |-> data[e.offset + k - 1]]
    BY <2>1, <2>3 DEF ReadFile
  <2>7. d = [k \in 1 .. e.size |-> d[k]]
    BY <2>5, LenProperties
  <2>8. QED
    BY <2>4, <2>5, <2>6, <2>7
<1>6. QED
  BY <1>1, <1>2, <1>3, <1>4, <1>5 DEF Found, ContentsOf

LEMMA ClientInvariant ==
  Careful /\ BootNamesDiffer => (CSpec => [](TypeOK /\ UniqueNames /\ ExtentsInBounds /\ FInv /\ BInv))
<1> SUFFICES ASSUME Careful, BootNamesDiffer
             PROVE  CSpec => [](TypeOK /\ UniqueNames /\ ExtentsInBounds /\ FInv /\ BInv)
  OBVIOUS
<1>1. CSpec => [](TypeOK /\ UniqueNames /\ ExtentsInBounds)
  BY ClientIsAClient, TypeCorrect, Unique, Bounds, PTL
<1>2. CInit => FInv /\ BInv
  BY FInvInit
<1>3. TypeOK /\ UniqueNames /\ FInv /\ BInv /\ [CNext]_cvars => FInv' /\ BInv'
  BY FInvNext
<1>4. QED
  BY <1>1, <1>2, <1>3, PTL DEF CSpec

(* The room of a file is its own for as long as it lives, whatever is      *)
(* deleted and made around it, and no file outgrows it, if the callers are *)
(* careful (fs.c:171, 178, 187-217, 250-253).                              *)
THEOREM RoomsKept == Careful /\ BootNamesDiffer => (CSpec => []RoomsDisjoint)
<1>1. TypeOK /\ FInv => RoomsDisjoint
  <2> SUFFICES ASSUME TypeOK, FInv PROVE RoomsDisjoint
    OBVIOUS
  <2>1. DOMAIN entries = 1 .. Len(entries)
    BY EntryFields
  <2>2. DOMAIN expected = { entries[i].name : i \in DOMAIN entries }
    BY <2>1 DEF FInv, Honoured, Honest
  <2>3. QED
    BY <2>1, <2>2 DEF RoomsDisjoint, FInv, Honoured, Honest, Apart
<1>2. QED
  BY <1>1, ClientInvariant, PTL

(* Careful callers read what they wrote (fs_read_file, fs.c:221-235).      *)
THEOREM ReadsBack == Careful /\ BootNamesDiffer => (CSpec => []ReadBack)
<1>1. Found => ReadBack
  BY DEF Found, ReadBack
<1>2. QED
  BY <1>1, FoundIs, ClientInvariant, PTL

-----------------------------------------------------------------------------
(* The files behind the names, as FileStore sees them, entry by entry.     *)
Files == [n \in { entries[i].name : i \in DOMAIN entries } |-> ContentsOf(n)]

FilesAre ==
  /\ Files = [n \in DOMAIN expected |-> Files[n]]
  /\ \A n \in DOMAIN expected : \E i \in 1 .. Len(entries) : entries[i].name = n
  /\ \A i \in 1 .. Len(entries) :
       /\ entries[i].name \in DOMAIN expected
       /\ Files[entries[i].name] = IF entries[i].dir THEN Directory
                                   ELSE expected[entries[i].name].data

LEMMA FoundFiles == FInv /\ Found => FilesAre
<1> SUFFICES ASSUME FInv, Found PROVE FilesAre
  OBVIOUS
<1>1. Files = [n \in DOMAIN expected |-> ContentsOf(n)]
  BY DEF Files, Found
<1>2. \A i \in 1 .. Len(entries) : entries[i].name \in DOMAIN expected
  BY DEF FInv, Honoured, Honest
<1>3. ASSUME NEW i \in 1 .. Len(entries)
      PROVE  Files[entries[i].name] = IF entries[i].dir THEN Directory
                                      ELSE expected[entries[i].name].data
  <2>1. PICK n \in DOMAIN expected : n = entries[i].name
    BY <1>2
  <2>2. Find(n) = i
    BY <2>1 DEF Found
  <2>3. Files[n] = ContentsOf(n)
    BY <1>1
  <2>4. ContentsOf(n) = IF entries[Find(n)].dir THEN Directory ELSE expected[n].data
    BY DEF Found
  <2>5. QED
    BY <2>1, <2>2, <2>3, <2>4
<1>4. Files = [n \in DOMAIN expected |-> Files[n]]
  BY <1>1
<1>5. QED
  BY <1>2, <1>3, <1>4 DEF FilesAre, FInv, Honoured

LEMMA FilesAdded ==
  ASSUME TypeOK, FilesAre, FilesAre', NEW n \in Names, NEW d \in Seq(Bytes),
         NEW dir \in BOOLEAN, Adds(n, d, dir)
  PROVE  /\ n \notin DOMAIN Files
         /\ Files' = Abs!With(Files, n, IF dir THEN Directory ELSE d)
<1>0. Len(entries) \in Nat /\ DOMAIN entries = 1 .. Len(entries) /\ dataUsed \in Nat
      /\ Len(d) \in Nat
  BY EntryFields, LenProperties
<1>1. PICK e \in Entry : e = NewEntry(n, Len(d), dir) /\ e.name = n /\ e.dir = dir
  BY <1>0, NewEntryType
<1>2. /\ Len(entries') = Len(entries) + 1
      /\ \A i \in 1 .. Len(entries) : entries'[i] = entries[i]
      /\ entries'[Len(entries) + 1] = e
  BY <1>1, Grown DEF Adds, TypeOK
<1>3. n \notin DOMAIN expected
  BY <1>0 DEF Adds, Exists, FilesAre
<1>4. /\ DOMAIN expected' = DOMAIN expected \cup {n}
      /\ \A m \in DOMAIN expected : expected'[m] = expected[m]
      /\ expected'[n].data = d
  BY <1>3 DEF Adds
<1>5. Len(entries) + 1 \in 1 .. Len(entries')
      /\ \A i \in 1 .. Len(entries) : i \in 1 .. Len(entries')
  BY <1>0, <1>2
<1>6. Files'[n] = IF dir THEN Directory ELSE d
  <2>1. PICK i \in 1 .. Len(entries') : entries'[i] = e
    BY <1>2, <1>5
  <2>2. Files'[entries'[i].name] =
          IF entries'[i].dir THEN Directory ELSE expected'[entries'[i].name].data
    BY <2>1 DEF FilesAre
  <2>3. QED
    BY ONLY <1>1, <1>4, <2>1, <2>2
<1>7. ASSUME NEW m \in DOMAIN expected PROVE Files'[m] = Files[m]
  <2>1. PICK i \in 1 .. Len(entries) : entries[i].name = m
    BY DEF FilesAre
  <2>2. entries'[i] = entries[i] /\ i \in 1 .. Len(entries')
    BY <1>2, <1>5
  <2>3. Files[entries[i].name] = IF entries[i].dir THEN Directory
                                 ELSE expected[entries[i].name].data
    BY DEF FilesAre
  <2>4. Files'[entries'[i].name] = IF entries'[i].dir THEN Directory
                                   ELSE expected'[entries'[i].name].data
    BY <2>2 DEF FilesAre
  <2>5. PICK x : x = entries[i]
    OBVIOUS
  <2>6. x.name = m /\ Files[m] = IF x.dir THEN Directory ELSE expected[m].data
    BY <2>1, <2>3, <2>5
  <2>7. Files'[m] = IF x.dir THEN Directory ELSE expected'[m].data
    BY <2>2, <2>4, <2>5, <2>6
  <2>8. QED
    BY <1>4, <2>6, <2>7
<1>8. DOMAIN Files = DOMAIN expected
  BY DEF FilesAre
<1>9. Files' = [m \in DOMAIN expected \cup {n} |-> Files'[m]]
  BY <1>4 DEF FilesAre
<1>10. QED
  BY <1>3, <1>6, <1>7, <1>8, <1>9 DEF Abs!With

LEMMA FilesOverwritten ==
  ASSUME TypeOK, UniqueNames, FInv, FilesAre, FilesAre', NEW n \in Names,
         NEW d \in Seq(Bytes), Overwrites(n, d)
  PROVE  /\ n \in DOMAIN Files => Files[n] # Directory
         /\ Files' = Abs!With(Files, n, d)
<1>0. DOMAIN entries = 1 .. Len(entries) /\ Len(d) \in Nat
  BY EntryFields, LenProperties
<1>1. PICK f \in 1 .. Len(entries) : f = Find(n) /\ entries[f].name = n /\ ~entries[f].dir
  BY FindFinds DEF Overwrites, TypeOK
<1>2. PICK h \in Entry : h = entries[f]
  BY ElementOfSeq DEF TypeOK
<1>3. PICK e \in Entry : e = [h EXCEPT !.size = Len(d)]
  BY <1>0, ResizedEntry
<1>4. e.name = n /\ ~e.dir
  BY <1>0, <1>1, <1>2, <1>3, ResizedEntry
<1>5. /\ Len(entries') = Len(entries)
      /\ \A i \in 1 .. Len(entries) : entries'[i] = IF i = f THEN e ELSE entries[i]
  <2>1. entries' = [entries EXCEPT ![f] = e]
    BY <1>1, <1>2, <1>3 DEF Overwrites
  <2>2. QED
    BY <2>1, ExceptSeq DEF TypeOK
<1>6. n \in DOMAIN expected /\ expected[n] \in Promise
  BY <1>1 DEF FInv, Honoured, Honest
<1>7. PICK p \in Promise : p = [expected[n] EXCEPT !.data = d] /\ p.data = d
  BY <1>6, PromiseFields
<1>8. expected' = [expected EXCEPT ![n] = p]
  BY <1>7 DEF Overwrites
<1>9. /\ DOMAIN expected' = DOMAIN expected /\ expected'[n] = p
      /\ \A m \in DOMAIN expected : m # n => expected'[m] = expected[m]
  BY <1>6, <1>8
<1>10. Files'[n] = d
  <2>1. f \in 1 .. Len(entries') /\ entries'[f] = e
    BY <1>5
  <2>2. Files'[entries'[f].name] = IF entries'[f].dir THEN Directory
                                   ELSE expected'[entries'[f].name].data
    BY <2>1 DEF FilesAre
  <2>3. QED
    BY <1>4, <1>7, <1>9, <2>1, <2>2
<1>11. ASSUME NEW m \in DOMAIN expected, m # n PROVE Files'[m] = Files[m]
  <2>1. PICK i \in 1 .. Len(entries) : entries[i].name = m
    BY DEF FilesAre
  <2>2. i # f
    BY <1>1, <1>11, <2>1
  <2>3. entries'[i] = entries[i] /\ i \in 1 .. Len(entries')
    BY <1>5, <2>2
  <2>4. Files[entries[i].name] = IF entries[i].dir THEN Directory
                                 ELSE expected[entries[i].name].data
    BY DEF FilesAre
  <2>5. Files'[entries'[i].name] = IF entries'[i].dir THEN Directory
                                   ELSE expected'[entries'[i].name].data
    BY <2>3 DEF FilesAre
  <2>6. PICK x : x = entries[i]
    OBVIOUS
  <2>7. x.name = m /\ Files[m] = IF x.dir THEN Directory ELSE expected[m].data
    BY <2>1, <2>4, <2>6
  <2>8. Files'[m] = IF x.dir THEN Directory ELSE expected'[m].data
    BY <2>3, <2>5, <2>6, <2>7
  <2>9. QED
    BY <1>9, <1>11, <2>7, <2>8
<1>12. DOMAIN Files = DOMAIN expected
  BY DEF FilesAre
<1>13. Files' = [m \in DOMAIN expected |-> Files'[m]]
  BY <1>9 DEF FilesAre
<1>14. Files[n] # Directory
  <2>1. Files[n] = expected[n].data
    BY <1>1 DEF FilesAre
  <2>2. QED
    BY <1>6, <2>1, PromiseFields, FileClientAssumption
<1>15. DOMAIN expected \cup {n} = DOMAIN expected
  BY <1>6
<1>16. QED
  BY <1>10, <1>11, <1>12, <1>13, <1>14, <1>15 DEF Abs!With

LEMMA FilesDropped ==
  ASSUME TypeOK, FilesAre, FilesAre', NEW n \in Names, Drops(n)
  PROVE  /\ n \in DOMAIN Files
         /\ Files' = [m \in DOMAIN Files \ {n} |-> Files[m]]
<1>0. Len(entries) \in Nat /\ DOMAIN entries = 1 .. Len(entries)
  BY EntryFields
<1>1. PICK f \in 1 .. Len(entries) : f = Find(n) /\ entries[f].name = n
  BY FindFinds DEF Drops, TypeOK
<1>2. /\ Len(entries') = Len(entries) - 1
      /\ \A j \in 1 .. Len(entries) - 1 :
           entries'[j] = IF j = f THEN entries[Len(entries)] ELSE entries[j]
  BY <1>1, RemovedEntries DEF Drops, TypeOK
<1>3. DOMAIN Files = DOMAIN expected /\ n \in DOMAIN expected
  BY <1>1 DEF FilesAre
<1>4. /\ DOMAIN expected' = DOMAIN expected \ {n}
      /\ \A m \in DOMAIN expected' : expected'[m] = expected[m]
  BY DEF Drops
<1>5. ASSUME NEW m \in DOMAIN expected' PROVE Files'[m] = Files[m]
  <2>1. PICK j \in 1 .. Len(entries') : entries'[j].name = m
    BY DEF FilesAre
  <2>2. j \in 1 .. Len(entries) - 1
    BY <1>2
  <2>3. j \in 1 .. Len(entries) /\ Len(entries) \in 1 .. Len(entries)
    BY <1>0, <2>2, BeforeTheLast
  <2>4. PICK i \in 1 .. Len(entries) : entries'[j] = entries[i]
    BY <1>2, <2>2, <2>3
  <2>5. Files[entries[i].name] = IF entries[i].dir THEN Directory
                                 ELSE expected[entries[i].name].data
    BY DEF FilesAre
  <2>6. Files'[entries'[j].name] = IF entries'[j].dir THEN Directory
                                   ELSE expected'[entries'[j].name].data
    BY DEF FilesAre
  <2>7. PICK x : x = entries[i]
    OBVIOUS
  <2>8. x.name = m /\ Files[m] = IF x.dir THEN Directory ELSE expected[m].data
    BY <2>1, <2>4, <2>5, <2>7
  <2>9. Files'[m] = IF x.dir THEN Directory ELSE expected'[m].data
    BY <2>1, <2>4, <2>6, <2>7
  <2>10. QED
    BY <1>4, <2>8, <2>9
<1>6. Files' = [m \in DOMAIN expected' |-> Files'[m]]
  BY DEF FilesAre
<1>7. QED
  BY <1>3, <1>4, <1>5, <1>6

LEMMA StoreStep ==
  ASSUME Careful, TypeOK, UniqueNames, FInv, BInv, FilesAre, FilesAre', [CNext]_cvars
  PROVE  [Abs!Next]_<<Files, ret>>
<1>1. CASE UNCHANGED cvars
  BY <1>1 DEF cvars, vars, Files, ContentsOf, ReadFile, Find
<1>2. CASE CNext
  <2>1. PICK c \in Calls : InRoom(c) /\ Call(c) /\ Note(c)
    BY <1>2, CarefulCalls
  <2>2. /\ c.name \in Names
        /\ \/ Refused
           \/ ret' = 0 /\ \E dir \in BOOLEAN : Adds(c.name, <<>>, dir)
           \/ ret' = 0 /\ \E d \in Contents : Adds(c.name, d, FALSE) \/ Overwrites(c.name, d)
           \/ ret' = 0 /\ c.name # Root /\ Drops(c.name)
    BY <2>1, NotedCases
  <2>3. << >> \in Seq(Bytes) /\ \A d \in Contents : d \in Seq(Bytes)
    BY EmptySeq, FileSystemAssumption
  <2>4. CASE Refused
    <3>1. Files' = Files
      BY <2>4 DEF Refused, Files, ContentsOf, ReadFile, Find
    <3>2. ret' # 0
      BY <2>4 DEF Refused
    <3>3. QED
      BY <3>1, <3>2 DEF Abs!Next, Abs!Refuse, Files
  <2>5. ASSUME NEW dir \in BOOLEAN, ret' = 0, Adds(c.name, <<>>, dir)
        PROVE  Abs!Create(c.name)
    <3>1. /\ c.name \notin DOMAIN Files
          /\ Files' = Abs!With(Files, c.name, IF dir THEN Directory ELSE <<>>)
      BY <2>2, <2>3, <2>5, FilesAdded
    <3>2. (IF dir THEN Directory ELSE <<>>) \in {Directory, <<>>}
      OBVIOUS
    <3>3. QED
      BY <2>5, <3>1, <3>2 DEF Abs!Create, Files
  <2>6. ASSUME NEW d \in Contents, ret' = 0, Adds(c.name, d, FALSE)
        PROVE  Abs!Write(c.name, d)
    <3>1. /\ c.name \notin DOMAIN Files
          /\ Files' = Abs!With(Files, c.name, IF FALSE THEN Directory ELSE d)
      BY <2>2, <2>3, <2>6, FilesAdded
    <3>2. QED
      BY <2>6, <3>1 DEF Abs!Write, Files
  <2>7. ASSUME NEW d \in Contents, ret' = 0, Overwrites(c.name, d)
        PROVE  Abs!Write(c.name, d)
    <3>1. /\ c.name \in DOMAIN Files => Files[c.name] # Directory
          /\ Files' = Abs!With(Files, c.name, d)
      BY <2>2, <2>3, <2>7, FilesOverwritten
    <3>2. QED
      BY <2>7, <3>1 DEF Abs!Write, Files
  <2>8. ASSUME ret' = 0, c.name # Root, Drops(c.name)
        PROVE  Abs!Delete(c.name)
    <3>1. /\ c.name \in DOMAIN Files
          /\ Files' = [m \in DOMAIN Files \ {c.name} |-> Files[m]]
      BY <2>2, <2>8, FilesDropped
    <3>2. QED
      BY <2>8, <3>1 DEF Abs!Delete, Files
  <2>9. QED
    BY <2>2, <2>4, <2>5, <2>6, <2>7, <2>8 DEF Abs!Next
<1>3. QED
  BY <1>1, <1>2

(* The file system of careful callers is a FileStore: a call does to the   *)
(* contents behind the names what it says, and nothing to those behind any *)
(* other name (all of fs.c:158-277).                                       *)
THEOREM IsAFileStore == Careful /\ BootNamesDiffer => (CSpec => FileStoreSpec)
<1> SUFFICES ASSUME Careful, BootNamesDiffer PROVE CSpec => FileStoreSpec
  OBVIOUS
<1>1. CInit => Abs!Init
  <2>1. SUFFICES ASSUME CInit PROVE Abs!Init
    OBVIOUS
  <2>2. entries = <<>> /\ ret = 0
    BY <2>1 DEF CInit, Init
  <2>3. { entries[i].name : i \in DOMAIN entries } = {}
    BY <2>2
  <2>4. QED
    BY <2>2, <2>3 DEF Abs!Init
<1>2. CSpec => [](TypeOK /\ UniqueNames /\ ExtentsInBounds /\ FInv /\ BInv)
  BY ClientInvariant
<1>3. CSpec => []FilesAre
  BY <1>2, FoundIs, FoundFiles, PTL
<1>4. TypeOK /\ UniqueNames /\ FInv /\ BInv /\ FilesAre /\ FilesAre' /\ [CNext]_cvars
        => [Abs!Next]_<<Files, ret>>
  BY StoreStep
<1>5. [Abs!Next]_<<Files, ret>> => [Abs!Next]_Abs!vars
  BY DEF Files, Abs!vars
<1>6. QED
  BY <1>1, <1>2, <1>3, <1>4, <1>5, PTL DEF CSpec, FileStoreSpec, Abs!Spec
=============================================================================
