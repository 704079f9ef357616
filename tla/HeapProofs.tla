----------------------------- MODULE HeapProofs -----------------------------
(***************************************************************************)
(* Theorems about Heap, for every heap size, header size, width of size_t  *)
(* and set of requests that RequestsFit allows: a request that wraps lets  *)
(* realloc and calloc write over headers.  The facts are stated for a      *)
(* block list bs with no spoiled header, because realloc works on a list   *)
(* that is neither the old nor the new one.                                *)
(***************************************************************************)
EXTENDS Heap, NatInduction, SequenceTheorems, TLAPS

Blk == [addr : Nat, size : Nat, free : BOOLEAN]

(* The allocated blocks of a list.                                         *)
Taken(bs) == { b \in Blk : ~b.free /\ \E i \in 1 .. Len(bs) : bs[i] = b }

LEMMA Sizes ==
  /\ HeaderSize \in Nat \ {0} /\ HeapSize \in Nat /\ SizeMod \in Nat
  /\ HeaderSize % 8 = 0 /\ HeapSize % 8 = 0 /\ SizeMod % 8 = 0
  /\ SizeMod > HeapSize + HeaderSize + 16
  BY HeapAssumption

LEMMA SumOfEights ==
  ASSUME NEW x \in Nat, NEW y \in Nat, NEW z \in Nat,
         x % 8 = 0, y % 8 = 0, z % 8 = 0
  PROVE  (x + y + z) % 8 = 0
  OBVIOUS

LEMMA BlockNumbers ==
  ASSUME NEW bs \in Seq(Blk)
  PROVE  \A j \in 1 .. Len(bs) : bs[j].addr \in Nat /\ bs[j].size \in Nat
<1>1. \A j \in 1 .. Len(bs) : bs[j] \in Blk
  BY ElementOfSeq
<1>2. QED
  BY <1>1 DEF Blk

-----------------------------------------------------------------------------
(* merge_free_blocks.  First one turn of its loop, then all of them.       *)

(* What the loop has made of the first k blocks of bs.                     *)
MergedTo(bs, k, acc) ==
  /\ acc \in Seq(Blk) /\ 1 <= Len(acc)
  /\ acc[1].addr = bs[1].addr
  /\ \A i \in 1 .. Len(acc) - 1 : acc[i + 1].addr = EndOf(acc[i])
  /\ EndOf(acc[Len(acc)]) = EndOf(bs[k])
  /\ \A i \in 1 .. Len(acc) : acc[i].size % 8 = 0
  /\ NoFreePair(acc)
  /\ \A b \in Blk :
       ~b.free => ((\E i \in 1 .. Len(acc) : acc[i] = b)
                     <=> (\E i \in 1 .. k : bs[i] = b))

(* The two turns: a free block is swallowed by a free one before it, any   *)
(* other block is passed.                                                  *)
LEMMA AbsorbSwallows ==
  ASSUME NEW acc \in Seq(Blk), 1 <= Len(acc), NEW b \in Blk,
         acc[Len(acc)].free, b.free
  PROVE  LET t == Absorb(acc, b, {})
         IN  /\ t \in Seq(Blk) /\ Len(t) = Len(acc)
             /\ \A i \in 1 .. Len(acc) - 1 : t[i] = acc[i]
             /\ t[Len(acc)].addr = acc[Len(acc)].addr
             /\ t[Len(acc)].size = acc[Len(acc)].size + HeaderSize + b.size
             /\ t[Len(acc)].free
<1>1. Len(acc) \in Nat /\ acc # <<>>
  BY LenProperties
<1>2. PICK n \in 1 .. Len(acc) : n = Len(acc)
  BY <1>1
<1>3. PICK a \in Blk : a = acc[n]
  BY <1>2, ElementOfSeq
<1>4. DEFINE c == [addr |-> a.addr, size |-> a.size + HeaderSize + b.size, free |-> a.free]
<1>5. c \in Blk
  <2>1. a.addr \in Nat /\ a.free \in BOOLEAN /\ a.size \in Nat /\ b.size \in Nat
    BY DEF Blk
  <2>2. HeaderSize \in Nat
    BY Sizes
  <2>3. a.size + HeaderSize + b.size \in Nat
    BY ONLY <2>1, <2>2
  <2>4. QED
    BY ONLY <2>1, <2>3 DEF Blk
<1>6. Absorb(acc, b, {}) = [acc EXCEPT ![n] = c]
  <2>1. Absorb(acc, b, {}) = [acc EXCEPT ![n].size = @ + HeaderSize + b.size]
    BY <1>1, <1>2 DEF Absorb, Intact
  <2>2. [acc[n] EXCEPT !.size = @ + HeaderSize + b.size] = c
    BY <1>3 DEF Blk
  <2>3. [acc EXCEPT ![n].size = @ + HeaderSize + b.size]
          = [acc EXCEPT ![n] = [acc[n] EXCEPT !.size = @ + HeaderSize + b.size]]
    OBVIOUS
  <2>4. QED
    BY <2>1, <2>2, <2>3
<1>7. a.free
  BY <1>2, <1>3
<1>8. c.addr = a.addr /\ c.size = a.size + HeaderSize + b.size /\ c.free
  BY <1>7
<1>9. HIDE DEF c
<1>10. /\ [acc EXCEPT ![n] = c] \in Seq(Blk)
       /\ Len([acc EXCEPT ![n] = c]) = Len(acc)
       /\ \A i \in 1 .. Len(acc) :
            [acc EXCEPT ![n] = c][i] = IF i = n THEN c ELSE acc[i]
  BY <1>5, ExceptSeq
<1>11. QED
  BY <1>1, <1>2, <1>3, <1>6, <1>8, <1>10

LEMMA AbsorbPasses ==
  ASSUME NEW acc \in Seq(Blk), NEW b \in Blk,
         ~(acc # <<>> /\ acc[Len(acc)].free /\ b.free)
  PROVE  /\ Absorb(acc, b, {}) \in Seq(Blk) /\ Len(Absorb(acc, b, {})) = Len(acc) + 1
         /\ \A i \in 1 .. Len(acc) : Absorb(acc, b, {})[i] = acc[i]
         /\ Absorb(acc, b, {})[Len(acc) + 1] = b
<1>1. Absorb(acc, b, {}) = Append(acc, b)
  BY DEF Absorb
<1>2. QED
  BY <1>1, AppendProperties

LEMMA TwoSums ==
  ASSUME NEW a \in Nat, NEW h \in Nat, NEW m \in Nat, NEW n \in Nat
  PROVE  a + h + (m + h + n) = (a + h + m) + h + n
  OBVIOUS

(* One turn keeps what the loop maintains.                                 *)
LEMMA MergeTurn ==
  ASSUME NEW bs \in Seq(Blk), NEW k \in 1 .. Len(bs) - 1, NEW acc,
         MergedTo(bs, k, acc),
         bs[k + 1].addr = EndOf(bs[k]),
         bs[k + 1].size % 8 = 0
  PROVE  MergedTo(bs, k + 1, Absorb(acc, bs[k + 1], {}))
<1> DEFINE t == Absorb(acc, bs[k + 1], {})
<1>1. Len(bs) \in Nat /\ k + 1 \in 1 .. Len(bs)
  BY LenProperties
<1>2. PICK b \in Blk : b = bs[k + 1]
  BY <1>1, ElementOfSeq
<1>3. acc \in Seq(Blk) /\ 1 <= Len(acc) /\ Len(acc) \in Nat
  BY LenProperties DEF MergedTo
<1>4. acc[1].addr = bs[1].addr /\ EndOf(acc[Len(acc)]) = EndOf(bs[k])
  BY DEF MergedTo
<1>5. \A i \in 1 .. Len(acc) - 1 : acc[i + 1].addr = EndOf(acc[i])
  BY DEF MergedTo
<1>6. \A i \in 1 .. Len(acc) : acc[i].size % 8 = 0
  BY DEF MergedTo
<1>7. \A i \in 1 .. Len(acc) - 1 : ~(acc[i].free /\ acc[i + 1].free)
  BY DEF MergedTo, NoFreePair
<1>8. \A c \in Blk :
        ~c.free => ((\E i \in 1 .. Len(acc) : acc[i] = c)
                      <=> (\E i \in 1 .. k : bs[i] = c))
  BY DEF MergedTo
<1>9. \A i \in 1 .. Len(acc) : acc[i] \in Blk
  BY <1>3, ElementOfSeq
<1>10. b.addr = EndOf(acc[Len(acc)]) /\ b.size % 8 = 0
  BY <1>2, <1>4
<1>11. CASE acc[Len(acc)].free /\ b.free
  <2>1. /\ t \in Seq(Blk) /\ Len(t) = Len(acc)
        /\ \A i \in 1 .. Len(acc) - 1 : t[i] = acc[i]
        /\ t[Len(acc)].addr = acc[Len(acc)].addr
        /\ t[Len(acc)].size = acc[Len(acc)].size + HeaderSize + b.size
        /\ t[Len(acc)].free
    BY <1>2, <1>3, <1>11, AbsorbSwallows
  <2> HIDE DEF t
  <2>2. t[1].addr = bs[1].addr
    <3>1. CASE Len(acc) = 1
      BY <1>4, <2>1, <3>1
    <3>2. CASE Len(acc) # 1
      <4>1. 1 \in 1 .. Len(acc) - 1
        <5>1. PICK n \in Nat : n = Len(acc) /\ 1 <= n /\ n # 1
          BY <1>3, <3>2
        <5>2. 1 \in 1 .. n - 1
          BY ONLY <5>1
        <5>3. QED
          BY <5>1, <5>2
      <4>2. \A i \in 1 .. Len(acc) - 1 : t[i] = acc[i]
        BY ONLY <2>1
      <4>3. t[1] = acc[1]
        BY ONLY <4>1, <4>2
      <4>4. QED
        BY ONLY <1>4, <4>3
    <3>3. QED
      BY <3>1, <3>2
  <2>3. ASSUME NEW i \in 1 .. Len(t) - 1 PROVE t[i + 1].addr = EndOf(t[i])
    <3>1. t[i] = acc[i] /\ acc[i + 1].addr = EndOf(acc[i])
      BY <1>3, <1>5, <2>1
    <3>2. CASE i + 1 = Len(acc)
      BY <2>1, <3>1, <3>2
    <3>3. CASE i + 1 # Len(acc)
      BY <1>3, <2>1, <3>1, <3>3
    <3>4. QED
      BY <3>2, <3>3
  <2>4. EndOf(t[Len(t)]) = EndOf(bs[k + 1])
    <3>1. acc[Len(acc)] \in Blk
      BY <1>3, <1>9
    <3>2. /\ acc[Len(acc)].addr \in Nat /\ acc[Len(acc)].size \in Nat
          /\ b.size \in Nat
      BY <3>1 DEF Blk
    <3>3. HeaderSize \in Nat
      BY Sizes
    <3>4. b.addr = acc[Len(acc)].addr + HeaderSize + acc[Len(acc)].size
      BY <1>10 DEF EndOf
    <3>5. t[Len(t)].addr = acc[Len(acc)].addr
          /\ t[Len(t)].size = acc[Len(acc)].size + HeaderSize + b.size
      BY <2>1
    <3>6. EndOf(t[Len(t)]) = acc[Len(acc)].addr + HeaderSize
                               + (acc[Len(acc)].size + HeaderSize + b.size)
      BY <3>5 DEF EndOf
    <3>7. EndOf(b) = (acc[Len(acc)].addr + HeaderSize + acc[Len(acc)].size)
                       + HeaderSize + b.size
      BY <3>4 DEF EndOf
    <3>8. EndOf(t[Len(t)]) = EndOf(b)
      <4>1. PICK u \in Nat, v \in Nat, w \in Nat :
              u = acc[Len(acc)].addr /\ v = acc[Len(acc)].size /\ w = b.size
        BY ONLY <3>2
      <4>2. /\ EndOf(t[Len(t)]) = u + HeaderSize + (v + HeaderSize + w)
            /\ EndOf(b) = (u + HeaderSize + v) + HeaderSize + w
        BY ONLY <3>6, <3>7, <4>1
      <4>3. QED
        BY <3>3, <4>2, TwoSums
    <3>9. QED
      BY <1>2, <3>8
  <2>5. ASSUME NEW i \in 1 .. Len(t) PROVE t[i].size % 8 = 0
    <3>1. CASE i = Len(acc)
      <4>1. acc[i] \in Blk /\ acc[i].size % 8 = 0
        BY <1>3, <1>6, <1>9, <3>1
      <4>2. acc[i].size \in Nat /\ b.size \in Nat
        BY <4>1, <1>2 DEF Blk
      <4>3. (acc[i].size + HeaderSize + b.size) % 8 = 0
        BY <1>10, <4>1, <4>2, Sizes, SumOfEights
      <4>4. QED
        BY <2>1, <3>1, <4>3
    <3>2. CASE i # Len(acc)
      BY <1>3, <1>6, <2>1, <3>2
    <3>3. QED
      BY <3>1, <3>2
  <2>6. ASSUME NEW i \in 1 .. Len(t) - 1 PROVE ~(t[i].free /\ t[i + 1].free)
    <3>1. t[i] = acc[i] /\ ~(acc[i].free /\ acc[i + 1].free)
      BY <1>3, <1>7, <2>1
    <3>2. CASE i + 1 = Len(acc)
      BY <1>11, <3>1, <3>2
    <3>3. CASE i + 1 # Len(acc)
      BY <1>3, <2>1, <3>1, <3>3
    <3>4. QED
      BY <3>2, <3>3
  <2>7. ASSUME NEW c \in Blk, ~c.free
        PROVE  (\E i \in 1 .. Len(t) : t[i] = c)
                 <=> (\E i \in 1 .. k + 1 : bs[i] = c)
    <3>1. t[Len(acc)] # c /\ acc[Len(acc)] # c /\ bs[k + 1] # c
      BY <1>2, <1>11, <2>1, <2>7
    <3>2. (\E i \in 1 .. Len(t) : t[i] = c) <=> (\E i \in 1 .. Len(acc) : acc[i] = c)
      <4>1. \A i \in 1 .. Len(acc) : i # Len(acc) => t[i] = acc[i]
        BY <1>3, <2>1
      <4>2. QED
        BY <2>1, <3>1, <4>1
    <3>3. (\E i \in 1 .. k + 1 : bs[i] = c) <=> (\E i \in 1 .. k : bs[i] = c)
      BY <3>1
    <3>4. QED
      BY <1>8, <2>7, <3>2, <3>3
  <2>8. NoFreePair(t) /\ 1 <= Len(t)
    BY <1>3, <2>1, <2>6 DEF NoFreePair
  <2>9. MergedTo(bs, k + 1, t)
    BY <2>1, <2>2, <2>3, <2>4, <2>5, <2>7, <2>8 DEF MergedTo
  <2>10. QED
    BY <2>9 DEF t
<1>12. CASE ~(acc[Len(acc)].free /\ b.free)
  <2>1. /\ t \in Seq(Blk) /\ Len(t) = Len(acc) + 1
        /\ \A i \in 1 .. Len(acc) : t[i] = acc[i]
        /\ t[Len(acc) + 1] = b
    BY <1>2, <1>3, <1>12, AbsorbPasses
  <2> HIDE DEF t
  <2>2. t[1].addr = bs[1].addr
    BY <1>3, <1>4, <2>1
  <2>3. ASSUME NEW i \in 1 .. Len(t) - 1 PROVE t[i + 1].addr = EndOf(t[i])
    <3>1. t[i] = acc[i]
      BY <1>3, <2>1
    <3>2. CASE i = Len(acc)
      BY <1>10, <2>1, <3>1, <3>2
    <3>3. CASE i # Len(acc)
      <4>1. i \in 1 .. Len(acc) - 1 /\ i + 1 \in 1 .. Len(acc)
        BY <1>3, <2>1, <3>3
      <4>2. QED
        BY <1>5, <2>1, <3>1, <4>1
    <3>4. QED
      BY <3>2, <3>3
  <2>4. EndOf(t[Len(t)]) = EndOf(bs[k + 1])
    BY <1>2, <2>1
  <2>5. ASSUME NEW i \in 1 .. Len(t) PROVE t[i].size % 8 = 0
    BY <1>3, <1>6, <1>10, <2>1
  <2>6. ASSUME NEW i \in 1 .. Len(t) - 1 PROVE ~(t[i].free /\ t[i + 1].free)
    <3>1. t[i] = acc[i]
      BY <1>3, <2>1
    <3>2. CASE i = Len(acc)
      BY <1>12, <2>1, <3>1, <3>2
    <3>3. CASE i # Len(acc)
      <4>1. i \in 1 .. Len(acc) - 1 /\ i + 1 \in 1 .. Len(acc)
        BY <1>3, <2>1, <3>3
      <4>2. QED
        BY <1>7, <2>1, <3>1, <4>1
    <3>4. QED
      BY <3>2, <3>3
  <2>7. ASSUME NEW c \in Blk, ~c.free
        PROVE  (\E i \in 1 .. Len(t) : t[i] = c)
                 <=> (\E i \in 1 .. k + 1 : bs[i] = c)
    <3>1. \A i \in 1 .. Len(t) : i \in 1 .. Len(acc) \/ i = Len(acc) + 1
      BY <1>3, <2>1
    <3>2. Len(acc) + 1 \in 1 .. Len(t) /\ 1 .. Len(acc) \subseteq 1 .. Len(t)
      BY <1>3, <2>1
    <3>3. (\E i \in 1 .. Len(t) : t[i] = c)
            <=> (\E i \in 1 .. Len(acc) : acc[i] = c) \/ b = c
      BY <2>1, <3>1, <3>2
    <3>4. (\E i \in 1 .. k + 1 : bs[i] = c)
            <=> (\E i \in 1 .. k : bs[i] = c) \/ b = c
      BY <1>2
    <3>5. QED
      BY <1>8, <2>7, <3>3, <3>4
  <2>8. NoFreePair(t) /\ 1 <= Len(t)
    BY <1>3, <2>1, <2>6 DEF NoFreePair
  <2>9. MergedTo(bs, k + 1, t)
    BY <2>1, <2>2, <2>3, <2>4, <2>5, <2>7, <2>8 DEF MergedTo
  <2>10. QED
    BY <2>9 DEF t
<1>13. QED
  BY <1>11, <1>12

(* The recursion of MergeFreeBlocks is well-founded: there is a function   *)
(* with its values, and so the function it names has them.                 *)
LEMMA MergedExists ==
  ASSUME NEW bs, NEW n \in Nat
  PROVE  \E f : f = [k \in 0 .. n |->
                       IF k = 0 THEN <<>> ELSE Absorb(f[k - 1], bs[k], {})]
<1> DEFINE P == { m \in Nat :
                    \E f : f = [k \in 0 .. m |->
                                  IF k = 0 THEN <<>> ELSE Absorb(f[k - 1], bs[k], {})] }
<1>1. 0 \in P
  <2> DEFINE f == [k \in 0 .. 0 |-> <<>>]
  <2>1. f = [k \in 0 .. 0 |-> IF k = 0 THEN <<>> ELSE Absorb(f[k - 1], bs[k], {})]
    OBVIOUS
  <2>2. QED
    BY <2>1
<1>2. ASSUME NEW m \in P PROVE m + 1 \in P
  <2>1. m \in Nat
    OBVIOUS
  <2>2. PICK f : f = [k \in 0 .. m |->
                       IF k = 0 THEN <<>> ELSE Absorb(f[k - 1], bs[k], {})]
    OBVIOUS
  <2>3. \A k \in 0 .. m : f[k] = IF k = 0 THEN <<>> ELSE Absorb(f[k - 1], bs[k], {})
    BY <2>2
  <2> DEFINE g == [k \in 0 .. m + 1 |->
                     IF k = m + 1 THEN Absorb(f[m], bs[m + 1], {}) ELSE f[k]]
  <2>4. ASSUME NEW k \in 0 .. m + 1
        PROVE  g[k] = IF k = 0 THEN <<>> ELSE Absorb(g[k - 1], bs[k], {})
    <3>1. CASE k = m + 1
      <4>1. g[k] = Absorb(f[m], bs[m + 1], {}) /\ g[k - 1] = f[m] /\ k # 0
        BY <2>1, <3>1
      <4>2. QED
        BY <3>1, <4>1
    <3>2. CASE k = 0
      BY <2>1, <2>3, <3>2
    <3>3. CASE k # m + 1 /\ k # 0
      <4>1. g[k] = f[k] /\ g[k - 1] = f[k - 1] /\ k \in 0 .. m
        BY <2>1, <3>3
      <4>2. QED
        BY <2>3, <3>3, <4>1
    <3>4. QED
      BY <3>1, <3>2, <3>3
  <2>5. DOMAIN g = 0 .. m + 1 /\ g = [k \in 0 .. m + 1 |-> g[k]]
    OBVIOUS
  <2> HIDE DEF g
  <2>6. g = [k \in 0 .. m + 1 |-> IF k = 0 THEN <<>> ELSE Absorb(g[k - 1], bs[k], {})]
    BY <2>4, <2>5
  <2>7. QED
    BY <2>1, <2>6
<1>3. P \in SUBSET Nat
  OBVIOUS
<1> HIDE DEF P
<1>4. n \in P
  BY <1>1, <1>2, <1>3, NatInd
<1>5. QED
  BY <1>4 DEF P

LEMMA MergeFreeBlocksDef ==
  ASSUME NEW bs, Len(bs) \in Nat
  PROVE  \E f : /\ f[0] = <<>>
                /\ \A k \in 1 .. Len(bs) : f[k] = Absorb(f[k - 1], bs[k], {})
                /\ MergeFreeBlocks(bs, {}) = f[Len(bs)]
<1> DEFINE F == CHOOSE f : f = [k \in 0 .. Len(bs) |->
                                  IF k = 0 THEN <<>> ELSE Absorb(f[k - 1], bs[k], {})]
<1>1. F = [k \in 0 .. Len(bs) |-> IF k = 0 THEN <<>> ELSE Absorb(F[k - 1], bs[k], {})]
  BY MergedExists
<1>2. MergeFreeBlocks(bs, {}) = F[Len(bs)]
  BY DEF MergeFreeBlocks
<1> HIDE DEF F
<1>3. F[0] = <<>> /\ \A k \in 1 .. Len(bs) : F[k] = Absorb(F[k - 1], bs[k], {})
  BY <1>1
<1>4. QED
  BY <1>2, <1>3

(* The whole loop.                                                         *)
LEMMA MergeKeeps ==
  ASSUME NEW bs \in Seq(Blk), Tiles(bs)
  PROVE  MergedTo(bs, Len(bs), MergeFreeBlocks(bs, {}))
<1>1. Len(bs) \in Nat /\ 1 <= Len(bs)
  BY EmptySeq, LenProperties DEF Tiles
<1>2. PICK f : /\ f[0] = <<>>
               /\ \A k \in 1 .. Len(bs) : f[k] = Absorb(f[k - 1], bs[k], {})
               /\ MergeFreeBlocks(bs, {}) = f[Len(bs)]
  BY <1>1, MergeFreeBlocksDef
<1>3. /\ \A i \in 1 .. Len(bs) - 1 : bs[i + 1].addr = EndOf(bs[i])
      /\ \A i \in 1 .. Len(bs) : bs[i].size % 8 = 0
  BY DEF Tiles
<1> DEFINE P == { m \in Nat : m + 1 <= Len(bs) => MergedTo(bs, m + 1, f[m + 1]) }
<1>4. 0 \in P
  <2>1. bs[1] \in Blk /\ bs[1].size % 8 = 0
    BY <1>1, <1>3, ElementOfSeq
  <2> DEFINE acc == Absorb(<<>>, bs[1], {})
  <2>2. <<>> \in Seq(Blk) /\ Len(<<>>) = 0
    BY EmptySeq
  <2>3. acc \in Seq(Blk) /\ Len(acc) = 1 /\ acc[1] = bs[1]
    <3>1. PICK e \in Seq(Blk) : e = <<>> /\ Len(e) = 0
      BY <2>2
    <3>2. PICK b \in Blk : b = bs[1]
      BY <2>1
    <3>3. ~(e # <<>> /\ e[Len(e)].free /\ b.free)
      BY <3>1
    <3>4. /\ Absorb(e, b, {}) \in Seq(Blk) /\ Len(Absorb(e, b, {})) = Len(e) + 1
          /\ Absorb(e, b, {})[Len(e) + 1] = b
      BY <3>3, AbsorbPasses
    <3>5. QED
      BY <3>1, <3>2, <3>4
  <2> HIDE DEF acc
  <2>4. NoFreePair(acc)
    BY <2>3 DEF NoFreePair
  <2>5. \A b \in Blk : ~b.free => ((\E i \in 1 .. Len(acc) : acc[i] = b)
                                     <=> (\E i \in 1 .. 1 : bs[i] = b))
    BY <2>3
  <2>6. MergedTo(bs, 1, acc)
    BY <2>1, <2>3, <2>4, <2>5 DEF MergedTo
  <2>7. f[1] = acc
    BY <1>1, <1>2 DEF acc
  <2>8. QED
    BY <2>6, <2>7
<1>5. ASSUME NEW m \in P PROVE m + 1 \in P
  <2>1. m \in Nat
    OBVIOUS
  <2>2. SUFFICES ASSUME m + 2 <= Len(bs)
                 PROVE  MergedTo(bs, m + 2, f[m + 2])
    BY <2>1
  <2>3. MergedTo(bs, m + 1, f[m + 1])
    BY <1>1, <2>1, <2>2
  <2>4. m + 1 \in 1 .. Len(bs) - 1
    BY <1>1, <2>1, <2>2
  <2>5. PICK k \in 1 .. Len(bs) - 1 : k = m + 1
    BY <2>4
  <2>6. MergedTo(bs, k + 1, Absorb(f[k], bs[k + 1], {}))
    <3>1. MergedTo(bs, k, f[k]) /\ k + 1 \in 1 .. Len(bs)
      BY <1>1, <2>3, <2>5
    <3>2. bs[k + 1].addr = EndOf(bs[k]) /\ bs[k + 1].size % 8 = 0
      BY <1>3, <3>1
    <3>3. QED
      BY <3>1, <3>2, MergeTurn
  <2>7. f[k + 1] = Absorb(f[k], bs[k + 1], {})
    <3>1. k + 1 \in 1 .. Len(bs) /\ (k + 1) - 1 = k
      BY <1>1
    <3>2. QED
      BY <1>2, <3>1
  <2>8. k + 1 = m + 2
    BY <2>1, <2>5
  <2>9. QED
    BY <2>6, <2>7, <2>8
<1>6. P \in SUBSET Nat
  OBVIOUS
<1> HIDE DEF P
<1>7. P = Nat
  BY <1>4, <1>5, <1>6, NatInd
<1>8. Len(bs) - 1 \in P
  BY <1>1, <1>7
<1>9. MergedTo(bs, Len(bs) - 1 + 1, f[Len(bs) - 1 + 1])
  BY <1>1, <1>8 DEF P
<1>10. QED
  BY <1>1, <1>2, <1>9

(* What free gets from it: a tiling with no two free neighbours and the    *)
(* same allocated blocks.                                                  *)
LEMMA Merged ==
  ASSUME NEW bs \in Seq(Blk), Tiles(bs)
  PROVE  /\ MergeFreeBlocks(bs, {}) \in Seq(Blk)
         /\ Tiles(MergeFreeBlocks(bs, {}))
         /\ NoFreePair(MergeFreeBlocks(bs, {}))
         /\ Taken(MergeFreeBlocks(bs, {})) = Taken(bs)
<1> DEFINE t == MergeFreeBlocks(bs, {})
<1>1. MergedTo(bs, Len(bs), t)
  BY MergeKeeps
<1> HIDE DEF t
<1>2. t \in Seq(Blk) /\ t # <<>> /\ NoFreePair(t)
  <2>1. t \in Seq(Blk) /\ 1 <= Len(t) /\ NoFreePair(t)
    BY <1>1 DEF MergedTo
  <2>2. QED
    BY <2>1, EmptySeq
<1>3. Tiles(t)
  BY <1>1, <1>2 DEF MergedTo, Tiles
<1>4. Taken(t) = Taken(bs)
  BY <1>1 DEF MergedTo, Taken
<1>5. QED
  BY <1>2, <1>3, <1>4 DEF t

-----------------------------------------------------------------------------
(* In a tiling a later block lies wholly after an earlier one, and every   *)
(* block lies in the heap.                                                 *)
LEMMA Ascending ==
  ASSUME NEW bs \in Seq(Blk), Tiles(bs), NEW i \in 1 .. Len(bs)
  PROVE  \A j \in i + 1 .. Len(bs) : EndOf(bs[i]) <= bs[j].addr
<1>1. Len(bs) \in Nat /\ HeaderSize \in Nat
  BY LenProperties, Sizes
<1>2. \A j \in 1 .. Len(bs) : bs[j].addr \in Nat /\ bs[j].size \in Nat
  BY BlockNumbers
<1>3. \A j \in 1 .. Len(bs) : EndOf(bs[j]) \in Nat /\ bs[j].addr <= EndOf(bs[j])
  BY <1>1, <1>2 DEF EndOf
<1>4. \A j \in 1 .. Len(bs) - 1 : bs[j + 1].addr = EndOf(bs[j])
  BY DEF Tiles
<1> DEFINE P == { m \in Nat : i + 1 + m <= Len(bs)
                                => EndOf(bs[i]) <= bs[i + 1 + m].addr }
<1>5. 0 \in P
  <2>1. SUFFICES ASSUME i + 1 <= Len(bs) PROVE EndOf(bs[i]) <= bs[i + 1].addr
    BY <1>1
  <2>2. i \in 1 .. Len(bs) - 1
    BY <1>1, <2>1
  <2>3. QED
    BY <1>3, <1>4, <2>2
<1>6. ASSUME NEW m \in P PROVE m + 1 \in P
  <2>1. m \in Nat
    OBVIOUS
  <2>2. SUFFICES ASSUME i + 1 + (m + 1) <= Len(bs)
                 PROVE  EndOf(bs[i]) <= bs[i + 1 + (m + 1)].addr
    BY <2>1
  <2>3. i + 1 + m \in 1 .. Len(bs) - 1 /\ i + 1 + m \in 1 .. Len(bs)
    BY <1>1, <2>1, <2>2
  <2>4. EndOf(bs[i]) <= bs[i + 1 + m].addr
    BY <1>1, <2>1, <2>3
  <2>5. PICK k \in 1 .. Len(bs) - 1 : k = i + 1 + m
    BY <2>3
  <2>6. bs[k + 1].addr = EndOf(bs[k]) /\ bs[k].addr <= EndOf(bs[k])
    BY <1>1, <1>3, <1>4
  <2>7. k \in 1 .. Len(bs) /\ k + 1 \in 1 .. Len(bs)
    BY <1>1
  <2>8. EndOf(bs[i]) \in Nat /\ bs[k].addr \in Nat /\ bs[k + 1].addr \in Nat
    BY <1>2, <1>3, <2>7
  <2>9. EndOf(bs[i]) <= bs[k + 1].addr
    BY <2>4, <2>5, <2>6, <2>8
  <2>10. k + 1 = i + 1 + (m + 1)
    BY <2>1, <2>5
  <2>11. QED
    BY <2>9, <2>10
<1>7. P \in SUBSET Nat
  OBVIOUS
<1> HIDE DEF P
<1>8. P = Nat
  BY <1>5, <1>6, <1>7, NatInd
<1>9. TAKE j \in i + 1 .. Len(bs)
<1>10. j - (i + 1) \in P /\ i + 1 + (j - (i + 1)) = j /\ j <= Len(bs)
  BY <1>1, <1>8
<1>11. QED
  BY <1>10 DEF P

LEMMA Located ==
  ASSUME NEW bs \in Seq(Blk), Tiles(bs)
  PROVE  /\ \A i \in 1 .. Len(bs) : EndOf(bs[i]) <= HeapSize
         /\ \A i, j \in 1 .. Len(bs) : bs[i].addr = bs[j].addr => i = j
<1>1. Len(bs) \in Nat /\ 1 <= Len(bs) /\ HeaderSize \in Nat \ {0} /\ HeapSize \in Nat
  BY EmptySeq, LenProperties, Sizes DEF Tiles
<1>2. \A j \in 1 .. Len(bs) : bs[j].addr \in Nat /\ bs[j].size \in Nat
  BY BlockNumbers
<1>3. \A j \in 1 .. Len(bs) : EndOf(bs[j]) \in Nat /\ bs[j].addr < EndOf(bs[j])
  BY <1>1, <1>2 DEF EndOf
<1>4. \A i, j \in 1 .. Len(bs) : i < j => EndOf(bs[i]) <= bs[j].addr
  <2>1. TAKE i, j \in 1 .. Len(bs)
  <2>2. HAVE i < j
  <2>3. j \in i + 1 .. Len(bs)
    BY <1>1, <2>2
  <2>4. QED
    BY <2>3, Ascending
<1>5. EndOf(bs[Len(bs)]) = HeapSize /\ Len(bs) \in 1 .. Len(bs)
  BY <1>1 DEF Tiles
<1>6. ASSUME NEW i \in 1 .. Len(bs) PROVE EndOf(bs[i]) <= HeapSize
  <2>1. CASE i = Len(bs)
    BY <1>1, <1>5, <2>1
  <2>2. CASE i # Len(bs)
    <3>1. i < Len(bs)
      BY <1>1, <2>2
    <3>2. EndOf(bs[i]) <= bs[Len(bs)].addr
      BY <1>4, <1>5, <3>1
    <3>3. bs[Len(bs)].addr < HeapSize /\ bs[Len(bs)].addr \in Nat
      BY <1>2, <1>3, <1>5
    <3>4. EndOf(bs[i]) \in Nat
      BY <1>3
    <3>5. QED
      BY <1>1, <3>2, <3>3, <3>4
  <2>3. QED
    BY <2>1, <2>2
<1>7. ASSUME NEW i \in 1 .. Len(bs), NEW j \in 1 .. Len(bs), i < j
      PROVE  bs[i].addr # bs[j].addr
  <2>1. EndOf(bs[i]) <= bs[j].addr /\ bs[i].addr < EndOf(bs[i])
    BY <1>3, <1>4, <1>7
  <2>2. EndOf(bs[i]) \in Nat /\ bs[i].addr \in Nat /\ bs[j].addr \in Nat
    BY <1>2, <1>3
  <2>3. QED
    BY <2>1, <2>2
<1>8. \A i, j \in 1 .. Len(bs) : i = j \/ i < j \/ j < i
  BY <1>1
<1>9. QED
  BY <1>6, <1>7, <1>8

-----------------------------------------------------------------------------
(* split_block and malloc's marking, element by element.                   *)

LEMMA PairInSeq ==
  ASSUME NEW S, NEW x \in S, NEW y \in S
  PROVE  <<x, y>> \in Seq(S) /\ Len(<<x, y>>) = 2 /\ <<x, y>>[1] = x /\ <<x, y>>[2] = y
  OBVIOUS

LEMMA SplitElements ==
  ASSUME NEW bs \in Seq(Blk), NEW i \in 1 .. Len(bs), NEW size \in Nat,
         bs[i].size > size + HeaderSize + 16
  PROVE  LET t == SplitBlock(bs, i, size)
         IN  /\ t \in Seq(Blk) /\ Len(t) = Len(bs) + 1
             /\ \A j \in 1 .. i - 1 : t[j] = bs[j]
             /\ t[i] = Block(bs[i].addr, size, bs[i].free)
             /\ t[i + 1] = Block(bs[i].addr + HeaderSize + size,
                                 bs[i].size - size - HeaderSize, TRUE)
             /\ \A j \in i + 2 .. Len(bs) + 1 : t[j] = bs[j - 1]
<1>1. Len(bs) \in Nat /\ HeaderSize \in Nat /\ i \in Int
  BY LenProperties, Sizes
<1>2. \A j \in 1 .. Len(bs) : bs[j] \in Blk
  BY ElementOfSeq
<1>3. PICK b \in Blk : b = bs[i]
  BY <1>2
<1>4. b.addr \in Nat /\ b.size \in Nat /\ b.free \in BOOLEAN
  BY DEF Blk
<1> DEFINE x == Block(b.addr, size, b.free)
           y == Block(b.addr + HeaderSize + size, b.size - size - HeaderSize, TRUE)
           l == SubSeq(bs, 1, i - 1)
           r == SubSeq(bs, i + 1, Len(bs))
<1>5. x \in Blk
  BY <1>4 DEF Blk, Block
<1>6. y \in Blk
  <2>1. b.size - size - HeaderSize \in Nat /\ b.addr + HeaderSize + size \in Nat
    BY <1>1, <1>3, <1>4
  <2>2. QED
    BY <2>1 DEF Blk, Block
<1>7. [bs[i] EXCEPT !.size = size] = x
  <2>1. b = [addr |-> b.addr, size |-> b.size, free |-> b.free]
    BY DEF Blk
  <2>2. [b EXCEPT !.size = size] = [addr |-> b.addr, size |-> size, free |-> b.free]
    <3>1. PICK a, z, u : b = [addr |-> a, size |-> z, free |-> u]
      BY ONLY <2>1
    <3>2. b.addr = a /\ b.free = u
      BY ONLY <3>1
    <3>3. [b EXCEPT !.size = size] = [addr |-> a, size |-> size, free |-> u]
      BY ONLY <3>1
    <3>4. QED
      BY ONLY <3>2, <3>3
  <2>3. QED
    BY ONLY <1>3, <2>2 DEF Block
<1>8. SplitBlock(bs, i, size) = l \o <<x, y>> \o r
  BY <1>3, <1>7 DEF SplitBlock
<1>9. /\ l \in Seq(Blk) /\ Len(l) = i - 1
      /\ \A j \in 1 .. i - 1 : l[j] = bs[j]
  <2>1. \A j \in 1 .. i - 1 : bs[j] \in Blk
    BY <1>1, <1>2
  <2>2. i - 1 \in Int
    BY <1>1
  <2>3. /\ l \in Seq(Blk)
        /\ Len(l) = IF 1 <= i - 1 THEN i - 1 - 1 + 1 ELSE 0
        /\ \A j \in 1 .. i - 1 - 1 + 1 : l[j] = bs[1 + j - 1]
    BY <2>1, <2>2, SubSeqProperties
  <2> HIDE DEF l
  <2>4. QED
    BY <1>1, <2>3
<1>10. /\ r \in Seq(Blk) /\ Len(r) = Len(bs) - i
       /\ \A j \in 1 .. Len(bs) - i : r[j] = bs[i + j]
  <2>1. \A j \in i + 1 .. Len(bs) : bs[j] \in Blk
    BY <1>1, <1>2
  <2>2. i + 1 \in Int /\ Len(bs) \in Int
    BY <1>1
  <2>3. /\ r \in Seq(Blk)
        /\ Len(r) = IF i + 1 <= Len(bs) THEN Len(bs) - (i + 1) + 1 ELSE 0
        /\ \A j \in 1 .. Len(bs) - (i + 1) + 1 : r[j] = bs[i + 1 + j - 1]
    BY <2>1, <2>2, SubSeqProperties
  <2> HIDE DEF r
  <2>4. Len(r) = Len(bs) - i
    BY <1>1, <2>3
  <2>5. ASSUME NEW j \in 1 .. Len(bs) - i PROVE r[j] = bs[i + j]
    <3>1. j \in 1 .. Len(bs) - (i + 1) + 1 /\ i + 1 + j - 1 = i + j
      BY <1>1
    <3>2. QED
      BY <2>3, <3>1
  <2>6. QED
    BY <2>3, <2>4, <2>5
<1> DEFINE p == <<x, y>>
<1> HIDE DEF x, y, l, r
<1>11. p \in Seq(Blk) /\ Len(p) = 2 /\ p[1] = x /\ p[2] = y
  BY <1>5, <1>6, PairInSeq
<1> HIDE DEF p
<1> DEFINE lp == l \o p
<1>12. /\ lp \in Seq(Blk) /\ Len(lp) = i + 1
       /\ \A j \in 1 .. i + 1 : lp[j] = IF j <= i - 1 THEN l[j] ELSE p[j - (i - 1)]
  <2>1. /\ lp \in Seq(Blk) /\ Len(lp) = Len(l) + Len(p)
        /\ \A j \in 1 .. Len(l) + Len(p) :
             lp[j] = IF j <= Len(l) THEN l[j] ELSE p[j - Len(l)]
    BY <1>9, <1>11, ConcatProperties
  <2>2. Len(l) + Len(p) = i + 1
    BY <1>1, <1>9, <1>11
  <2> HIDE DEF lp
  <2>3. QED
    BY <1>9, <2>1, <2>2
<1> HIDE DEF lp
<1> DEFINE t == lp \o r
<1>13. /\ t \in Seq(Blk) /\ Len(t) = Len(bs) + 1
       /\ \A j \in 1 .. Len(bs) + 1 :
            t[j] = IF j <= i + 1 THEN lp[j] ELSE r[j - (i + 1)]
  <2>1. /\ t \in Seq(Blk) /\ Len(t) = Len(lp) + Len(r)
        /\ \A j \in 1 .. Len(lp) + Len(r) :
             t[j] = IF j <= Len(lp) THEN lp[j] ELSE r[j - Len(lp)]
    BY <1>10, <1>12, ConcatProperties
  <2>2. Len(lp) + Len(r) = Len(bs) + 1
    BY <1>1, <1>10, <1>12
  <2> HIDE DEF t
  <2>3. QED
    BY <1>12, <2>1, <2>2
<1>14. SplitBlock(bs, i, size) = t
  BY <1>8 DEF t, lp, p
<1> HIDE DEF t
<1>15. ASSUME NEW j \in 1 .. i - 1 PROVE t[j] = bs[j]
  <2>1. j \in 1 .. Len(bs) + 1 /\ j <= i + 1 /\ j \in 1 .. i + 1 /\ j <= i - 1
    BY <1>1
  <2>2. QED
    BY <1>9, <1>12, <1>13, <2>1
<1>16. t[i] = x
  <2>1. i \in 1 .. Len(bs) + 1 /\ i <= i + 1 /\ i \in 1 .. i + 1
        /\ ~(i <= i - 1) /\ i - (i - 1) = 1
    BY <1>1
  <2>2. QED
    BY <1>11, <1>12, <1>13, <2>1
<1>17. t[i + 1] = y
  <2>1. i + 1 \in 1 .. Len(bs) + 1 /\ i + 1 <= i + 1 /\ i + 1 \in 1 .. i + 1
        /\ ~(i + 1 <= i - 1) /\ (i + 1) - (i - 1) = 2
    BY <1>1
  <2>2. QED
    BY <1>11, <1>12, <1>13, <2>1
<1>18. ASSUME NEW j \in i + 2 .. Len(bs) + 1 PROVE t[j] = bs[j - 1]
  <2>1. j \in 1 .. Len(bs) + 1 /\ ~(j <= i + 1) /\ j - (i + 1) \in 1 .. Len(bs) - i
        /\ i + (j - (i + 1)) = j - 1
    BY <1>1
  <2>2. QED
    BY <1>10, <1>13, <2>1
<1>19. QED
  BY <1>3, <1>13, <1>14, <1>15, <1>16, <1>17, <1>18 DEF x, y

(* What a block list with one block allocated is: a tiling again, without  *)
(* free neighbours if it had none, and one more block taken.               *)
Granted(bs, i, size, t) ==
  /\ t \in Seq(Blk) /\ Tiles(t)
  /\ NoFreePair(bs) => NoFreePair(t)
  /\ i \in 1 .. Len(t)
  /\ t[i].addr = bs[i].addr /\ ~t[i].free /\ t[i].size >= size
  /\ t[i].size <= bs[i].size
  /\ Taken(t) = Taken(bs) \cup {t[i]}

LEMMA Remarked ==
  ASSUME NEW b \in Blk, NEW f \in BOOLEAN
  PROVE  [b EXCEPT !.free = f] = [addr |-> b.addr, size |-> b.size, free |-> f]
  BY DEF Blk

(* A block at i marked allocated, without a split.                         *)
LEMMA MarkedWhole ==
  ASSUME NEW bs \in Seq(Blk), Tiles(bs), NEW i \in 1 .. Len(bs),
         NEW size \in Nat, bs[i].free, bs[i].size >= size
  PROVE  Granted(bs, i, size, [bs EXCEPT ![i].free = FALSE])
<1>1. PICK b \in Blk : b = bs[i]
  BY ElementOfSeq
<1> DEFINE c == [addr |-> b.addr, size |-> b.size, free |-> FALSE]
<1>2. c \in Blk /\ [b EXCEPT !.free = FALSE] = c
  <2>1. c \in Blk
    BY DEF Blk
  <2>2. [b EXCEPT !.free = FALSE] = c
    BY Remarked, Zenon
  <2>3. QED
    BY <2>1, <2>2
<1>3. c.addr = b.addr /\ c.size = b.size /\ ~c.free /\ b.size \in Nat
  BY DEF Blk
<1> HIDE DEF c
<1> DEFINE t == [bs EXCEPT ![i] = c]
<1>4. [bs EXCEPT ![i].free = FALSE] = t
  BY <1>1, <1>2
<1>5. /\ t \in Seq(Blk) /\ Len(t) = Len(bs)
      /\ \A j \in 1 .. Len(bs) : t[j] = IF j = i THEN c ELSE bs[j]
  BY <1>2, ExceptSeq
<1> HIDE DEF t
<1>6. Len(bs) \in Nat /\ 1 <= Len(bs)
  BY EmptySeq, LenProperties DEF Tiles
<1>7. \A j \in 1 .. Len(bs) : t[j].addr = bs[j].addr /\ t[j].size = bs[j].size
                              /\ EndOf(t[j]) = EndOf(bs[j])
  BY <1>1, <1>3, <1>5 DEF EndOf
<1>8. Tiles(t)
  <2>1. t # <<>>
    BY <1>5, <1>6, EmptySeq
  <2>2. \A j \in 1 .. Len(t) - 1 : j \in 1 .. Len(bs) /\ j + 1 \in 1 .. Len(bs)
    BY <1>5, <1>6
  <2>3. \A j \in 1 .. Len(t) - 1 : t[j + 1].addr = EndOf(t[j])
    BY <1>5, <1>7, <2>2 DEF Tiles
  <2>4. QED
    BY <1>5, <1>6, <1>7, <2>1, <2>3 DEF Tiles
<1>9. NoFreePair(bs) => NoFreePair(t)
  <2>1. \A j \in 1 .. Len(t) - 1 : j \in 1 .. Len(bs) /\ j + 1 \in 1 .. Len(bs)
    BY <1>5, <1>6
  <2>2. QED
    BY <1>3, <1>5, <2>1 DEF NoFreePair
<1>10. Taken(t) = Taken(bs) \cup {t[i]}
  <2>1. t[i] = c /\ bs[i] = b /\ b.free
    BY <1>1, <1>5
  <2>2. \A d \in Blk : ~d.free =>
          ((\E j \in 1 .. Len(t) : t[j] = d)
             <=> (\E j \in 1 .. Len(bs) : bs[j] = d) \/ d = c)
    BY <1>5, <2>1
  <2>3. QED
    BY <1>2, <1>3, <2>1, <2>2 DEF Taken
<1>11. /\ i \in 1 .. Len(t) /\ t[i].addr = bs[i].addr /\ ~t[i].free
       /\ t[i].size >= size /\ t[i].size <= bs[i].size
  BY <1>1, <1>3, <1>5
<1>12. QED
  BY <1>4, <1>5, <1>8, <1>9, <1>10, <1>11 DEF Granted

LEMMA SplitSum ==
  ASSUME NEW a \in Nat, NEW h \in Nat, NEW x \in Nat, NEW z \in Nat
  PROVE  (a + h + x) + h + (z - x - h) = a + h + z
  OBVIOUS

LEMMA RestOfEights ==
  ASSUME NEW x \in Nat, NEW y \in Nat, NEW z \in Nat,
         x % 8 = 0, y % 8 = 0, z % 8 = 0, x > y + z
  PROVE  (x - y - z) % 8 = 0
  OBVIOUS

(* A block at i split, and its first part marked allocated.                *)
LEMMA MarkedSplit ==
  ASSUME NEW bs \in Seq(Blk), Tiles(bs), NEW i \in 1 .. Len(bs),
         NEW size \in Nat, size % 8 = 0,
         bs[i].free, bs[i].size > size + HeaderSize + 16
  PROVE  Granted(bs, i, size, [SplitBlock(bs, i, size) EXCEPT ![i].free = FALSE])
<1>1. PICK s \in Seq(Blk) :
        /\ s = SplitBlock(bs, i, size) /\ Len(s) = Len(bs) + 1
        /\ \A j \in 1 .. i - 1 : s[j] = bs[j]
        /\ s[i] = Block(bs[i].addr, size, bs[i].free)
        /\ s[i + 1] = Block(bs[i].addr + HeaderSize + size,
                            bs[i].size - size - HeaderSize, TRUE)
        /\ \A j \in i + 2 .. Len(bs) + 1 : s[j] = bs[j - 1]
  BY SplitElements
<1>2. Len(bs) \in Nat /\ 1 <= Len(bs) /\ HeaderSize \in Nat /\ HeapSize \in Nat
  BY EmptySeq, LenProperties, Sizes DEF Tiles
<1>3. i \in 1 .. Len(s) /\ i + 1 \in 1 .. Len(s)
  BY <1>1, <1>2
<1>4. PICK b \in Blk : b = s[i]
  BY <1>3, ElementOfSeq
<1> DEFINE c == [addr |-> b.addr, size |-> b.size, free |-> FALSE]
<1>5. c \in Blk
  BY DEF Blk
<1>6. [b EXCEPT !.free = FALSE] = c
  BY Remarked, Zenon
<1>7. c.addr = bs[i].addr /\ c.size = size /\ ~c.free
  BY <1>1, <1>4 DEF Block
<1> HIDE DEF c
<1> DEFINE t == [s EXCEPT ![i] = c]
<1>8. [s EXCEPT ![i].free = FALSE] = t
  BY <1>4, <1>6
<1>9. /\ t \in Seq(Blk) /\ Len(t) = Len(s)
      /\ \A j \in 1 .. Len(s) : t[j] = IF j = i THEN c ELSE s[j]
  BY <1>3, <1>5, ExceptSeq
<1> HIDE DEF t
<1>10. Len(t) = Len(bs) + 1 /\ t[i] = c /\ t[i + 1] = s[i + 1]
  <2>1. Len(t) = Len(bs) + 1
    BY <1>1, <1>9
  <2>2. i + 1 # i
    OBVIOUS
  <2>3. QED
    BY <1>3, <1>9, <2>1, <2>2
<1>11. \A j \in 1 .. i - 1 : t[j] = bs[j]
  BY <1>1, <1>2, <1>9
<1>12. \A j \in i + 2 .. Len(bs) + 1 : t[j] = bs[j - 1]
  <2>1. TAKE j \in i + 2 .. Len(bs) + 1
  <2>2. j \in 1 .. Len(s) /\ j # i
    BY <1>1, <1>2
  <2>3. QED
    BY <1>1, <1>9, <2>2
<1>13. \A j \in 1 .. Len(bs) : bs[j].addr \in Nat /\ bs[j].size \in Nat
  BY BlockNumbers
<1>14. /\ t[i + 1].addr = bs[i].addr + HeaderSize + size
       /\ t[i + 1].size = bs[i].size - size - HeaderSize
       /\ t[i + 1].free
  BY <1>1, <1>10 DEF Block
<1>15. t[i + 1].addr = EndOf(t[i])
  BY <1>7, <1>10, <1>14 DEF EndOf
<1>16. EndOf(t[i + 1]) = EndOf(bs[i])
  <2>1. bs[i].addr \in Nat /\ bs[i].size \in Nat
    BY <1>13
  <2>2. (bs[i].addr + HeaderSize + size) + HeaderSize + (bs[i].size - size - HeaderSize)
          = bs[i].addr + HeaderSize + bs[i].size
    <3>1. PICK a \in Nat, z \in Nat : a = bs[i].addr /\ z = bs[i].size
      BY <2>1
    <3>2. (a + HeaderSize + size) + HeaderSize + (z - size - HeaderSize)
            = a + HeaderSize + z
      BY <1>2, SplitSum
    <3>3. QED
      BY <3>1, <3>2
  <2>3. QED
    BY <1>14, <2>2 DEF EndOf
<1>17. /\ \A j \in 1 .. Len(bs) - 1 : bs[j + 1].addr = EndOf(bs[j])
       /\ \A j \in 1 .. Len(bs) : bs[j].size % 8 = 0
       /\ bs[1].addr = 0 /\ EndOf(bs[Len(bs)]) = HeapSize
  BY DEF Tiles
<1>18. Tiles(t)
  <2>1. t # <<>>
    BY <1>2, <1>9, <1>10, EmptySeq
  <2>2. t[1].addr = 0
    <3>1. CASE i = 1
      BY <1>7, <1>10, <1>17, <3>1
    <3>2. CASE i # 1
      <4>1. 1 \in 1 .. i - 1
        BY <1>2, <3>2
      <4>2. t[1] = bs[1]
        BY <1>11, <4>1
      <4>3. QED
        BY <1>17, <4>2
    <3>3. QED
      BY <3>1, <3>2
  <2>3. ASSUME NEW j \in 1 .. Len(t) - 1 PROVE t[j + 1].addr = EndOf(t[j])
    <3>1. CASE j + 1 < i
      <4>1. j \in 1 .. i - 1 /\ j + 1 \in 1 .. i - 1 /\ j \in 1 .. Len(bs) - 1
        BY <1>2, <3>1
      <4>2. QED
        BY <1>11, <1>17, <4>1
    <3>2. CASE j + 1 = i
      <4>1. j \in 1 .. i - 1 /\ j \in 1 .. Len(bs) - 1
        BY <1>2, <3>2
      <4>2. QED
        BY <1>7, <1>10, <1>11, <1>17, <3>2, <4>1
    <3>3. CASE j = i
      BY <1>15, <3>3
    <3>4. CASE j = i + 1
      <4>1. j + 1 \in i + 2 .. Len(bs) + 1 /\ (j + 1) - 1 = i + 1 /\ i \in 1 .. Len(bs) - 1
        BY <1>2, <1>10, <3>4
      <4>2. t[j + 1] = bs[i + 1]
        BY <1>12, <4>1
      <4>3. bs[i + 1].addr = EndOf(bs[i])
        BY <1>17, <4>1
      <4>4. QED
        BY <1>16, <3>4, <4>2, <4>3
    <3>5. CASE j > i + 1
      <4>1. /\ j + 1 \in i + 2 .. Len(bs) + 1 /\ (j + 1) - 1 = (j - 1) + 1
            /\ j \in i + 2 .. Len(bs) + 1 /\ j - 1 \in 1 .. Len(bs) - 1
        BY <1>2, <1>10, <3>5
      <4>2. t[j + 1] = bs[(j - 1) + 1] /\ t[j] = bs[j - 1]
        BY ONLY <1>12, <4>1
      <4>3. bs[(j - 1) + 1].addr = EndOf(bs[j - 1])
        BY <1>17, <4>1
      <4>4. QED
        BY ONLY <4>2, <4>3
    <3>6. QED
      BY <1>2, <1>10, <3>1, <3>2, <3>3, <3>4, <3>5
  <2>4. EndOf(t[Len(t)]) = HeapSize
    <3>1. CASE i = Len(bs)
      BY <1>10, <1>16, <1>17, <3>1
    <3>2. CASE i # Len(bs)
      <4>1. Len(bs) + 1 \in i + 2 .. Len(bs) + 1 /\ Len(bs) + 1 - 1 = Len(bs)
        BY <1>2, <3>2
      <4>2. QED
        BY <1>10, <1>12, <1>17, <4>1
    <3>3. QED
      BY <3>1, <3>2
  <2>5. ASSUME NEW j \in 1 .. Len(t) PROVE t[j].size % 8 = 0
    <3>1. CASE j < i
      <4>1. j \in 1 .. i - 1 /\ j \in 1 .. Len(bs)
        BY <1>2, <3>1
      <4>2. QED
        BY <1>11, <1>17, <4>1
    <3>2. CASE j = i
      BY <1>7, <1>10, <3>2
    <3>3. CASE j = i + 1
      <4>1. bs[i].size \in Nat /\ bs[i].size % 8 = 0 /\ bs[i].size > size + HeaderSize
        BY <1>2, <1>13, <1>17
      <4>2. (bs[i].size - size - HeaderSize) % 8 = 0
        BY <4>1, Sizes, RestOfEights
      <4>3. QED
        BY <1>14, <3>3, <4>2
    <3>4. CASE j > i + 1
      <4>1. j \in i + 2 .. Len(bs) + 1 /\ j - 1 \in 1 .. Len(bs)
        BY <1>2, <1>10, <3>4
      <4>2. QED
        BY <1>12, <1>17, <4>1
    <3>5. QED
      BY <1>2, <1>10, <3>1, <3>2, <3>3, <3>4
  <2>6. QED
    BY <2>1, <2>2, <2>3, <2>4, <2>5 DEF Tiles
<1>19. NoFreePair(bs) => NoFreePair(t)
  <2>1. HAVE NoFreePair(bs)
  <2>2. \A j \in 1 .. Len(bs) - 1 : ~(bs[j].free /\ bs[j + 1].free)
    BY <2>1 DEF NoFreePair
  <2>3. ASSUME NEW j \in 1 .. Len(t) - 1 PROVE ~(t[j].free /\ t[j + 1].free)
    <3>1. CASE j + 1 < i
      <4>1. j \in 1 .. i - 1 /\ j + 1 \in 1 .. i - 1 /\ j \in 1 .. Len(bs) - 1
        BY <1>2, <3>1
      <4>2. QED
        BY <1>11, <2>2, <4>1
    <3>2. CASE j + 1 = i \/ j = i
      BY <1>7, <1>10, <3>2
    <3>3. CASE j = i + 1
      <4>1. j + 1 \in i + 2 .. Len(bs) + 1 /\ (j + 1) - 1 = i + 1 /\ i \in 1 .. Len(bs) - 1
        BY <1>2, <1>10, <3>3
      <4>2. t[j + 1] = bs[i + 1] /\ ~bs[i + 1].free
        BY <1>12, <2>2, <4>1
      <4>3. QED
        BY <4>2
    <3>4. CASE j > i + 1
      <4>1. /\ j + 1 \in i + 2 .. Len(bs) + 1 /\ (j + 1) - 1 = (j - 1) + 1
            /\ j \in i + 2 .. Len(bs) + 1 /\ j - 1 \in 1 .. Len(bs) - 1
        BY <1>2, <1>10, <3>4
      <4>2. QED
        BY <1>12, <2>2, <4>1
    <3>5. QED
      BY <1>2, <1>10, <3>1, <3>2, <3>3, <3>4
  <2>4. QED
    BY <2>3 DEF NoFreePair
<1>20. Taken(t) = Taken(bs) \cup {t[i]}
  <2>1. ASSUME NEW d \in Blk, ~d.free, NEW j \in 1 .. Len(t), t[j] = d
        PROVE  d = c \/ \E k \in 1 .. Len(bs) : bs[k] = d
    <3>1. CASE j < i
      <4>1. j \in 1 .. i - 1 /\ j \in 1 .. Len(bs)
        BY <1>2, <3>1
      <4>2. QED
        BY <1>11, <2>1, <4>1
    <3>2. CASE j = i
      BY <1>10, <2>1, <3>2
    <3>3. CASE j = i + 1
      BY <1>14, <2>1, <3>3
    <3>4. CASE j > i + 1
      <4>1. j \in i + 2 .. Len(bs) + 1 /\ j - 1 \in 1 .. Len(bs)
        BY <1>2, <1>10, <3>4
      <4>2. QED
        BY <1>12, <2>1, <4>1
    <3>5. QED
      BY <1>2, <1>10, <3>1, <3>2, <3>3, <3>4
  <2>2. ASSUME NEW d \in Blk, ~d.free, NEW k \in 1 .. Len(bs), bs[k] = d
        PROVE  \E j \in 1 .. Len(t) : t[j] = d
    <3>1. CASE k < i
      <4>1. k \in 1 .. i - 1 /\ k \in 1 .. Len(t)
        BY <1>2, <1>10, <3>1
      <4>2. QED
        BY <1>11, <2>2, <4>1
    <3>2. CASE k = i
      BY <2>2, <3>2
    <3>3. CASE k > i
      <4>1. k + 1 \in i + 2 .. Len(bs) + 1 /\ k + 1 \in 1 .. Len(t) /\ (k + 1) - 1 = k
        BY <1>2, <1>10, <3>3
      <4>2. t[k + 1] = d
        BY <1>12, <2>2, <4>1
      <4>3. QED
        BY <4>1, <4>2
    <3>4. QED
      BY <1>2, <3>1, <3>2, <3>3
  <2>3. i \in 1 .. Len(t) /\ t[i] = c
    BY <1>3, <1>9, <1>10
  <2>4. \A d \in Blk : ~d.free =>
          ((\E j \in 1 .. Len(t) : t[j] = d)
             <=> (\E j \in 1 .. Len(bs) : bs[j] = d) \/ d = c)
    BY <2>1, <2>2, <2>3
  <2>5. QED
    BY <1>5, <1>7, <2>3, <2>4 DEF Taken
<1>21. /\ i \in 1 .. Len(t) /\ t[i].addr = bs[i].addr /\ ~t[i].free
       /\ t[i].size >= size /\ t[i].size <= bs[i].size
  <2>1. size <= bs[i].size
    BY <1>2, <1>13
  <2>2. t[i].addr = bs[i].addr /\ t[i].size = size /\ ~t[i].free
    BY <1>7, <1>10
  <2>3. i \in 1 .. Len(t) /\ size >= size
    BY <1>3, <1>9
  <2>4. QED
    BY <2>1, <2>2, <2>3
<1>22. QED
  BY <1>1, <1>8, <1>9, <1>18, <1>19, <1>20, <1>21 DEF Granted

-----------------------------------------------------------------------------
(* malloc's rounding, find_free_block's choice, and what both calls leave. *)

LEMMA Aligned ==
  ASSUME NEW n \in Nat
  PROVE  /\ AlignUp(n) \in Nat /\ AlignUp(n) % 8 = 0
         /\ n + 7 < SizeMod => AlignUp(n) >= n
<1> DEFINE m == (n + 7) % SizeMod
<1>1. m \in Nat /\ (n + 7 < SizeMod => m = n + 7)
  <2>1. SizeMod \in Nat \ {0}
    BY Sizes
  <2>2. QED
    BY <2>1
<1>2. AlignUp(n) = (m \div 8) * 8
  BY DEF AlignUp
<1> HIDE DEF m
<1>3. (m \div 8) * 8 \in Nat /\ ((m \div 8) * 8) % 8 = 0 /\ (m \div 8) * 8 + 7 >= m
  BY <1>1
<1>4. QED
  BY <1>1, <1>2, <1>3

LEMMA Chosen ==
  ASSUME NEW bs \in Seq(Blk), NEW size \in Nat, Candidates(bs, size, {}) # {}
  PROVE  LET i == FindFreeBlock(bs, size, {})
         IN  i \in 1 .. Len(bs) /\ bs[i].free /\ bs[i].size >= size
<1>1. DOMAIN bs = 1 .. Len(bs)
  BY LenProperties
<1>2. Candidates(bs, size, {}) \in SUBSET Nat
  BY <1>1 DEF Candidates
<1>3. \E x \in Candidates(bs, size, {}) : \A y \in Candidates(bs, size, {}) : x <= y
  BY <1>2, NatMin
<1>4. FindFreeBlock(bs, size, {}) \in Candidates(bs, size, {})
  BY <1>3 DEF FindFreeBlock, Min
<1>5. QED
  BY <1>1, <1>4 DEF Candidates

LEMMA AllocatedList ==
  ASSUME NEW bs \in Seq(Blk), Tiles(bs), NEW n \in Nat,
         Candidates(bs, AlignUp(n), {}) # {}
  PROVE  LET i == FindFreeBlock(bs, AlignUp(n), {})
         IN  /\ i \in 1 .. Len(bs) /\ bs[i].free
             /\ Granted(bs, i, AlignUp(n), Allocate(bs, i, AlignUp(n)))
<1>1. PICK size \in Nat : size = AlignUp(n) /\ size % 8 = 0
  BY Aligned
<1>2. PICK i \in 1 .. Len(bs) : /\ i = FindFreeBlock(bs, size, {})
                                /\ bs[i].free /\ bs[i].size >= size
  BY <1>1, Chosen
<1>3. Granted(bs, i, size, Allocate(bs, i, size))
  <2>1. CASE bs[i].size > size + HeaderSize + 16
    <3>1. Granted(bs, i, size, [SplitBlock(bs, i, size) EXCEPT ![i].free = FALSE])
      BY <1>1, <1>2, <2>1, MarkedSplit
    <3>2. QED
      BY <3>1 DEF Allocate
  <2>2. CASE ~(bs[i].size > size + HeaderSize + 16)
    <3>1. SplitBlock(bs, i, size) = bs
      BY <2>2 DEF SplitBlock
    <3>2. Granted(bs, i, size, [bs EXCEPT ![i].free = FALSE])
      BY <1>2, MarkedWhole
    <3>3. QED
      BY <3>1, <3>2 DEF Allocate
  <2>3. QED
    BY <2>1, <2>2
<1>4. QED
  BY <1>1, <1>2, <1>3

(* The pointers of the allocated blocks, each of which is one block's.     *)
Held(bs) == { Payload(b) : b \in Taken(bs) }

LEMMA OneEach ==
  ASSUME NEW bs \in Seq(Blk), Tiles(bs)
  PROVE  /\ \A b, c \in Taken(bs) : Payload(b) = Payload(c) => b = c
         /\ \A i \in 1 .. Len(bs) : bs[i].free => Payload(bs[i]) \notin Held(bs)
<1>1. HeaderSize \in Nat
  BY Sizes
<1>2. \A b, c \in Blk : Payload(b) = Payload(c) => b.addr = c.addr
  BY <1>1 DEF Blk, Payload
<1>3. \A i, j \in 1 .. Len(bs) : bs[i].addr = bs[j].addr => i = j
  BY Located
<1>4. \A b, c \in Taken(bs) : Payload(b) = Payload(c) => b = c
  BY <1>2, <1>3 DEF Taken
<1>5. ASSUME NEW i \in 1 .. Len(bs), bs[i].free PROVE Payload(bs[i]) \notin Held(bs)
  <2>1. SUFFICES ASSUME NEW b \in Taken(bs), Payload(b) = Payload(bs[i])
                 PROVE  FALSE
    BY DEF Held
  <2>2. PICK j \in 1 .. Len(bs) : bs[j] = b /\ ~b.free /\ b \in Blk
    BY DEF Taken
  <2>3. bs[i] \in Blk
    BY ElementOfSeq
  <2>4. i = j
    BY <1>2, <1>3, <2>1, <2>2, <2>3
  <2>5. QED
    BY <1>5, <2>2, <2>4
<1>6. QED
  BY <1>4, <1>5

LEMMA Found ==
  ASSUME NEW bs \in Seq(Blk), Tiles(bs), NEW p \in Held(bs)
  PROVE  /\ BlockAt(bs, p) \in 1 .. Len(bs)
         /\ bs[BlockAt(bs, p)] \in Taken(bs)
         /\ Payload(bs[BlockAt(bs, p)]) = p
<1>1. DOMAIN bs = 1 .. Len(bs)
  BY LenProperties
<1>2. PICK b \in Taken(bs) : Payload(b) = p
  BY DEF Held
<1>3. \E i \in 1 .. Len(bs) : bs[i] = b
  BY DEF Taken
<1>4. BlockAt(bs, p) \in 1 .. Len(bs) /\ Payload(bs[BlockAt(bs, p)]) = p
  BY <1>1, <1>2, <1>3 DEF BlockAt
<1>5. PICK k \in 1 .. Len(bs) : k = BlockAt(bs, p) /\ Payload(bs[k]) = p
  BY <1>4
<1>6. ~bs[k].free
  BY <1>5, OneEach
<1>7. bs[k] \in Blk
  BY ElementOfSeq
<1>8. QED
  BY <1>5, <1>6, <1>7 DEF Taken

(* Two allocated blocks do not overlap, headers included.                  *)
Clear(c, bs) == \A b \in Taken(bs) : EndOf(c) <= b.addr \/ EndOf(b) <= c.addr

LEMMA Apart ==
  ASSUME NEW bs \in Seq(Blk), Tiles(bs), NEW b \in Taken(bs), NEW c \in Taken(bs),
         b # c
  PROVE  EndOf(c) <= b.addr \/ EndOf(b) <= c.addr
<1>1. PICK i \in 1 .. Len(bs), j \in 1 .. Len(bs) : bs[i] = b /\ bs[j] = c
  BY DEF Taken
<1>2. j \in i + 1 .. Len(bs) \/ i \in j + 1 .. Len(bs)
  <2>1. Len(bs) \in Nat /\ i # j
    BY <1>1, LenProperties
  <2>2. QED
    BY <2>1
<1>3. QED
  BY <1>1, <1>2, Ascending

(* So a block that malloc adds to the allocated ones is clear of them.     *)
LEMMA GrantedClear ==
  ASSUME NEW bs, NEW t \in Seq(Blk), Tiles(t), NEW c \in Blk,
         c \in Taken(t), Taken(bs) \subseteq Taken(t), Payload(c) \notin Held(bs)
  PROVE  EndOf(c) <= HeapSize /\ Clear(c, bs)
<1>1. EndOf(c) <= HeapSize
  BY Located DEF Taken
<1>2. \A b \in Taken(bs) : b \in Taken(t) /\ b # c
  BY DEF Held
<1>3. QED
  BY <1>1, <1>2, Apart DEF Clear

(* free: the block of p is taken no more, the others are as before.        *)
LEMMA ReleasedList ==
  ASSUME NEW bs \in Seq(Blk), Tiles(bs), NEW p \in Held(bs)
  PROVE  /\ Release(bs, p, {}) \in Seq(Blk)
         /\ Tiles(Release(bs, p, {}))
         /\ NoFreePair(Release(bs, p, {}))
         /\ Taken(Release(bs, p, {})) = { b \in Taken(bs) : Payload(b) # p }
<1>1. PICK k \in 1 .. Len(bs) : k = BlockAt(bs, p)
  BY Found
<1>2. bs[k] \in Taken(bs) /\ Payload(bs[k]) = p
  BY <1>1, Found
<1>3. PICK b \in Blk : b = bs[k] /\ ~b.free
  BY <1>2 DEF Taken
<1> DEFINE c == [addr |-> b.addr, size |-> b.size, free |-> TRUE]
<1>4. c \in Blk
  BY DEF Blk
<1>5. [b EXCEPT !.free = TRUE] = c
  BY Remarked, Zenon
<1>6. c.addr = b.addr /\ c.size = b.size /\ c.free
  OBVIOUS
<1> HIDE DEF c
<1> DEFINE t == [bs EXCEPT ![k] = c]
<1>7. [bs EXCEPT ![k].free = TRUE] = t
  BY <1>3, <1>5
<1>8. /\ t \in Seq(Blk) /\ Len(t) = Len(bs)
      /\ \A j \in 1 .. Len(bs) : t[j] = IF j = k THEN c ELSE bs[j]
  BY <1>4, ExceptSeq
<1>9. Release(bs, p, {}) = MergeFreeBlocks(t, {})
  BY <1>1, <1>7 DEF Release
<1> HIDE DEF t
<1>10. Len(bs) \in Nat /\ 1 <= Len(bs)
  BY EmptySeq, LenProperties DEF Tiles
<1>11. \A j \in 1 .. Len(bs) : t[j].addr = bs[j].addr /\ t[j].size = bs[j].size
                               /\ EndOf(t[j]) = EndOf(bs[j])
  BY <1>3, <1>6, <1>8 DEF EndOf
<1>12. Tiles(t)
  <2>1. t # <<>>
    BY <1>8, <1>10, EmptySeq
  <2>2. \A j \in 1 .. Len(t) - 1 : j \in 1 .. Len(bs) /\ j + 1 \in 1 .. Len(bs)
    BY <1>8, <1>10
  <2>3. \A j \in 1 .. Len(t) - 1 : t[j + 1].addr = EndOf(t[j])
    BY <1>8, <1>11, <2>2 DEF Tiles
  <2>4. QED
    BY <1>8, <1>10, <1>11, <2>1, <2>3 DEF Tiles
<1>13. Taken(t) = { d \in Taken(bs) : Payload(d) # p }
  <2>1. \A d \in Taken(bs) : Payload(d) = p => d = bs[k]
    BY <1>2, OneEach
  <2>2. \A d \in Blk : ~d.free =>
          ((\E j \in 1 .. Len(t) : t[j] = d)
             <=> (\E j \in 1 .. Len(bs) : j # k /\ bs[j] = d))
    BY <1>6, <1>8
  <2>3. ASSUME NEW d \in Taken(t) PROVE d \in Taken(bs) /\ Payload(d) # p
    <3>1. d \in Blk /\ ~d.free /\ \E j \in 1 .. Len(t) : t[j] = d
      BY DEF Taken
    <3>2. PICK j \in 1 .. Len(bs) : j # k /\ bs[j] = d
      BY <2>2, <3>1
    <3>3. d \in Taken(bs)
      BY <3>1, <3>2 DEF Taken
    <3>4. bs[j].addr # bs[k].addr
      BY <3>2, Located
    <3>5. QED
      BY <2>1, <3>2, <3>3, <3>4
  <2>4. ASSUME NEW d \in Taken(bs), Payload(d) # p PROVE d \in Taken(t)
    <3>1. d \in Blk /\ ~d.free /\ \E j \in 1 .. Len(bs) : bs[j] = d
      BY DEF Taken
    <3>2. \E j \in 1 .. Len(bs) : j # k /\ bs[j] = d
      BY <1>2, <2>4, <3>1
    <3>3. QED
      BY <2>2, <3>1, <3>2 DEF Taken
  <2>5. QED
    BY <2>3, <2>4
<1>14. QED
  BY <1>8, <1>9, <1>12, <1>13, Merged

-----------------------------------------------------------------------------
(* The inductive invariant: merging works on a tiling, and neither of      *)
(* ClientView's directions survives without the other, because free looks  *)
(* its block up by the pointer the client holds.                           *)
HInv ==
  /\ blocks \in Seq(Blk)
  /\ spoiled = {}
  /\ Tiling
  /\ Coalesced
  /\ Held(blocks) = DOMAIN owned

LEMMA HInvInit == Init => HInv
<1> SUFFICES ASSUME Init PROVE HInv
  OBVIOUS
<1> DEFINE b == Block(0, HeapSize - HeaderSize, TRUE)
<1>1. HeapSize - HeaderSize \in Nat
  BY HeapAssumption
<1>2. b \in Blk /\ b.addr = 0 /\ b.size = HeapSize - HeaderSize /\ b.free
  BY <1>1 DEF Blk, Block
<1>3. blocks = <<b>> /\ DOMAIN owned = {} /\ spoiled = {}
  BY DEF Init
<1> HIDE DEF b
<1>4. /\ blocks \in Seq(Blk) /\ Len(blocks) = 1 /\ blocks # <<>>
      /\ blocks[1] = b /\ \A i \in 1 .. 1 : i = 1
  BY <1>2, <1>3
<1>5. EndOf(b) = HeapSize
  BY <1>2, Sizes DEF EndOf
<1>6. b.size % 8 = 0
  BY <1>2, HeapAssumption
<1>7. Tiling
  BY <1>2, <1>4, <1>5, <1>6 DEF Tiling, Tiles
<1>8. Coalesced
  BY <1>4 DEF Coalesced, NoFreePair
<1>9. Held(blocks) = {}
  BY <1>2, <1>4 DEF Held, Taken
<1>10. QED
  BY <1>3, <1>4, <1>7, <1>8, <1>9 DEF HInv

(* What is written inside a block runs over no header: those before it end *)
(* where the payload starts or earlier, and those behind it start where it *)
(* ends or later, short of where addresses wrap.                           *)
LEMMA NothingOverwritten ==
  ASSUME NEW bs \in Seq(Blk), Tiles(bs), NEW i \in 1 .. Len(bs),
         NEW n \in Nat, n <= bs[i].size
  PROVE  Overwritten(bs, Payload(bs[i]), n) = {}
<1>1. /\ Len(bs) \in Nat /\ DOMAIN bs = 1 .. Len(bs)
      /\ HeaderSize \in Nat \ {0} /\ HeapSize \in Nat /\ SizeMod \in Nat
      /\ SizeMod > HeapSize + HeaderSize + 16
  BY LenProperties, Sizes
<1>2. PICK a \in Nat, s \in Nat : /\ a = bs[i].addr /\ s = bs[i].size
                                /\ Payload(bs[i]) = a + HeaderSize
                                /\ EndOf(bs[i]) = a + HeaderSize + s
  BY BlockNumbers DEF Payload, EndOf
<1>3. a + HeaderSize + s <= HeapSize
  BY <1>2, Located
<1>4. SUFFICES ASSUME NEW j \in 1 .. Len(bs),
                      (bs[j].addr - (a + HeaderSize)) % SizeMod < n
               PROVE  FALSE
  BY <1>1, <1>2 DEF Overwritten
<1>5. PICK b \in Nat, r \in Nat : /\ b = bs[j].addr /\ r = bs[j].size
                                /\ EndOf(bs[j]) = b + HeaderSize + r
  BY BlockNumbers DEF EndOf
<1>6. b + HeaderSize + r <= HeapSize
  BY <1>5, Located
<1>7. CASE j \in i + 1 .. Len(bs)
  <2>1. a + HeaderSize + s <= b
    BY <1>2, <1>5, <1>7, Ascending
  <2>2. b - (a + HeaderSize) \in 0 .. SizeMod - 1
    BY <1>1, <1>6, <2>1
  <2>3. (b - (a + HeaderSize)) % SizeMod = b - (a + HeaderSize)
    BY <1>1, <2>2
  <2>4. (b - (a + HeaderSize)) % SizeMod < n /\ n <= s
    BY <1>2, <1>4, <1>5
  <2>5. b - (a + HeaderSize) < n
    BY <2>3, <2>4
  <2>6. QED
    BY <1>1, <2>1, <2>4, <2>5
<1>8. CASE j \notin i + 1 .. Len(bs)
  <2>1. b <= a
    <3>1. CASE j = i
      BY <1>2, <1>5, <3>1
    <3>2. CASE j # i
      <4>1. i \in j + 1 .. Len(bs)
        BY <1>1, <1>8, <3>2
      <4>2. b + HeaderSize + r <= a
        BY <1>2, <1>5, <4>1, Ascending
      <4>3. QED
        BY <1>1, <4>2
    <3>3. QED
      BY <3>1, <3>2
  <2>2. b - (a + HeaderSize) + SizeMod \in 0 .. SizeMod - 1
    BY <1>1, <1>3, <2>1
  <2>3. (b - (a + HeaderSize)) % SizeMod = b - (a + HeaderSize) + SizeMod
    BY <1>1, <2>2
  <2>4. (b - (a + HeaderSize)) % SizeMod < n /\ n <= s
    BY <1>2, <1>4, <1>5
  <2>5. b - (a + HeaderSize) + SizeMod < n
    BY <2>3, <2>4
  <2>6. QED
    BY <1>1, <1>3, <2>4, <2>5
<1>9. QED
  BY <1>7, <1>8

LEMMA GrantIntact ==
  ASSUME HInv, NEW n \in Nat, NEW asked, NEW filled \in Nat, filled <= AlignUp(n),
         MallocGrants(n, asked, filled)
  PROVE  spoiled' = {}
<1> DEFINE i == FindFreeBlock(blocks, AlignUp(n), {})
           t == Allocate(blocks, i, AlignUp(n))
<1>1. blocks \in Seq(Blk) /\ Tiles(blocks) /\ spoiled = {}
  BY DEF HInv, Tiling
<1>2. /\ Candidates(blocks, AlignUp(n), {}) # {}
      /\ spoiled' = {} \cup Overwritten(t, Payload(t[i]), filled)
  BY <1>1 DEF MallocGrants
<1>3. Granted(blocks, i, AlignUp(n), t)
  BY <1>1, <1>2, AllocatedList
<1> HIDE DEF i, t
<1>4. t \in Seq(Blk) /\ Tiles(t) /\ i \in 1 .. Len(t) /\ t[i].size >= AlignUp(n)
  BY <1>3 DEF Granted
<1>5. t[i].size \in Nat /\ AlignUp(n) \in Nat
  BY <1>4, BlockNumbers, Aligned
<1>6. filled <= t[i].size
  BY <1>4, <1>5
<1>7. QED
  BY <1>2, <1>4, <1>6, NothingOverwritten

LEMMA MoveIntact ==
  ASSUME HInv, NEW p \in DOMAIN owned, NEW n \in Nat, n + 7 < SizeMod,
         ReallocMoves(p, n)
  PROVE  spoiled' = {}
<1> DEFINE i == FindFreeBlock(blocks, AlignUp(n), {})
           t == Allocate(blocks, i, AlignUp(n))
           old == blocks[BlockAt(blocks, p)]
<1>1. /\ blocks \in Seq(Blk) /\ Tiles(blocks) /\ spoiled = {}
      /\ p \in Held(blocks)
  BY DEF HInv, Tiling
<1>2. /\ Candidates(blocks, AlignUp(n), {}) # {} /\ old.size < n
      /\ spoiled' = {} \cup Overwritten(t, Payload(t[i]), old.size)
  BY <1>1 DEF ReallocMoves
<1>3. Granted(blocks, i, AlignUp(n), t)
  BY <1>1, <1>2, AllocatedList
<1>4. old.size \in Nat
  BY <1>1, Found, BlockNumbers
<1> HIDE DEF i, t, old
<1>5. t \in Seq(Blk) /\ Tiles(t) /\ i \in 1 .. Len(t) /\ t[i].size >= AlignUp(n)
  BY <1>3 DEF Granted
<1>6. t[i].size \in Nat /\ AlignUp(n) \in Nat /\ AlignUp(n) >= n
  BY <1>5, BlockNumbers, Aligned
<1>7. old.size <= t[i].size
  BY <1>2, <1>4, <1>5, <1>6
<1>8. QED
  BY <1>2, <1>4, <1>5, <1>7, NothingOverwritten

(* The block malloc grants: what it changes among the allocated ones.      *)
LEMMA GrantEffect ==
  ASSUME HInv, NEW n \in Nat, NEW asked, NEW filled \in Nat, filled <= AlignUp(n),
         MallocGrants(n, asked, filled)
  PROVE  \E c \in Blk :
           /\ HInv'
           /\ Taken(blocks') = Taken(blocks) \cup {c}
           /\ Payload(c) \notin Held(blocks)
           /\ EndOf(c) <= HeapSize /\ Clear(c, blocks)
           /\ c.size >= AlignUp(n)
           /\ owned' = Remember(owned, Payload(c), asked) /\ ret' = Payload(c)
<1> DEFINE i == FindFreeBlock(blocks, AlignUp(n), {})
           t == Allocate(blocks, i, AlignUp(n))
<1>1. /\ Candidates(blocks, AlignUp(n), {}) # {}
      /\ blocks' = t
      /\ owned' = Remember(owned, Payload(t[i]), asked) /\ ret' = Payload(t[i])
  BY DEF MallocGrants, HInv
<1>2. /\ blocks \in Seq(Blk) /\ Tiles(blocks) /\ NoFreePair(blocks)
      /\ Held(blocks) = DOMAIN owned
  BY DEF HInv, Tiling, Coalesced
<1>3. i \in 1 .. Len(blocks) /\ blocks[i].free /\ Granted(blocks, i, AlignUp(n), t)
  BY <1>1, <1>2, AllocatedList
<1> HIDE DEF i, t
<1>4. PICK c \in Blk : c = t[i]
  BY <1>3, ElementOfSeq DEF Granted
<1>5. /\ t \in Seq(Blk) /\ Tiles(t) /\ NoFreePair(t)
      /\ c.addr = blocks[i].addr /\ c.size >= AlignUp(n)
      /\ Taken(t) = Taken(blocks) \cup {c}
  BY <1>2, <1>3, <1>4 DEF Granted
<1>6. Payload(c) = Payload(blocks[i])
  BY <1>5 DEF Payload
<1>7. Payload(c) \notin Held(blocks)
  BY <1>2, <1>3, <1>6, OneEach
<1>8. Held(t) = Held(blocks) \cup {Payload(c)}
  BY <1>5 DEF Held
<1>9. DOMAIN owned' = DOMAIN owned \cup {Payload(c)}
  BY <1>1, <1>4 DEF Remember
<1>10. HInv'
  BY <1>1, <1>2, <1>5, <1>8, <1>9, GrantIntact DEF HInv, Tiling, Coalesced
<1>11. EndOf(c) <= HeapSize /\ Clear(c, blocks)
  BY <1>5, <1>7, GrantedClear
<1>12. QED
  BY <1>1, <1>4, <1>5, <1>7, <1>10, <1>11

LEMMA FreeEffect ==
  ASSUME HInv, NEW p \in DOMAIN owned, Free(p)
  PROVE  /\ HInv'
         /\ Taken(blocks') = { b \in Taken(blocks) : Payload(b) # p }
         /\ owned' = Forget(owned, p)
<1>1. /\ blocks \in Seq(Blk) /\ Tiles(blocks) /\ p \in Held(blocks)
      /\ Held(blocks) = DOMAIN owned
  BY DEF HInv, Tiling
<1>2. /\ blocks' = Release(blocks, p, {}) /\ owned' = Forget(owned, p)
      /\ spoiled' = {}
  BY DEF Free, HInv
<1>3. /\ blocks' \in Seq(Blk) /\ Tiles(blocks') /\ NoFreePair(blocks')
      /\ Taken(blocks') = { b \in Taken(blocks) : Payload(b) # p }
  BY <1>1, <1>2, ReleasedList
<1>4. Held(blocks') = Held(blocks) \ {p}
  BY <1>3 DEF Held
<1>5. DOMAIN owned' = DOMAIN owned \ {p}
  BY <1>2 DEF Forget
<1>6. QED
  BY <1>1, <1>2, <1>3, <1>4, <1>5 DEF HInv, Tiling, Coalesced

LEMMA MoveEffect ==
  ASSUME HInv, NEW p \in DOMAIN owned, NEW n \in Nat, n + 7 < SizeMod,
         ReallocMoves(p, n)
  PROVE  \E c \in Blk :
           /\ HInv'
           /\ Taken(blocks') = { b \in Taken(blocks) : Payload(b) # p } \cup {c}
           /\ Payload(c) \notin Held(blocks)
           /\ EndOf(c) <= HeapSize /\ Clear(c, blocks)
           /\ c.size >= AlignUp(n)
           /\ owned' = Remember(Forget(owned, p), Payload(c), n) /\ ret' = Payload(c)
<1> DEFINE i == FindFreeBlock(blocks, AlignUp(n), {})
           t == Allocate(blocks, i, AlignUp(n))
<1>1. /\ Candidates(blocks, AlignUp(n), {}) # {}
      /\ blocks' = Release(t, p, {})
      /\ owned' = Remember(Forget(owned, p), Payload(t[i]), n) /\ ret' = Payload(t[i])
      /\ spoiled' = {}
  BY MoveIntact DEF ReallocMoves, HInv
<1>2. /\ blocks \in Seq(Blk) /\ Tiles(blocks) /\ p \in Held(blocks)
      /\ Held(blocks) = DOMAIN owned
  BY DEF HInv, Tiling
<1>3. i \in 1 .. Len(blocks) /\ blocks[i].free /\ Granted(blocks, i, AlignUp(n), t)
  BY <1>1, <1>2, AllocatedList
<1> HIDE DEF i, t
<1>4. PICK c \in Blk : c = t[i]
  BY <1>3, ElementOfSeq DEF Granted
<1>5. /\ t \in Seq(Blk) /\ Tiles(t)
      /\ c.addr = blocks[i].addr /\ c.size >= AlignUp(n)
      /\ Taken(t) = Taken(blocks) \cup {c}
  BY <1>2, <1>3, <1>4 DEF Granted
<1>6. Payload(c) = Payload(blocks[i])
  BY <1>5 DEF Payload
<1>7. Payload(c) \notin Held(blocks)
  BY <1>2, <1>3, <1>6, OneEach
<1>8. p \in Held(t)
  BY <1>2, <1>5 DEF Held
<1>9. /\ blocks' \in Seq(Blk) /\ Tiles(blocks') /\ NoFreePair(blocks')
      /\ Taken(blocks') = { b \in Taken(t) : Payload(b) # p }
  BY <1>1, <1>5, <1>8, ReleasedList
<1>10. Taken(blocks') = { b \in Taken(blocks) : Payload(b) # p } \cup {c}
  BY <1>2, <1>5, <1>7, <1>9
<1>11. Held(blocks') = (Held(blocks) \ {p}) \cup {Payload(c)}
  BY <1>10 DEF Held
<1>12. DOMAIN owned' = (DOMAIN owned \ {p}) \cup {Payload(c)}
  BY <1>1, <1>4 DEF Remember, Forget
<1>13. HInv'
  BY <1>1, <1>2, <1>9, <1>11, <1>12 DEF HInv, Tiling, Coalesced
<1>14. EndOf(c) <= HeapSize /\ Clear(c, blocks)
  BY <1>5, <1>7, GrantedClear
<1>15. QED
  BY <1>1, <1>4, <1>5, <1>7, <1>10, <1>13, <1>14

LEMMA InPlaceEffect ==
  ASSUME HInv, NEW p \in DOMAIN owned, NEW n, ReallocInPlace(p, n)
  PROVE  /\ HInv'
         /\ blocks' = blocks /\ owned' = Remember(owned, p, n)
         /\ blocks[BlockAt(blocks, p)].size >= n
<1>1. /\ blocks' = blocks /\ owned' = Remember(owned, p, n)
      /\ blocks[BlockAt(blocks, p)].size >= n /\ spoiled' = spoiled
  BY DEF ReallocInPlace
<1>2. DOMAIN owned' = DOMAIN owned
  BY <1>1 DEF Remember
<1>3. QED
  BY <1>1, <1>2 DEF HInv, Tiling, Coalesced

LEMMA RefuseEffect ==
  ASSUME HInv, UNCHANGED <<blocks, spoiled, owned>>
  PROVE  HInv'
  BY DEF HInv, Tiling, Coalesced

LEMMA SizesAreNat ==
  /\ Requests \subseteq Nat
  /\ \A m \in Counts, n \in Requests : m * n \in Nat /\ (m * n) % SizeMod \in Nat
<1>1. Requests \subseteq Nat /\ Counts \subseteq Nat /\ SizeMod \in Nat \ {0}
  <2>1. SizeMod \in Nat \ {0}
    BY Sizes
  <2>2. Requests \subseteq 0 .. SizeMod - 1 /\ Counts \subseteq 0 .. SizeMod - 1
    BY HeapAssumption
  <2>3. QED
    BY <2>1, <2>2
<1>2. \A m, n \in Nat : m * n \in Nat
  OBVIOUS
<1>3. \A k \in Nat : k % SizeMod \in Nat
  BY <1>1
<1>4. QED
  BY <1>1, <1>2, <1>3

(* What a client asks of malloc and calloc.                                *)
Asked == Requests \cup { m * n : m \in Counts, n \in Requests }

LEMMA AskedFits ==
  ASSUME RequestsFit
  PROVE  /\ \A k \in Asked : k \in Nat /\ k + 7 < SizeMod /\ k <= AlignUp(k)
                            /\ 0 <= AlignUp(k) /\ k % SizeMod = k
         /\ Requests \subseteq Asked
<1>1. \A k \in Asked : k \in Nat /\ k + 7 < SizeMod
  BY SizesAreNat DEF Asked, RequestsFit
<1>2. \A k \in Nat : AlignUp(k) \in Nat /\ (k + 7 < SizeMod => AlignUp(k) >= k)
  BY Aligned
<1>3. \A k \in Nat : k + 7 < SizeMod => k % SizeMod = k
  BY Sizes
<1>4. QED
  BY <1>1, <1>2, <1>3 DEF Asked

(* Every step is one of five, whose sizes fit in size_t; calloc fills what *)
(* it grants.                                                              *)
LEMMA HeapStepCases ==
  ASSUME RequestsFit, HInv, Next
  PROVE  \/ \E k \in Asked, filled \in Nat :
              filled <= AlignUp(k) /\ MallocGrants(k, k, filled)
         \/ \E p \in DOMAIN owned : Free(p)
         \/ \E p \in DOMAIN owned, n \in Requests :
              ReallocInPlace(p, n) \/ ReallocMoves(p, n)
         \/ UNCHANGED <<blocks, spoiled, freeMemory, owned>> /\ ret' = NULL
<1>1. ASSUME NEW n \in Requests, MallocGrants(n, n, 0)
      PROVE  \E k \in Asked, filled \in Nat :
               filled <= AlignUp(k) /\ MallocGrants(k, k, filled)
  BY <1>1, AskedFits
<1>2. ASSUME NEW m \in Counts, NEW n \in Requests,
             MallocGrants((m * n) % SizeMod, m * n, (m * n) % SizeMod)
      PROVE  \E k \in Asked, filled \in Nat :
               filled <= AlignUp(k) /\ MallocGrants(k, k, filled)
  <2>1. PICK k \in Asked : k = m * n
    BY DEF Asked
  <2>2. k \in Nat /\ k <= AlignUp(k) /\ k % SizeMod = k
    BY AskedFits
  <2>3. MallocGrants(k, k, k)
    BY <1>2, <2>1, <2>2
  <2>4. QED
    BY <2>2, <2>3
<1>3. \/ \E n \in Requests : MallocGrants(n, n, 0)
      \/ \E m \in Counts, n \in Requests :
           MallocGrants((m * n) % SizeMod, m * n, (m * n) % SizeMod)
      \/ \E p \in DOMAIN owned : Free(p)
      \/ \E p \in DOMAIN owned, n \in Requests :
           ReallocInPlace(p, n) \/ ReallocMoves(p, n)
      \/ UNCHANGED <<blocks, spoiled, freeMemory, owned>> /\ ret' = NULL
  BY DEF Next, Malloc, Calloc, Realloc, ReallocRefuses, MallocRefuses
<1>4. QED
  BY <1>1, <1>2, <1>3

LEMMA HInvNext == RequestsFit /\ HInv /\ [Next]_vars => HInv'
<1> SUFFICES ASSUME RequestsFit, HInv, [Next]_vars PROVE HInv'
  OBVIOUS
<1>1. CASE UNCHANGED vars
  BY <1>1, RefuseEffect DEF vars
<1>2. CASE Next
  <2>1. ASSUME NEW k \in Asked, NEW filled \in Nat, filled <= AlignUp(k),
               MallocGrants(k, k, filled)
        PROVE  HInv'
    <3>1. k \in Nat
      BY AskedFits
    <3>2. QED
      BY <2>1, <3>1, GrantEffect
  <2>2. ASSUME NEW p \in DOMAIN owned, Free(p) PROVE HInv'
    BY <2>2, FreeEffect
  <2>3. ASSUME NEW p \in DOMAIN owned, NEW n \in Requests,
               ReallocInPlace(p, n) \/ ReallocMoves(p, n)
        PROVE  HInv'
    <3>1. n \in Nat /\ n + 7 < SizeMod
      BY AskedFits
    <3>2. QED
      BY <2>3, <3>1, InPlaceEffect, MoveEffect
  <2>4. CASE UNCHANGED <<blocks, spoiled, owned>>
    BY <2>4, RefuseEffect
  <2>5. QED
    BY <1>2, <2>1, <2>2, <2>3, <2>4, HeapStepCases
<1>3. QED
  BY <1>1, <1>2

(* As long as no size wraps around, the blocks tile heap[] whatever the    *)
(* order of calls: split_block and merge_free_blocks lose and overlap no   *)
(* byte.                                                                   *)
THEOREM HeapTiled == RequestsFit => (Spec => []Tiling)
<1>1. SUFFICES ASSUME RequestsFit PROVE Spec => []Tiling
  OBVIOUS
<1>2. HInv => Tiling
  BY DEF HInv
<1>3. HInv /\ [Next]_vars => HInv'
  BY <1>1, HInvNext
<1>4. QED
  BY <1>2, <1>3, HInvInit, PTL DEF Spec

(* No header loses its magic word as long as no size wraps around: the     *)
(* memcpy of realloc and the memset of calloc stay inside the block that   *)
(* malloc has cut, after any order of calls.                               *)
THEOREM HeadersKept == RequestsFit => (Spec => []Integrity)
<1>1. SUFFICES ASSUME RequestsFit PROVE Spec => []Integrity
  OBVIOUS
<1>2. HInv => Integrity
  BY DEF HInv, Integrity
<1>3. HInv /\ [Next]_vars => HInv'
  BY <1>1, HInvNext
<1>4. QED
  BY <1>2, <1>3, HInvInit, PTL DEF Spec

(* After every call no two neighbouring blocks are both free: one pass of  *)
(* merge_free_blocks suffices, however the heap was cut up.                *)
THEOREM HeapCoalesced == RequestsFit => (Spec => []Coalesced)
<1>1. SUFFICES ASSUME RequestsFit PROVE Spec => []Coalesced
  OBVIOUS
<1>2. HInv => Coalesced
  BY DEF HInv
<1>3. HInv /\ [Next]_vars => HInv'
  BY <1>1, HInvNext
<1>4. QED
  BY <1>2, <1>3, HInvInit, PTL DEF Spec

(* The allocated blocks are those whose pointers clients hold.             *)
THEOREM ClientsAgree == RequestsFit => (Spec => []ClientView)
<1>0. SUFFICES ASSUME RequestsFit PROVE Spec => []ClientView
  OBVIOUS
<1>1. HInv => ClientView
  <2>1. SUFFICES ASSUME HInv PROVE ClientView
    OBVIOUS
  <2>2. /\ blocks \in Seq(Blk) /\ Held(blocks) = DOMAIN owned
        /\ DOMAIN blocks = 1 .. Len(blocks)
    BY <2>1, LenProperties DEF HInv
  <2>3. \A i \in 1 .. Len(blocks) : blocks[i] \in Blk
    BY <2>2, ElementOfSeq
  <2>4. { Payload(blocks[i]) : i \in AllocatedBlocks } = Held(blocks)
    BY <2>2, <2>3 DEF AllocatedBlocks, FreeBlocks, Held, Taken
  <2>5. QED
    BY <2>2, <2>4 DEF ClientView
<1>2. HInv /\ [Next]_vars => HInv'
  BY <1>0, HInvNext
<1>3. QED
  BY <1>1, <1>2, HInvInit, PTL DEF Spec

-----------------------------------------------------------------------------
(* Room for what was asked, as long as no size wraps around.               *)
GInv ==
  /\ HInv
  /\ \A b \in Taken(blocks) : owned[Payload(b)] <= b.size

LEMMA GInvNext == RequestsFit /\ GInv /\ [Next]_vars => GInv'
<1> SUFFICES ASSUME RequestsFit, GInv, [Next]_vars
             PROVE  \A b \in Taken(blocks') : owned'[Payload(b)] <= b.size
  BY HInvNext DEF GInv
<1>1. HInv /\ \A b \in Taken(blocks) : owned[Payload(b)] <= b.size
  BY DEF GInv
<1>2. /\ \A b \in Taken(blocks) : Payload(b) \in DOMAIN owned
      /\ \A b, c \in Taken(blocks) : Payload(b) = Payload(c) => b = c
  BY <1>1, OneEach DEF HInv, Tiling, Held
<1>3. ASSUME NEW k \in Nat, k + 7 < SizeMod, NEW c \in Blk, NEW T, NEW f,
             T \subseteq Taken(blocks),
             Taken(blocks') = T \cup {c}, Payload(c) \notin Held(blocks),
             c.size >= AlignUp(k),
             \A b \in T : f[Payload(b)] <= b.size,
             \A b \in T : Payload(b) \in DOMAIN f,
             owned' = Remember(f, Payload(c), k)
      PROVE  \A b \in Taken(blocks') : owned'[Payload(b)] <= b.size
  <2>1. owned'[Payload(c)] = k
    BY <1>3 DEF Remember
  <2>2. k <= c.size
    <3>1. AlignUp(k) \in Nat /\ k <= AlignUp(k)
      BY <1>3, Aligned
    <3>2. c.size \in Nat
      BY DEF Blk
    <3>3. QED
      BY <1>3, <3>1, <3>2
  <2>3. ASSUME NEW b \in T PROVE owned'[Payload(b)] <= b.size
    <3>1. Payload(b) # Payload(c)
      BY <1>3 DEF Held
    <3>2. owned'[Payload(b)] = f[Payload(b)]
      BY <1>3, <3>1 DEF Remember
    <3>3. QED
      BY <1>3, <3>2
  <2>4. QED
    BY <1>3, <2>1, <2>2, <2>3
<1>4. ASSUME NEW k \in Asked, NEW filled \in Nat, filled <= AlignUp(k),
             MallocGrants(k, k, filled)
      PROVE  \A b \in Taken(blocks') : owned'[Payload(b)] <= b.size
  <2>1. k \in Nat /\ k + 7 < SizeMod
    BY AskedFits
  <2>2. PICK c \in Blk :
          /\ Taken(blocks') = Taken(blocks) \cup {c}
          /\ Payload(c) \notin Held(blocks)
          /\ c.size >= AlignUp(k)
          /\ owned' = Remember(owned, Payload(c), k)
    BY <1>1, <1>4, <2>1, GrantEffect
  <2>3. QED
    BY <1>1, <1>2, <1>3, <2>1, <2>2
<1>6. ASSUME NEW p \in DOMAIN owned, Free(p)
      PROVE  \A b \in Taken(blocks') : owned'[Payload(b)] <= b.size
  <2>1. /\ Taken(blocks') = { b \in Taken(blocks) : Payload(b) # p }
        /\ owned' = Forget(owned, p)
    BY <1>1, <1>6, FreeEffect
  <2>2. QED
    BY <1>1, <1>2, <2>1 DEF Forget
<1>7. ASSUME NEW p \in DOMAIN owned, NEW n \in Requests, ReallocInPlace(p, n)
      PROVE  \A b \in Taken(blocks') : owned'[Payload(b)] <= b.size
  <2>1. /\ blocks' = blocks /\ owned' = Remember(owned, p, n)
        /\ blocks[BlockAt(blocks, p)].size >= n
    BY <1>1, <1>7, InPlaceEffect
  <2>2. /\ blocks[BlockAt(blocks, p)] \in Taken(blocks)
        /\ Payload(blocks[BlockAt(blocks, p)]) = p
    BY <1>1, Found DEF HInv, Tiling
  <2>3. PICK c \in Taken(blocks) : c = blocks[BlockAt(blocks, p)] /\ Payload(c) = p
    BY <2>2
  <2>4. n <= c.size
    <3>1. n \in Nat /\ c.size \in Nat /\ c.size >= n
      BY <2>1, <2>3, SizesAreNat DEF Taken, Blk
    <3>2. QED
      BY <3>1
  <2>5. ASSUME NEW b \in Taken(blocks) PROVE owned'[Payload(b)] <= b.size
    <3>1. CASE Payload(b) = p
      <4>1. b = c
        BY <1>2, <2>3, <3>1
      <4>2. QED
        BY <2>1, <2>4, <3>1, <4>1 DEF Remember
    <3>2. CASE Payload(b) # p
      BY <1>1, <1>2, <2>1, <3>2 DEF Remember
    <3>3. QED
      BY <3>1, <3>2
  <2>6. QED
    BY <2>1, <2>5
<1>8. ASSUME NEW p \in DOMAIN owned, NEW n \in Requests, ReallocMoves(p, n)
      PROVE  \A b \in Taken(blocks') : owned'[Payload(b)] <= b.size
  <2>1. n \in Nat /\ n + 7 < SizeMod
    BY SizesAreNat DEF RequestsFit
  <2> DEFINE T == { b \in Taken(blocks) : Payload(b) # p }
             f == Forget(owned, p)
  <2>2. PICK c \in Blk :
          /\ Taken(blocks') = T \cup {c}
          /\ Payload(c) \notin Held(blocks)
          /\ c.size >= AlignUp(n)
          /\ owned' = Remember(f, Payload(c), n)
    BY <1>1, <1>8, <2>1, MoveEffect
  <2>3. /\ \A b \in T : f[Payload(b)] <= b.size
        /\ \A b \in T : Payload(b) \in DOMAIN f
    BY <1>1, <1>2 DEF Forget
  <2>4. T \subseteq Taken(blocks)
    OBVIOUS
  <2> HIDE DEF T, f
  <2>5. QED
    BY <1>3, <2>1, <2>2, <2>3, <2>4
<1>9. CASE UNCHANGED <<blocks, owned>>
  BY <1>1, <1>9
<1>10. CASE UNCHANGED vars
  BY <1>9, <1>10 DEF vars
<1>11. CASE Next
  BY <1>1, <1>4, <1>6, <1>7, <1>8, <1>9, <1>11, HeapStepCases
<1>12. QED
  BY <1>10, <1>11

(* Every block is as large as what its holder asked for, if no request     *)
(* comes within 8 bytes of SIZE_MAX and no calloc product wraps: the two   *)
(* size_t computations are the only way to be given too little.            *)
THEOREM EnoughIsGranted == RequestsFit => (Spec => []GrantsRequest)
<1>1. RequestsFit /\ Init => GInv
  <2>1. SUFFICES ASSUME Init PROVE GInv
    OBVIOUS
  <2>2. HInv /\ DOMAIN owned = {}
    BY <2>1, HInvInit DEF Init
  <2>3. Taken(blocks) = {}
    BY <2>2 DEF HInv, Held
  <2>4. QED
    BY <2>2, <2>3 DEF GInv
<1>2. GInv => GrantsRequest
  <2>1. SUFFICES ASSUME GInv, NEW i \in AllocatedBlocks
                 PROVE  owned[Payload(blocks[i])] <= blocks[i].size
    BY DEF GrantsRequest
  <2>2. blocks \in Seq(Blk) /\ DOMAIN blocks = 1 .. Len(blocks)
    BY <2>1, LenProperties DEF GInv, HInv
  <2>3. i \in 1 .. Len(blocks) /\ ~blocks[i].free
    BY <2>2 DEF AllocatedBlocks, FreeBlocks
  <2>4. blocks[i] \in Blk
    BY <2>2, <2>3, ElementOfSeq
  <2>5. blocks[i] \in Taken(blocks)
    BY <2>3, <2>4 DEF Taken
  <2>6. QED
    BY <2>1, <2>5 DEF GInv
<1>3. RequestsFit /\ GInv /\ [Next]_vars => GInv'
  BY GInvNext
<1>4. SUFFICES ASSUME RequestsFit PROVE Spec => []GrantsRequest
  OBVIOUS
<1>5. Init => GInv
  BY <1>1, <1>4
<1>6. GInv /\ [Next]_vars => GInv'
  BY <1>3, <1>4
<1>7. QED
  BY <1>2, <1>5, <1>6, PTL DEF Spec

-----------------------------------------------------------------------------
(* The payload bytes in use: those of a list's allocated blocks.           *)

Used(b) == IF b.free THEN 0 ELSE b.size
UsedBytes(bs) == PayloadBytes(bs, { i \in 1 .. Len(bs) : ~bs[i].free })

(* f[k] is the payload bytes in use among the first k blocks.              *)
Running(bs, f) ==
  /\ f[0] = 0
  /\ \A k \in 0 .. Len(bs) : f[k] \in Nat
  /\ \A k \in 1 .. Len(bs) : f[k] = f[k - 1] + Used(bs[k])

(* As with MergedExists, the recursive function has its values.            *)
LEMMA PayloadBytesDef ==
  ASSUME NEW bs \in Seq(Blk), NEW S
  PROVE  \E f : /\ f[0] = 0
                /\ \A k \in 1 .. Len(bs) :
                     f[k] = f[k - 1] + IF k \in S THEN bs[k].size ELSE 0
                /\ PayloadBytes(bs, S) = f[Len(bs)]
<1>1. Len(bs) \in Nat
  BY LenProperties
<1> DEFINE w(k) == IF k \in S THEN bs[k].size ELSE 0
           P == { m \in Nat :
                    \E f : f = [k \in 0 .. m |-> IF k = 0 THEN 0 ELSE f[k - 1] + w(k)] }
<1> HIDE DEF w
<1>2. 0 \in P
  <2> DEFINE f == [k \in 0 .. 0 |-> 0]
  <2>1. f = [k \in 0 .. 0 |-> IF k = 0 THEN 0 ELSE f[k - 1] + w(k)]
    OBVIOUS
  <2>2. QED
    BY <2>1
<1>3. ASSUME NEW m \in P PROVE m + 1 \in P
  <2>1. m \in Nat
    OBVIOUS
  <2>2. PICK f : f = [k \in 0 .. m |-> IF k = 0 THEN 0 ELSE f[k - 1] + w(k)]
    OBVIOUS
  <2>3. \A k \in 0 .. m : f[k] = IF k = 0 THEN 0 ELSE f[k - 1] + w(k)
    BY <2>2
  <2> DEFINE g == [k \in 0 .. m + 1 |-> IF k = m + 1 THEN f[m] + w(m + 1) ELSE f[k]]
  <2>4. ASSUME NEW k \in 0 .. m + 1
        PROVE  g[k] = IF k = 0 THEN 0 ELSE g[k - 1] + w(k)
    <3>1. CASE k = m + 1
      <4>1. g[k] = f[m] + w(m + 1) /\ g[k - 1] = f[m] /\ k # 0
        BY <2>1, <3>1
      <4>2. QED
        BY <3>1, <4>1
    <3>2. CASE k = 0
      BY <2>1, <2>3, <3>2
    <3>3. CASE k # m + 1 /\ k # 0
      <4>1. g[k] = f[k] /\ g[k - 1] = f[k - 1] /\ k \in 0 .. m
        BY <2>1, <3>3
      <4>2. QED
        BY <2>3, <3>3, <4>1
    <3>4. QED
      BY <3>1, <3>2, <3>3
  <2>5. DOMAIN g = 0 .. m + 1 /\ g = [k \in 0 .. m + 1 |-> g[k]]
    OBVIOUS
  <2> HIDE DEF g
  <2>6. g = [k \in 0 .. m + 1 |-> IF k = 0 THEN 0 ELSE g[k - 1] + w(k)]
    BY <2>4, <2>5
  <2>7. QED
    BY <2>1, <2>6
<1>4. P \in SUBSET Nat
  OBVIOUS
<1> HIDE DEF P
<1>5. Len(bs) \in P
  BY <1>1, <1>2, <1>3, <1>4, NatInd
<1>6. \E f : f = [k \in 0 .. Len(bs) |-> IF k = 0 THEN 0 ELSE f[k - 1] + w(k)]
  BY <1>5 DEF P
<1> DEFINE F == CHOOSE f : f = [k \in 0 .. Len(bs) |->
                                  IF k = 0 THEN 0 ELSE f[k - 1] + w(k)]
<1>7. F = [k \in 0 .. Len(bs) |-> IF k = 0 THEN 0 ELSE F[k - 1] + w(k)]
  BY <1>6, Zenon
<1>8. PayloadBytes(bs, S) = F[Len(bs)]
  BY DEF PayloadBytes, w
<1> HIDE DEF F
<1>9. F[0] = 0 /\ \A k \in 1 .. Len(bs) : F[k] = F[k - 1] + w(k)
  BY <1>1, <1>7
<1>10. QED
  BY <1>8, <1>9 DEF w

LEMMA UsedNat ==
  ASSUME NEW bs \in Seq(Blk)
  PROVE  \A k \in 1 .. Len(bs) : Used(bs[k]) \in Nat
  BY BlockNumbers DEF Used

LEMMA UsedBytesDef ==
  ASSUME NEW bs \in Seq(Blk)
  PROVE  \E f : Running(bs, f) /\ UsedBytes(bs) = f[Len(bs)]
<1>1. Len(bs) \in Nat
  BY LenProperties
<1> DEFINE S == { i \in 1 .. Len(bs) : ~bs[i].free }
<1>2. PICK F : /\ F[0] = 0
               /\ \A k \in 1 .. Len(bs) :
                    F[k] = F[k - 1] + IF k \in S THEN bs[k].size ELSE 0
               /\ PayloadBytes(bs, S) = F[Len(bs)]
  BY PayloadBytesDef
<1>3. UsedBytes(bs) = F[Len(bs)]
  BY <1>2 DEF UsedBytes
<1>4. F[0] = 0 /\ \A k \in 1 .. Len(bs) : F[k] = F[k - 1] + Used(bs[k])
  BY <1>2 DEF Used
<1> DEFINE P == { m \in Nat : m <= Len(bs) => F[m] \in Nat }
<1>5. 0 \in P
  BY <1>4
<1>6. ASSUME NEW m \in P PROVE m + 1 \in P
  <2>1. SUFFICES ASSUME m + 1 <= Len(bs) PROVE F[m + 1] \in Nat
    OBVIOUS
  <2>2. m \in Nat /\ m <= Len(bs) /\ m + 1 \in 1 .. Len(bs) /\ (m + 1) - 1 = m
    BY <1>1, <2>1
  <2>3. F[m] \in Nat /\ Used(bs[m + 1]) \in Nat
    BY <2>2, UsedNat
  <2>4. F[m + 1] = F[m] + Used(bs[m + 1])
    BY <1>4, <2>2
  <2>5. QED
    BY <2>3, <2>4
<1>7. P \in SUBSET Nat
  OBVIOUS
<1> HIDE DEF P
<1>8. P = Nat
  BY <1>5, <1>6, <1>7, NatInd
<1>9. \A k \in 0 .. Len(bs) : F[k] \in Nat
  BY <1>1, <1>8 DEF P
<1>10. QED
  BY <1>3, <1>4, <1>9 DEF Running

(* Two sums that take the same steps after block m, one of them d blocks   *)
(* later, stay the same distance apart.                                    *)
StepAlike(f, g, m, n, d, c) ==
  /\ m \in Nat /\ n \in Nat /\ d \in Nat /\ c \in Int /\ m <= n
  /\ g[m + d] = f[m] + c
  /\ \A k \in m .. n : f[k] \in Int
  /\ \A k \in m + 1 .. n :
       \E w \in Int : f[k] = f[k - 1] + w /\ g[k + d] = g[(k - 1) + d] + w

LEMMA SameSteps ==
  ASSUME NEW f, NEW g, NEW m, NEW n, NEW d, NEW c, StepAlike(f, g, m, n, d, c)
  PROVE  g[n + d] = f[n] + c
<1>0. /\ m \in Nat /\ n \in Nat /\ d \in Nat /\ c \in Int /\ m <= n
      /\ g[m + d] = f[m] + c
      /\ \A k \in m .. n : f[k] \in Int
      /\ \A k \in m + 1 .. n :
           \E w \in Int : f[k] = f[k - 1] + w /\ g[k + d] = g[(k - 1) + d] + w
  BY DEF StepAlike
<1> DEFINE P == { j \in Nat : m + j <= n => g[(m + j) + d] = f[m + j] + c }
<1>1. 0 \in P
  <2>1. m + 0 = m
    BY <1>0
  <2>2. QED
    BY <1>0, <2>1
<1>2. ASSUME NEW j \in P PROVE j + 1 \in P
  <2>1. j \in Nat
    OBVIOUS
  <2>2. SUFFICES ASSUME m + (j + 1) <= n
                 PROVE  g[(m + (j + 1)) + d] = f[m + (j + 1)] + c
    BY <2>1
  <2>3. PICK k \in m + 1 .. n : k = m + (j + 1)
    BY <1>0, <2>1, <2>2
  <2>4. k - 1 = m + j /\ m + j <= n /\ m + j \in m .. n
    BY <1>0, <2>1, <2>3
  <2>5. g[(k - 1) + d] = f[k - 1] + c /\ f[k - 1] \in Int
    BY <1>0, <2>4
  <2>6. PICK w \in Int : f[k] = f[k - 1] + w /\ g[k + d] = g[(k - 1) + d] + w
    BY <1>0
  <2>7. g[k + d] = f[k] + c
    BY <1>0, <2>5, <2>6
  <2>8. QED
    BY <2>3, <2>7
<1>3. P \in SUBSET Nat
  OBVIOUS
<1> HIDE DEF P
<1>4. P = Nat
  BY <1>1, <1>2, <1>3, NatInd
<1>5. n - m \in P /\ m + (n - m) = n /\ n <= n
  BY <1>0, <1>4
<1>6. QED
  BY <1>5 DEF P

(* Lists whose blocks weigh the same have the same sum; one block that     *)
(* weighs c more makes a sum that is c more.                               *)
LEMMA OneBlockChanged ==
  ASSUME NEW bs \in Seq(Blk), NEW t \in Seq(Blk), Len(t) = Len(bs),
         NEW i \in 1 .. Len(bs), NEW c \in Int,
         Used(t[i]) = Used(bs[i]) + c,
         \A j \in 1 .. Len(bs) : j # i => t[j] = bs[j]
  PROVE  UsedBytes(t) = UsedBytes(bs) + c
<1>1. Len(bs) \in Nat
  BY LenProperties
<1>2. PICK f : Running(bs, f) /\ UsedBytes(bs) = f[Len(bs)]
  BY UsedBytesDef
<1>3. PICK g : Running(t, g) /\ UsedBytes(t) = g[Len(bs)]
  BY UsedBytesDef
<1>4. /\ f[0] = 0 /\ \A k \in 0 .. Len(bs) : f[k] \in Nat
      /\ \A k \in 1 .. Len(bs) : f[k] = f[k - 1] + Used(bs[k])
  BY <1>2 DEF Running
<1>5. /\ g[0] = 0 /\ \A k \in 0 .. Len(bs) : g[k] \in Nat
      /\ \A k \in 1 .. Len(bs) : g[k] = g[k - 1] + Used(t[k])
  BY <1>3 DEF Running
<1>6. \A k \in 1 .. Len(bs) : Used(bs[k]) \in Nat
  BY UsedNat
<1>7. \A k \in 1 .. Len(bs) :
        k # i => \E w \in Int : f[k] = f[k - 1] + w /\ g[k + 0] = g[(k - 1) + 0] + w
  <2>1. TAKE k \in 1 .. Len(bs)
  <2>2. HAVE k # i
  <2>3. k + 0 = k /\ (k - 1) + 0 = k - 1
    OBVIOUS
  <2>4. /\ f[k] = f[k - 1] + Used(bs[k]) /\ g[k] = g[k - 1] + Used(bs[k])
        /\ Used(bs[k]) \in Int
    <3>1. t[k] = bs[k] /\ Used(bs[k]) \in Nat
      BY <1>6, <2>1, <2>2
    <3>2. f[k] = f[k - 1] + Used(bs[k]) /\ g[k] = g[k - 1] + Used(t[k])
      BY <1>4, <1>5, <2>1
    <3>3. QED
      BY ONLY <3>1, <3>2
  <2>5. QED
    BY <2>3, <2>4
<1>8. g[i - 1] = f[i - 1]
  <2>1. PICK m \in Nat : m = i - 1
    OBVIOUS
  <2>2. \A k \in 0 + 1 .. m : k \in 1 .. Len(bs) /\ k # i
    BY <1>1, <2>1
  <2>3. \A k \in 0 .. m : f[k] \in Int
    BY <1>1, <1>4, <2>1
  <2>4. 0 \in Nat /\ 0 \in Int /\ 0 <= m /\ g[0 + 0] = f[0] + 0
    BY <1>4, <1>5
  <2>5. StepAlike(f, g, 0, m, 0, 0)
    BY <1>7, <2>2, <2>3, <2>4 DEF StepAlike
  <2>6. g[m + 0] = f[m] + 0
    BY <2>5, SameSteps
  <2>7. g[m + 0] = f[m] + 0 /\ f[m] \in Int
    BY <2>1, <2>3, <2>6
  <2>8. QED
    BY <2>1, <2>7
<1>9. g[i] = f[i] + c
  <2>1. f[i - 1] \in Nat /\ Used(bs[i]) \in Nat
    BY <1>1, <1>4, <1>6
  <2>2. f[i] = f[i - 1] + Used(bs[i])
        /\ g[i] = f[i - 1] + (Used(bs[i]) + c)
    BY <1>4, <1>5, <1>8
  <2>3. QED
    BY <2>1, <2>2
<1>10. g[Len(bs)] = f[Len(bs)] + c
  <2>1. \A k \in i + 1 .. Len(bs) : k \in 1 .. Len(bs) /\ k # i
    BY <1>1
  <2>2. \A k \in i .. Len(bs) : f[k] \in Int
    BY <1>1, <1>4
  <2>3. g[i + 0] = f[i] + c
    BY <1>9
  <2>4. i \in Nat /\ 0 \in Nat /\ i <= Len(bs) /\ Len(bs) + 0 = Len(bs)
    BY <1>1
  <2>5. StepAlike(f, g, i, Len(bs), 0, c)
    BY <1>1, <1>7, <2>1, <2>2, <2>3, <2>4 DEF StepAlike
  <2>6. g[Len(bs) + 0] = f[Len(bs)] + c
    BY <2>5, SameSteps
  <2>7. QED
    BY <2>4, <2>6
<1>11. QED
  BY <1>2, <1>3, <1>10

(* A list with a block more at its end.                                    *)
LEMMA OneBlockMore ==
  ASSUME NEW bs \in Seq(Blk), NEW b \in Blk
  PROVE  UsedBytes(Append(bs, b)) = UsedBytes(bs) + Used(b)
<1> DEFINE t == Append(bs, b)
<1>1. Len(bs) \in Nat
  BY LenProperties
<1>2. /\ t \in Seq(Blk) /\ Len(t) = Len(bs) + 1 /\ t[Len(bs) + 1] = b
      /\ \A j \in 1 .. Len(bs) : t[j] = bs[j]
  BY AppendProperties
<1> HIDE DEF t
<1>3. PICK f : Running(bs, f) /\ UsedBytes(bs) = f[Len(bs)]
  BY UsedBytesDef
<1>4. PICK g : Running(t, g) /\ UsedBytes(t) = g[Len(t)]
  BY <1>2, UsedBytesDef
<1>5. /\ f[0] = 0 /\ \A k \in 0 .. Len(bs) : f[k] \in Nat
      /\ \A k \in 1 .. Len(bs) : f[k] = f[k - 1] + Used(bs[k])
  BY <1>3 DEF Running
<1>6. g[0] = 0 /\ \A k \in 1 .. Len(bs) + 1 : g[k] = g[k - 1] + Used(t[k])
  BY <1>2, <1>4 DEF Running
<1>7. \A k \in 1 .. Len(bs) : Used(bs[k]) \in Nat
  BY UsedNat
<1>8. \A k \in 0 + 1 .. Len(bs) :
        \E w \in Int : f[k] = f[k - 1] + w /\ g[k + 0] = g[(k - 1) + 0] + w
  <2>1. TAKE k \in 0 + 1 .. Len(bs)
  <2>2. k + 0 = k /\ (k - 1) + 0 = k - 1 /\ k \in 1 .. Len(bs) /\ k \in 1 .. Len(bs) + 1
    BY <1>1
  <2>3. /\ f[k] = f[k - 1] + Used(bs[k]) /\ g[k] = g[k - 1] + Used(bs[k])
        /\ Used(bs[k]) \in Int
    BY <1>2, <1>5, <1>6, <1>7, <2>2
  <2>4. QED
    BY <2>2, <2>3
<1>9. g[Len(bs) + 0] = f[Len(bs)] + 0
  <2>1. 0 \in Nat /\ 0 \in Int /\ 0 <= Len(bs) /\ g[0 + 0] = f[0] + 0
    BY <1>1, <1>5, <1>6
  <2>2. \A k \in 0 .. Len(bs) : f[k] \in Int
    BY <1>5
  <2>3. StepAlike(f, g, 0, Len(bs), 0, 0)
    BY <1>1, <1>8, <2>1, <2>2 DEF StepAlike
  <2>4. QED
    BY <2>3, SameSteps
<1>10. g[Len(bs)] = f[Len(bs)]
  <2>1. g[Len(bs) + 0] = f[Len(bs)] + 0 /\ f[Len(bs)] \in Int
    BY <1>1, <1>5, <1>9
  <2>2. QED
    BY <1>1, <2>1
<1>11. g[Len(bs) + 1] = g[Len(bs)] + Used(b)
  <2>1. Len(bs) + 1 \in 1 .. Len(bs) + 1 /\ (Len(bs) + 1) - 1 = Len(bs)
    BY <1>1
  <2>2. QED
    BY <1>2, <1>6, <2>1
<1>12. QED
  BY <1>2, <1>3, <1>4, <1>10, <1>11 DEF t

LEMMA BytesNat ==
  ASSUME NEW bs \in Seq(Blk)
  PROVE  UsedBytes(bs) \in Nat
<1>1. Len(bs) \in Nat
  BY LenProperties
<1>2. PICK f : Running(bs, f) /\ UsedBytes(bs) = f[Len(bs)]
  BY UsedBytesDef
<1>3. QED
  BY <1>1, <1>2 DEF Running

(* merge_free_blocks makes nothing allocated of what was free, and the     *)
(* reverse: the payload bytes in use stay the same.                        *)
LEMMA AbsorbBytes ==
  ASSUME NEW acc \in Seq(Blk), NEW b \in Blk
  PROVE  /\ Absorb(acc, b, {}) \in Seq(Blk)
         /\ UsedBytes(Absorb(acc, b, {}))
              = UsedBytes(acc) + Used(b)
<1>1. CASE acc # <<>> /\ acc[Len(acc)].free /\ b.free
  <2>1. 1 <= Len(acc) /\ Len(acc) \in Nat
    BY <1>1, EmptySeq, LenProperties
  <2> DEFINE t == Absorb(acc, b, {})
  <2>2. /\ t \in Seq(Blk) /\ Len(t) = Len(acc)
        /\ \A i \in 1 .. Len(acc) - 1 : t[i] = acc[i]
        /\ t[Len(acc)].free
    BY <1>1, <2>1, AbsorbSwallows
  <2> HIDE DEF t
  <2>3. PICK n \in 1 .. Len(acc) : n = Len(acc)
    BY <2>1
  <2>4. acc[n] \in Blk /\ t[n] \in Blk /\ acc[n].free /\ t[n].free
    BY <1>1, <2>2, <2>3, ElementOfSeq
  <2>5. acc[n].free = TRUE /\ t[n].free = TRUE /\ b.free = TRUE
    BY <1>1, <2>4 DEF Blk
  <2>6. Used(acc[n]) = 0 /\ Used(t[n]) = 0 /\ Used(b) = 0
    BY <2>5 DEF Used
  <2>7. Used(t[n]) = Used(acc[n]) + 0 /\ 0 \in Int
    BY <2>6
  <2>8. \A j \in 1 .. Len(acc) : j # n => t[j] = acc[j]
    BY <2>1, <2>2, <2>3
  <2>9. UsedBytes(t) = UsedBytes(acc) + 0
    BY <2>2, <2>7, <2>8, OneBlockChanged
  <2>10. QED
    BY <2>2, <2>6, <2>9 DEF t
<1>2. CASE ~(acc # <<>> /\ acc[Len(acc)].free /\ b.free)
  <2>1. Absorb(acc, b, {}) = Append(acc, b)
    BY <1>2 DEF Absorb
  <2>2. Append(acc, b) \in Seq(Blk)
    BY AppendProperties
  <2>3. UsedBytes(Append(acc, b)) = UsedBytes(acc) + Used(b)
    BY OneBlockMore
  <2>4. QED
    BY <2>1, <2>2, <2>3
<1>3. QED
  BY <1>1, <1>2

LEMMA MergedBytes ==
  ASSUME NEW bs \in Seq(Blk)
  PROVE  UsedBytes(MergeFreeBlocks(bs, {})) = UsedBytes(bs)
<1>1. Len(bs) \in Nat
  BY LenProperties
<1>2. PICK a : /\ a[0] = <<>>
               /\ \A k \in 1 .. Len(bs) : a[k] = Absorb(a[k - 1], bs[k], {})
               /\ MergeFreeBlocks(bs, {}) = a[Len(bs)]
  BY <1>1, MergeFreeBlocksDef
<1>3. PICK f : Running(bs, f) /\ UsedBytes(bs) = f[Len(bs)]
  BY UsedBytesDef
<1>4. f[0] = 0 /\ \A k \in 1 .. Len(bs) : f[k] = f[k - 1] + Used(bs[k])
  BY <1>3 DEF Running
<1>5. \A k \in 1 .. Len(bs) : bs[k] \in Blk
  BY ElementOfSeq
<1> DEFINE P == { m \in Nat : m <= Len(bs) =>
                    a[m] \in Seq(Blk) /\ UsedBytes(a[m]) = f[m] }
<1>6. 0 \in P
  <2>1. PICK e \in Seq(Blk) : e = <<>> /\ Len(e) = 0
    BY EmptySeq
  <2>2. PICK g : Running(e, g) /\ UsedBytes(e) = g[Len(e)]
    BY UsedBytesDef
  <2>3. UsedBytes(e) = 0
    BY <2>1, <2>2 DEF Running
  <2>4. QED
    BY <1>2, <1>4, <2>1, <2>3
<1>7. ASSUME NEW m \in P PROVE m + 1 \in P
  <2>1. SUFFICES ASSUME m + 1 <= Len(bs)
                 PROVE  a[m + 1] \in Seq(Blk) /\ UsedBytes(a[m + 1]) = f[m + 1]
    OBVIOUS
  <2>2. m \in Nat /\ m <= Len(bs) /\ m + 1 \in 1 .. Len(bs) /\ (m + 1) - 1 = m
    BY <1>1, <2>1
  <2>3. a[m] \in Seq(Blk) /\ UsedBytes(a[m]) = f[m]
    BY <2>2
  <2>4. a[m + 1] = Absorb(a[m], bs[m + 1], {}) /\ f[m + 1] = f[m] + Used(bs[m + 1])
    BY <1>2, <1>4, <2>2
  <2>5. QED
    BY <1>5, <2>2, <2>3, <2>4, AbsorbBytes
<1>8. P \in SUBSET Nat
  OBVIOUS
<1> HIDE DEF P
<1>9. P = Nat
  BY <1>6, <1>7, <1>8, NatInd
<1>10. QED
  BY <1>1, <1>2, <1>3, <1>9 DEF P

(* One flag set or cleared.                                                *)
LEMMA FlagChanged ==
  ASSUME NEW bs \in Seq(Blk), NEW i \in 1 .. Len(bs), NEW free \in BOOLEAN
  PROVE  LET t == [bs EXCEPT ![i].free = free]
         IN  /\ t \in Seq(Blk) /\ Len(t) = Len(bs)
             /\ t[i].addr = bs[i].addr /\ t[i].size = bs[i].size /\ t[i].free = free
             /\ \A j \in 1 .. Len(bs) : j # i => t[j] = bs[j]
<1>1. PICK b \in Blk : b = bs[i]
  BY ElementOfSeq
<1> DEFINE c == [addr |-> b.addr, size |-> b.size, free |-> free]
<1>2. c \in Blk
  BY DEF Blk
<1>3. [b EXCEPT !.free = free] = c
  BY Remarked, Zenon
<1>4. c.addr = b.addr /\ c.size = b.size /\ c.free = free
  OBVIOUS
<1> HIDE DEF c
<1> DEFINE t == [bs EXCEPT ![i] = c]
<1>5. [bs EXCEPT ![i].free = free] = t
  BY <1>1, <1>3
<1>6. /\ t \in Seq(Blk) /\ Len(t) = Len(bs)
      /\ \A j \in 1 .. Len(bs) : t[j] = IF j = i THEN c ELSE bs[j]
  BY <1>2, ExceptSeq
<1> HIDE DEF t
<1>7. QED
  BY <1>1, <1>4, <1>5, <1>6

(* A split leaves them the same when the block split is free.              *)
LEMMA SplitBytes ==
  ASSUME NEW bs \in Seq(Blk), NEW i \in 1 .. Len(bs), NEW size \in Nat,
         bs[i].free, bs[i].size > size + HeaderSize + 16
  PROVE  UsedBytes(SplitBlock(bs, i, size)) = UsedBytes(bs)
<1>1. PICK s \in Seq(Blk) :
        /\ s = SplitBlock(bs, i, size) /\ Len(s) = Len(bs) + 1
        /\ \A j \in 1 .. i - 1 : s[j] = bs[j]
        /\ s[i] = Block(bs[i].addr, size, bs[i].free)
        /\ s[i + 1] = Block(bs[i].addr + HeaderSize + size,
                            bs[i].size - size - HeaderSize, TRUE)
        /\ \A j \in i + 2 .. Len(bs) + 1 : s[j] = bs[j - 1]
  BY SplitElements
<1>2. Len(bs) \in Nat
  BY LenProperties
<1>3. PICK f : Running(bs, f) /\ UsedBytes(bs) = f[Len(bs)]
  BY UsedBytesDef
<1>4. PICK g : Running(s, g) /\ UsedBytes(s) = g[Len(s)]
  BY UsedBytesDef
<1>5. /\ f[0] = 0 /\ \A k \in 0 .. Len(bs) : f[k] \in Nat
      /\ \A k \in 1 .. Len(bs) : f[k] = f[k - 1] + Used(bs[k])
  BY <1>3 DEF Running
<1>6. /\ g[0] = 0 /\ \A k \in 0 .. Len(bs) + 1 : g[k] \in Nat
      /\ \A k \in 1 .. Len(bs) + 1 : g[k] = g[k - 1] + Used(s[k])
  BY <1>1, <1>4 DEF Running
<1>7. \A k \in 1 .. Len(bs) : Used(bs[k]) \in Nat
  BY UsedNat
<1>8. PICK m \in Nat : m = i - 1
  OBVIOUS
<1>9. g[m] = f[m]
  <2>1. 0 \in Nat /\ 0 \in Int /\ 0 <= m /\ g[0 + 0] = f[0] + 0
    BY <1>5, <1>6
  <2>2. \A k \in 0 .. m : f[k] \in Int
    BY <1>2, <1>5, <1>8
  <2>3. ASSUME NEW k \in 0 + 1 .. m
        PROVE  \E w \in Int : f[k] = f[k - 1] + w /\ g[k + 0] = g[(k - 1) + 0] + w
    <3>1. /\ k + 0 = k /\ (k - 1) + 0 = k - 1
          /\ k \in 1 .. i - 1 /\ k \in 1 .. Len(bs) /\ k \in 1 .. Len(bs) + 1
      BY <1>2, <1>8
    <3>2. /\ f[k] = f[k - 1] + Used(bs[k])
          /\ g[k] = g[k - 1] + Used(bs[k]) /\ Used(bs[k]) \in Int
      BY <1>1, <1>5, <1>6, <1>7, <3>1
    <3>3. QED
      BY <3>1, <3>2
  <2>4. StepAlike(f, g, 0, m, 0, 0)
    BY <2>1, <2>2, <2>3 DEF StepAlike
  <2>5. g[m + 0] = f[m] + 0
    BY <2>4, SameSteps
  <2>6. f[m] \in Int /\ m + 0 = m
    BY <1>8, <2>2
  <2>7. QED
    BY <2>5, <2>6
<1>10. g[i + 1] = f[i]
  <2>1. bs[i].free = TRUE
    <3>1. bs[i] \in Blk
      BY ElementOfSeq
    <3>2. QED
      BY <3>1 DEF Blk
  <2>2. s[i].free = TRUE /\ s[i + 1].free = TRUE
    BY <1>1, <2>1 DEF Block
  <2>3. Used(bs[i]) = 0 /\ Used(s[i]) = 0 /\ Used(s[i + 1]) = 0
    BY <2>1, <2>2 DEF Used
  <2>4. /\ i \in 1 .. Len(bs) + 1 /\ i + 1 \in 1 .. Len(bs) + 1 /\ (i + 1) - 1 = i
        /\ m \in 0 .. Len(bs)
    BY <1>2, <1>8
  <2>5. f[i] = f[m] + 0 /\ g[i] = g[m] + 0 /\ g[i + 1] = g[i] + 0 /\ f[m] \in Nat
    BY <1>5, <1>6, <1>8, <2>3, <2>4
  <2>6. QED
    BY <1>9, <2>5
<1>11. g[Len(bs) + 1] = f[Len(bs)]
  <2>1. /\ i \in Nat /\ 1 \in Nat /\ 0 \in Int /\ i <= Len(bs) /\ f[i] \in Int
        /\ g[i + 1] = f[i] + 0
    BY <1>2, <1>5, <1>10
  <2>2. \A k \in i .. Len(bs) : f[k] \in Int
    BY <1>2, <1>5
  <2>3. ASSUME NEW k \in i + 1 .. Len(bs)
        PROVE  \E w \in Int : f[k] = f[k - 1] + w /\ g[k + 1] = g[(k - 1) + 1] + w
    <3>1. /\ (k - 1) + 1 = (k + 1) - 1 /\ (k + 1) - 1 = k
          /\ k \in 1 .. Len(bs) /\ k + 1 \in 1 .. Len(bs) + 1
          /\ k + 1 \in i + 2 .. Len(bs) + 1
      BY <1>2
    <3>2. s[k + 1] = bs[k]
      BY <1>1, <3>1
    <3>3. /\ f[k] = f[k - 1] + Used(bs[k])
          /\ g[k + 1] = g[(k - 1) + 1] + Used(bs[k])
          /\ Used(bs[k]) \in Int
      BY <1>5, <1>6, <1>7, <3>1, <3>2
    <3>4. QED
      BY <3>3
  <2>4. StepAlike(f, g, i, Len(bs), 1, 0)
    BY <1>2, <2>1, <2>2, <2>3 DEF StepAlike
  <2>5. g[Len(bs) + 1] = f[Len(bs)] + 0
    BY <2>4, SameSteps
  <2>6. f[Len(bs)] \in Int
    BY <1>2, <1>5
  <2>7. QED
    BY <2>5, <2>6
<1>12. QED
  BY <1>1, <1>3, <1>4, <1>11

(* malloc takes from the free bytes what the block it grants has.          *)
LEMMA MarkedBytes ==
  ASSUME NEW bs \in Seq(Blk), NEW i \in 1 .. Len(bs), bs[i].free
  PROVE  LET t == [bs EXCEPT ![i].free = FALSE]
         IN  UsedBytes(t) = UsedBytes(bs) + t[i].size
<1> DEFINE t == [bs EXCEPT ![i].free = FALSE]
<1>1. /\ t \in Seq(Blk) /\ Len(t) = Len(bs)
      /\ t[i].size = bs[i].size /\ t[i].free = FALSE
      /\ \A j \in 1 .. Len(bs) : j # i => t[j] = bs[j]
  BY FlagChanged
<1> HIDE DEF t
<1>2. bs[i] \in Blk
  BY ElementOfSeq
<1>3. bs[i].free = TRUE /\ bs[i].size \in Nat
  BY <1>2 DEF Blk
<1>4. Used(bs[i]) = 0 /\ Used(t[i]) = t[i].size
  BY <1>1, <1>3 DEF Used
<1>5. Used(t[i]) = Used(bs[i]) + t[i].size /\ t[i].size \in Int
  BY <1>1, <1>3, <1>4
<1>6. UsedBytes(t) = UsedBytes(bs) + t[i].size
  BY <1>1, <1>5, OneBlockChanged
<1>7. QED
  BY <1>6 DEF t

LEMMA AllocatedBytes ==
  ASSUME NEW bs \in Seq(Blk), NEW n \in Nat, Candidates(bs, AlignUp(n), {}) # {}
  PROVE  LET i == FindFreeBlock(bs, AlignUp(n), {})
             t == Allocate(bs, i, AlignUp(n))
         IN  UsedBytes(t) = UsedBytes(bs) + t[i].size
<1>1. PICK size \in Nat : size = AlignUp(n)
  BY Aligned
<1>2. PICK i \in 1 .. Len(bs) : i = FindFreeBlock(bs, size, {}) /\ bs[i].free
  BY <1>1, Chosen
<1> DEFINE t == Allocate(bs, i, size)
<1>3. UsedBytes(t) = UsedBytes(bs) + t[i].size
  <2>1. CASE bs[i].size > size + HeaderSize + 16
    <3>1. PICK s \in Seq(Blk) :
            /\ s = SplitBlock(bs, i, size) /\ Len(s) = Len(bs) + 1
            /\ s[i] = Block(bs[i].addr, size, bs[i].free)
      BY <2>1, SplitElements
    <3>2. i \in 1 .. Len(s) /\ s[i].free
      <4>1. Len(bs) \in Nat
        BY LenProperties
      <4>2. QED
        BY <1>2, <3>1, <4>1 DEF Block
    <3>3. t = [s EXCEPT ![i].free = FALSE]
      BY <3>1 DEF Allocate
    <3>4. UsedBytes(t) = UsedBytes(s) + t[i].size
      BY <3>2, <3>3, MarkedBytes
    <3>5. UsedBytes(s) = UsedBytes(bs)
      BY <1>2, <2>1, <3>1, SplitBytes
    <3>6. QED
      BY <3>4, <3>5
  <2>2. CASE ~(bs[i].size > size + HeaderSize + 16)
    <3>1. t = [bs EXCEPT ![i].free = FALSE]
      BY <2>2 DEF Allocate, SplitBlock
    <3>2. QED
      BY <1>2, <3>1, MarkedBytes
  <2>3. QED
    BY <2>1, <2>2
<1>4. QED
  BY <1>1, <1>2, <1>3

(* free gives back what the block has.                                     *)
LEMMA ReleasedBytes ==
  ASSUME NEW bs \in Seq(Blk), Tiles(bs), NEW p \in Held(bs)
  PROVE  UsedBytes(Release(bs, p, {})) + bs[BlockAt(bs, p)].size
           = UsedBytes(bs)
<1>1. PICK k \in 1 .. Len(bs) : k = BlockAt(bs, p)
  BY Found
<1>2. bs[k] \in Taken(bs)
  BY <1>1, Found
<1>3. bs[k].free = FALSE /\ bs[k].size \in Nat
  BY <1>2 DEF Taken, Blk
<1> DEFINE t == [bs EXCEPT ![k].free = TRUE]
<1>4. /\ t \in Seq(Blk) /\ Len(t) = Len(bs) /\ t[k].free
      /\ \A j \in 1 .. Len(bs) : j # k => t[j] = bs[j]
  <2>1. PICK flag \in BOOLEAN : flag = TRUE
    OBVIOUS
  <2>2. t = [bs EXCEPT ![k].free = flag]
    BY <2>1
  <2> HIDE DEF t
  <2>3. /\ t \in Seq(Blk) /\ Len(t) = Len(bs) /\ t[k].free = flag
        /\ \A j \in 1 .. Len(bs) : j # k => t[j] = bs[j]
    BY <2>2, FlagChanged
  <2>4. QED
    BY <2>1, <2>3
<1>5. Release(bs, p, {}) = MergeFreeBlocks(t, {})
  BY <1>1 DEF Release
<1> HIDE DEF t
<1>6. Used(bs[k]) = bs[k].size /\ Used(t[k]) = 0
  BY <1>3, <1>4 DEF Used
<1>7. Used(t[k]) = Used(bs[k]) + (0 - bs[k].size)
      /\ 0 - bs[k].size \in Int
  BY <1>3, <1>6
<1>8. UsedBytes(t) = UsedBytes(bs) + (0 - bs[k].size)
  BY <1>4, <1>7, OneBlockChanged
<1>9. UsedBytes(Release(bs, p, {})) = UsedBytes(t)
  BY <1>4, <1>5, MergedBytes
<1>10. UsedBytes(bs) \in Nat
  BY BytesNat
<1>11. QED
  BY <1>1, <1>3, <1>8, <1>9, <1>10

-----------------------------------------------------------------------------
(* The counter free_memory.  Headers and payloads together are the heap.   *)
LEMMA OneHeaderMore ==
  ASSUME NEW h \in Nat, NEW k \in Nat
  PROVE  h * k \in Nat /\ h * (k + 1) = h * k + h
  OBVIOUS

LEMMA TilingBytes ==
  ASSUME NEW bs \in Seq(Blk), Tiles(bs)
  PROVE  /\ PayloadBytes(bs, { i \in 1 .. Len(bs) : bs[i].free }) + UsedBytes(bs)
              + HeaderSize * Len(bs) = HeapSize
         /\ PayloadBytes(bs, { i \in 1 .. Len(bs) : bs[i].free }) \in Nat
<1>1. Len(bs) \in Nat /\ 1 <= Len(bs) /\ HeaderSize \in Nat /\ HeapSize \in Nat
  BY EmptySeq, LenProperties, Sizes DEF Tiles
<1>2. PICK f : Running(bs, f) /\ UsedBytes(bs) = f[Len(bs)]
  BY UsedBytesDef
<1> DEFINE S == { i \in 1 .. Len(bs) : bs[i].free }
<1>3. PICK g : /\ g[0] = 0
               /\ \A k \in 1 .. Len(bs) :
                    g[k] = g[k - 1] + IF k \in S THEN bs[k].size ELSE 0
               /\ PayloadBytes(bs, S) = g[Len(bs)]
  BY PayloadBytesDef
<1> DEFINE H(k) == HeaderSize * k
<1>4. H(0) = 0 /\ \A k \in Nat : H(k) \in Nat /\ H(k + 1) = H(k) + HeaderSize
  BY <1>1, OneHeaderMore
<1>5. f[0] = 0 /\ \A k \in 1 .. Len(bs) : f[k] = f[k - 1] + Used(bs[k])
  BY <1>2 DEF Running
<1>6. \A k \in 1 .. Len(bs) : bs[k].addr \in Nat /\ bs[k].size \in Nat
  BY BlockNumbers
<1>7. \A k \in 1 .. Len(bs) :
        (IF k \in S THEN bs[k].size ELSE 0) + Used(bs[k]) = bs[k].size
  BY <1>6 DEF Used
<1>8. \A k \in 1 .. Len(bs) : Used(bs[k]) \in Nat
                              /\ (IF k \in S THEN bs[k].size ELSE 0) \in Nat
  BY <1>6 DEF Used
<1>9. /\ bs[1].addr = 0 /\ EndOf(bs[Len(bs)]) = HeapSize
      /\ \A k \in 1 .. Len(bs) - 1 : bs[k + 1].addr = EndOf(bs[k])
  BY DEF Tiles
<1> DEFINE w(k) == IF k \in S THEN bs[k].size ELSE 0
<1>10. \A k \in 1 .. Len(bs) : g[k] = g[k - 1] + w(k) /\ w(k) \in Nat
                               /\ w(k) + Used(bs[k]) = bs[k].size
  BY <1>3, <1>7, <1>8
<1> HIDE DEF H, w
<1> DEFINE P == { m \in Nat : m + 1 <= Len(bs) =>
                    /\ g[m + 1] \in Nat /\ f[m + 1] \in Nat
                    /\ g[m + 1] + f[m + 1] + H(m + 1) = EndOf(bs[m + 1]) }
<1>11. 0 \in P
  <2>1. g[1] = 0 + w(1) /\ f[1] = 0 + Used(bs[1]) /\ H(1) = 0 + HeaderSize
    <3>1. 1 \in 1 .. Len(bs) /\ 1 - 1 = 0 /\ 0 + 1 = 1
      BY <1>1
    <3>2. QED
      BY <1>3, <1>4, <1>5, <1>10, <3>1
  <2>2. /\ w(1) \in Nat /\ Used(bs[1]) \in Nat /\ bs[1].size \in Nat
        /\ w(1) + Used(bs[1]) = bs[1].size
    BY <1>1, <1>6, <1>8, <1>10
  <2>3. EndOf(bs[1]) = 0 + HeaderSize + bs[1].size
    BY <1>9 DEF EndOf
  <2>4. g[1] \in Nat /\ f[1] \in Nat /\ g[1] + f[1] + H(1) = EndOf(bs[1])
    BY <1>1, <2>1, <2>2, <2>3
  <2>5. QED
    BY <2>4
<1>12. ASSUME NEW m \in P PROVE m + 1 \in P
  <2>1. m \in Nat
    OBVIOUS
  <2>2. SUFFICES ASSUME m + 2 <= Len(bs)
                 PROVE  /\ g[m + 2] \in Nat /\ f[m + 2] \in Nat
                        /\ g[m + 2] + f[m + 2] + H(m + 2) = EndOf(bs[m + 2])
    BY <2>1
  <2>3. PICK k \in 1 .. Len(bs) - 1 : k = m + 1
    BY <1>1, <2>1, <2>2
  <2>4. g[k] \in Nat /\ f[k] \in Nat /\ g[k] + f[k] + H(k) = EndOf(bs[k])
    BY <1>1, <2>3
  <2>5. k + 1 \in 1 .. Len(bs) /\ (k + 1) - 1 = k /\ k \in Nat /\ k \in 1 .. Len(bs)
    BY <1>1
  <2>6. /\ g[k + 1] = g[k] + w(k + 1) /\ f[k + 1] = f[k] + Used(bs[k + 1])
        /\ H(k + 1) = H(k) + HeaderSize /\ H(k) \in Nat
    BY <1>4, <1>5, <1>10, <2>5
  <2>7. /\ w(k + 1) \in Nat /\ Used(bs[k + 1]) \in Nat /\ bs[k + 1].size \in Nat
        /\ w(k + 1) + Used(bs[k + 1]) = bs[k + 1].size
    BY <1>6, <1>8, <1>10, <2>5
  <2>8. EndOf(bs[k + 1]) = EndOf(bs[k]) + HeaderSize + bs[k + 1].size
    BY <1>9 DEF EndOf
  <2>9. PICK c \in Nat : c = EndOf(bs[k])
    BY <1>1, <2>4, <2>6
  <2>10. g[k + 1] + f[k + 1] + H(k + 1) = c + HeaderSize + bs[k + 1].size
    <3>1. PICK x \in Nat, y \in Nat, z \in Nat : x = g[k] /\ y = f[k] /\ z = H(k)
      BY <2>4, <2>6
    <3>2. PICK r \in Nat, s \in Nat, t \in Nat :
            r = w(k + 1) /\ s = Used(bs[k + 1]) /\ t = bs[k + 1].size
      BY <2>7
    <3>3. PICK hs \in Nat : hs = HeaderSize
      BY <1>1
    <3>4. x + y + z = c /\ r + s = t
      BY <2>4, <2>7, <2>9, <3>1, <3>2
    <3>5. (x + r) + (y + s) + (z + hs) = c + hs + t
      BY <3>4
    <3>6. g[k + 1] = x + r /\ f[k + 1] = y + s /\ H(k + 1) = z + hs
      BY <2>6, <3>1, <3>2, <3>3, Zenon
    <3>7. QED
      BY <3>2, <3>3, <3>5, <3>6, Zenon
  <2>11. g[k + 1] \in Nat /\ f[k + 1] \in Nat
    <3>1. PICK x \in Nat, y \in Nat : x = g[k] /\ y = f[k]
      BY <2>4
    <3>2. PICK r \in Nat, s \in Nat : r = w(k + 1) /\ s = Used(bs[k + 1])
      BY <2>7
    <3>3. x + r \in Nat /\ y + s \in Nat
      OBVIOUS
    <3>4. QED
      BY <2>6, <3>1, <3>2, <3>3, Zenon
  <2>12. k + 1 = m + 2
    BY <2>1, <2>3
  <2>13. QED
    BY <2>8, <2>9, <2>10, <2>11, <2>12
<1>13. P \in SUBSET Nat
  OBVIOUS
<1> HIDE DEF P
<1>14. Len(bs) - 1 \in P
  <2>1. P = Nat
    BY <1>11, <1>12, <1>13, NatInd
  <2>2. QED
    BY <1>1, <2>1
<1>15. (Len(bs) - 1) + 1 = Len(bs)
  BY <1>1
<1>16. g[Len(bs)] \in Nat /\ g[Len(bs)] + f[Len(bs)] + H(Len(bs)) = EndOf(bs[Len(bs)])
  BY <1>1, <1>14, <1>15 DEF P
<1>17. QED
  BY <1>2, <1>3, <1>9, <1>16 DEF H

(* Each call moves as many bytes between the counter and the blocks.       *)
LEMMA GrantBytes ==
  ASSUME HInv, NEW n \in Nat, NEW asked, NEW filled, MallocGrants(n, asked, filled),
         freeMemory \in Int
  PROVE  freeMemory' \in Int
         /\ freeMemory' + UsedBytes(blocks') = freeMemory + UsedBytes(blocks)
<1> DEFINE i == FindFreeBlock(blocks, AlignUp(n), {})
           t == Allocate(blocks, i, AlignUp(n))
<1>1. /\ Candidates(blocks, AlignUp(n), {}) # {}
      /\ blocks' = t /\ freeMemory' = freeMemory - t[i].size
  BY DEF MallocGrants, HInv
<1>2. blocks \in Seq(Blk) /\ Tiles(blocks)
  BY DEF HInv, Tiling
<1>3. Granted(blocks, i, AlignUp(n), t)
  BY <1>1, <1>2, AllocatedList
<1>4. UsedBytes(t) = UsedBytes(blocks) + t[i].size
  BY <1>1, <1>2, AllocatedBytes
<1> HIDE DEF i, t
<1>5. t \in Seq(Blk) /\ i \in 1 .. Len(t)
  BY <1>3 DEF Granted
<1>6. t[i].size \in Nat /\ UsedBytes(blocks) \in Nat
  BY <1>2, <1>5, BlockNumbers, BytesNat
<1>7. QED
  BY <1>1, <1>4, <1>6

LEMMA FreeBytes ==
  ASSUME HInv, NEW p \in DOMAIN owned, Free(p), freeMemory \in Int
  PROVE  freeMemory' \in Int
         /\ freeMemory' + UsedBytes(blocks') = freeMemory + UsedBytes(blocks)
<1>1. /\ blocks' = Release(blocks, p, {})
      /\ freeMemory' = freeMemory + blocks[BlockAt(blocks, p)].size
  BY DEF Free, Returned, HInv
<1>2. blocks \in Seq(Blk) /\ Tiles(blocks) /\ p \in Held(blocks)
  BY DEF HInv, Tiling
<1>3. UsedBytes(Release(blocks, p, {})) + blocks[BlockAt(blocks, p)].size = UsedBytes(blocks)
  BY <1>2, ReleasedBytes
<1>4. Release(blocks, p, {}) \in Seq(Blk)
  BY <1>2, ReleasedList
<1>5. blocks[BlockAt(blocks, p)].size \in Nat /\ UsedBytes(Release(blocks, p, {})) \in Nat
  BY <1>2, <1>4, Found, BlockNumbers, BytesNat
<1>6. QED
  BY <1>1, <1>3, <1>5

(* realloc frees the old block after malloc has changed the list: it is    *)
(* the same block with the same size as before.                            *)
LEMMA MoveBytes ==
  ASSUME HInv, NEW p \in DOMAIN owned, NEW n \in Nat, n + 7 < SizeMod,
         ReallocMoves(p, n), freeMemory \in Int
  PROVE  freeMemory' \in Int
         /\ freeMemory' + UsedBytes(blocks') = freeMemory + UsedBytes(blocks)
<1> DEFINE i == FindFreeBlock(blocks, AlignUp(n), {})
           t == Allocate(blocks, i, AlignUp(n))
           old == blocks[BlockAt(blocks, p)]
           new == t[BlockAt(t, p)]
<1>1. /\ Candidates(blocks, AlignUp(n), {}) # {}
      /\ blocks' = Release(t, p, {})
      /\ freeMemory' = (freeMemory - t[i].size) + new.size
  BY MoveIntact DEF ReallocMoves, Returned, HInv
<1>2. blocks \in Seq(Blk) /\ Tiles(blocks) /\ p \in Held(blocks)
  BY DEF HInv, Tiling
<1>3. Granted(blocks, i, AlignUp(n), t)
  BY <1>1, <1>2, AllocatedList
<1>4. UsedBytes(t) = UsedBytes(blocks) + t[i].size
  BY <1>1, <1>2, AllocatedBytes
<1>5. old \in Taken(blocks) /\ Payload(old) = p
  BY <1>2, Found
<1> HIDE DEF i, t, old
<1>6. t \in Seq(Blk) /\ Tiles(t) /\ i \in 1 .. Len(t) /\ Taken(blocks) \subseteq Taken(t)
  BY <1>3 DEF Granted
<1>7. p \in Held(t)
  BY <1>5, <1>6 DEF Held
<1>8. new \in Taken(t) /\ Payload(new) = p
  BY <1>6, <1>7, Found
<1>9. UsedBytes(Release(t, p, {})) + new.size = UsedBytes(t)
  BY <1>6, <1>7, ReleasedBytes
<1> HIDE DEF new
<1>10. new = old
  BY <1>5, <1>6, <1>8, OneEach
<1>11. Release(t, p, {}) \in Seq(Blk)
  BY <1>6, <1>7, ReleasedList
<1>12. old.size \in Nat
  BY <1>5 DEF Taken, Blk
<1>13. t[i].size \in Nat /\ UsedBytes(blocks) \in Nat /\ UsedBytes(Release(t, p, {})) \in Nat
  BY <1>2, <1>6, <1>11, BlockNumbers, BytesNat
<1>14. UsedBytes(Release(t, p, {})) + old.size = UsedBytes(blocks) + t[i].size
  BY <1>4, <1>9, <1>10
<1>15. QED
  BY <1>1, <1>10, <1>12, <1>13, <1>14

(* What every call keeps of the counter, and of what the client is told:   *)
(* free bytes and bytes in use add up to what memory_init had.             *)
AInv ==
  /\ HInv
  /\ freeMemory \in Int
  /\ freeMemory + UsedBytes(blocks) = HeapSize - HeaderSize
  /\ \A p \in DOMAIN owned : owned[p] \in Nat
  /\ ret = NULL \/ ret \in DOMAIN owned

LEMMA AInvInit == Init => AInv
<1> SUFFICES ASSUME Init PROVE AInv
  OBVIOUS
<1> DEFINE b == Block(0, HeapSize - HeaderSize, TRUE)
<1>1. HeapSize - HeaderSize \in Nat
  BY HeapAssumption
<1>2. b \in Blk /\ b.free
  BY <1>1 DEF Blk, Block
<1>3. /\ blocks = <<b>> /\ DOMAIN owned = {} /\ ret = NULL
      /\ freeMemory = HeapSize - HeaderSize
  BY DEF Init
<1> HIDE DEF b
<1>4. blocks \in Seq(Blk) /\ Len(blocks) = 1 /\ blocks[1] = b
  BY <1>2, <1>3
<1>5. PICK f : Running(blocks, f) /\ UsedBytes(blocks) = f[Len(blocks)]
  BY <1>4, UsedBytesDef
<1>6. f[1] = f[1 - 1] + Used(b) /\ f[0] = 0
  BY <1>4, <1>5 DEF Running
<1>7. UsedBytes(blocks) = 0
  BY <1>2, <1>4, <1>5, <1>6 DEF Used
<1>8. QED
  BY <1>1, <1>3, <1>7, HInvInit DEF AInv

LEMMA AInvNext == RequestsFit /\ AInv /\ [Next]_vars => AInv'
<1> SUFFICES ASSUME RequestsFit, AInv, [Next]_vars PROVE AInv'
  OBVIOUS
<1>1. /\ HInv /\ freeMemory \in Int
      /\ freeMemory + UsedBytes(blocks) = HeapSize - HeaderSize
      /\ \A p \in DOMAIN owned : owned[p] \in Nat
      /\ ret = NULL \/ ret \in DOMAIN owned
  BY DEF AInv
<1>2. HInv'
  BY <1>1, HInvNext
<1>3. ASSUME NEW k \in Asked, NEW filled \in Nat, MallocGrants(k, k, filled)
      PROVE  AInv'
  <2>0. k \in Nat
    BY AskedFits
  <2>1. /\ freeMemory' \in Int
        /\ freeMemory' + UsedBytes(blocks') = freeMemory + UsedBytes(blocks)
    BY <1>1, <1>3, <2>0, GrantBytes
  <2>2. owned' = Remember(owned, ret', k)
    BY <1>3 DEF MallocGrants
  <2>3. ret' \in DOMAIN owned' /\ \A p \in DOMAIN owned' : owned'[p] \in Nat
    BY <1>1, <2>0, <2>2 DEF Remember
  <2>4. QED
    BY <1>1, <1>2, <2>1, <2>3 DEF AInv
<1>6. ASSUME NEW p \in DOMAIN owned, Free(p) PROVE AInv'
  <2>1. /\ freeMemory' \in Int
        /\ freeMemory' + UsedBytes(blocks') = freeMemory + UsedBytes(blocks)
    BY <1>1, <1>6, FreeBytes
  <2>2. owned' = Forget(owned, p) /\ ret' = NULL
    BY <1>6 DEF Free
  <2>3. \A q \in DOMAIN owned' : owned'[q] \in Nat
    BY <1>1, <2>2 DEF Forget
  <2>4. QED
    BY <1>1, <1>2, <2>1, <2>2, <2>3 DEF AInv
<1>7. ASSUME NEW p \in DOMAIN owned, NEW n \in Requests, ReallocInPlace(p, n)
      PROVE  AInv'
  <2>1. /\ blocks' = blocks /\ freeMemory' = freeMemory
        /\ owned' = Remember(owned, p, n) /\ ret' = p
    BY <1>7 DEF ReallocInPlace
  <2>2. ret' \in DOMAIN owned' /\ \A q \in DOMAIN owned' : owned'[q] \in Nat
    BY <1>1, <2>1, SizesAreNat DEF Remember
  <2>3. QED
    BY <1>1, <1>2, <2>1, <2>2 DEF AInv
<1>8. ASSUME NEW p \in DOMAIN owned, NEW n \in Requests, ReallocMoves(p, n)
      PROVE  AInv'
  <2>1. /\ freeMemory' \in Int
        /\ freeMemory' + UsedBytes(blocks') = freeMemory + UsedBytes(blocks)
    BY <1>1, <1>8, AskedFits, MoveBytes
  <2>2. owned' = Remember(Forget(owned, p), ret', n)
    BY <1>8 DEF ReallocMoves
  <2>3. ret' \in DOMAIN owned' /\ \A q \in DOMAIN owned' : owned'[q] \in Nat
    BY <1>1, <2>2, SizesAreNat DEF Remember, Forget
  <2>4. QED
    BY <1>1, <1>2, <2>1, <2>3 DEF AInv
<1>9. CASE UNCHANGED <<blocks, freeMemory, owned>> /\ ret' = NULL
  BY <1>1, <1>2, <1>9 DEF AInv
<1>10. CASE UNCHANGED vars
  BY <1>1, <1>2, <1>10 DEF AInv, vars
<1>11. CASE Next
  BY <1>1, <1>3, <1>6, <1>7, <1>8, <1>9, <1>11, HeapStepCases
<1>12. QED
  BY <1>10, <1>11

LEMMA BlockPositions ==
  ASSUME AInv
  PROVE  /\ FreeBlocks = { i \in 1 .. Len(blocks) : blocks[i].free }
         /\ AllocatedBlocks = { i \in 1 .. Len(blocks) : ~blocks[i].free }
<1>1. blocks \in Seq(Blk) /\ DOMAIN blocks = 1 .. Len(blocks)
  BY LenProperties DEF AInv, HInv
<1>2. QED
  BY <1>1 DEF FreeBlocks, AllocatedBlocks

LEMMA OneHeaderLess ==
  ASSUME NEW h \in Nat, NEW n \in Nat \ {0}
  PROVE  h * n = h * (n - 1) + h /\ h * (n - 1) \in Nat
  OBVIOUS

LEMMA CounterExact ==
  ASSUME AInv
  PROVE  AccountingExact /\ freeMemory \in 0 .. HeapSize
<1>1. /\ blocks \in Seq(Blk) /\ Tiles(blocks)
      /\ freeMemory \in Int
      /\ freeMemory + UsedBytes(blocks) = HeapSize - HeaderSize
  BY DEF AInv, HInv, Tiling
<1>2. Len(blocks) \in Nat \ {0} /\ HeaderSize \in Nat /\ HeapSize \in Nat
  BY <1>1, EmptySeq, LenProperties, Sizes DEF Tiles
<1>3. /\ PayloadBytes(blocks, FreeBlocks) + UsedBytes(blocks)
           + HeaderSize * Len(blocks) = HeapSize
      /\ PayloadBytes(blocks, FreeBlocks) \in Nat
  BY <1>1, TilingBytes, BlockPositions
<1>4. UsedBytes(blocks) \in Nat /\ PayloadBytes(blocks, AllocatedBlocks) = UsedBytes(blocks)
  BY <1>1, BytesNat, BlockPositions DEF UsedBytes
<1>5. PICK less \in Nat : less = HeaderSize * (Len(blocks) - 1)
                          /\ HeaderSize * Len(blocks) = less + HeaderSize
  BY <1>2, OneHeaderLess
<1>6. freeMemory = PayloadBytes(blocks, FreeBlocks) + less
  BY <1>1, <1>2, <1>3, <1>4, <1>5
<1>7. UsedMemory = HeaderSize + UsedBytes(blocks)
  BY <1>1, <1>2, <1>4 DEF UsedMemory
<1>8. freeMemory \in 0 .. HeapSize
  BY <1>1, <1>2, <1>3, <1>4, <1>6
<1>9. QED
  BY <1>4, <1>5, <1>6, <1>7, <1>8 DEF AccountingExact

(* The counter never drifts from the list, for every order of calls whose  *)
(* sizes do not wrap: what mem prints as free is the free payload bytes    *)
(* and the split headers.                                                  *)
THEOREM AccountingHolds == RequestsFit => (Spec => []AccountingExact)
<1>1. SUFFICES ASSUME RequestsFit PROVE Spec => []AccountingExact
  OBVIOUS
<1>2. AInv /\ [Next]_vars => AInv'
  BY <1>1, AInvNext
<1>3. QED
  BY <1>2, CounterExact, AInvInit, PTL DEF Spec

(* free_memory stays in 0 .. HEAP_SIZE, so its size_t never wraps, and     *)
(* every block and every pointer handed out lies in heap[].                *)
THEOREM HeapTyped == RequestsFit => (Spec => []TypeOK)
<1>0. SUFFICES ASSUME RequestsFit PROVE Spec => []TypeOK
  OBVIOUS
<1>1. ASSUME AInv PROVE TypeOK
  <2>1. /\ blocks \in Seq(Blk) /\ Tiles(blocks) /\ Held(blocks) = DOMAIN owned
        /\ \A p \in DOMAIN owned : owned[p] \in Nat
        /\ ret = NULL \/ ret \in DOMAIN owned
        /\ spoiled = {}
    BY <1>1 DEF AInv, HInv, Tiling
  <2>2. \A b \in Blk : EndOf(b) <= HeapSize =>
          b \in BlockType /\ Payload(b) \in 0 .. HeapSize
    BY Sizes DEF Blk, BlockType, EndOf, Payload
  <2>3. \A i \in 1 .. Len(blocks) :
          blocks[i] \in BlockType /\ Payload(blocks[i]) \in 0 .. HeapSize
    BY <2>1, <2>2, ElementOfSeq, Located
  <2>4. blocks \in Seq(BlockType)
    <3>1. Len(blocks) \in Nat /\ blocks = [i \in 1 .. Len(blocks) |-> blocks[i]]
      BY <2>1
    <3>2. QED
      BY <2>3, <3>1
  <2>5. DOMAIN owned \subseteq 0 .. HeapSize
    BY <2>1, <2>3 DEF Held, Taken
  <2>6. ret \in 0 .. HeapSize
    BY <2>1, <2>5, Sizes DEF NULL
  <2>7. QED
    BY <1>1, <2>1, <2>4, <2>5, <2>6, CounterExact DEF TypeOK
<1>2. AInv /\ [Next]_vars => AInv'
  BY <1>0, AInvNext
<1>3. QED
  BY <1>1, <1>2, AInvInit, PTL DEF Spec

(* When the client holds nothing the heap is as memory_init left it: no    *)
(* order of calls leaks a byte or leaves a split behind.                   *)
THEOREM NothingLeaks == RequestsFit => (Spec => []AllFreedRestores)
<1>0. SUFFICES ASSUME RequestsFit PROVE Spec => []AllFreedRestores
  OBVIOUS
<1>1. ASSUME AInv, owned = <<>>
      PROVE  /\ blocks = << Block(0, HeapSize - HeaderSize, TRUE) >>
             /\ freeMemory = HeapSize - HeaderSize
  <2>1. /\ blocks \in Seq(Blk) /\ Tiles(blocks) /\ NoFreePair(blocks)
        /\ Held(blocks) = DOMAIN owned
        /\ freeMemory \in Int
        /\ freeMemory + UsedBytes(blocks) = HeapSize - HeaderSize
    BY <1>1 DEF AInv, HInv, Tiling, Coalesced
  <2>2. Len(blocks) \in Nat /\ 1 <= Len(blocks)
    BY <2>1, EmptySeq, LenProperties DEF Tiles
  <2>3. \A i \in 1 .. Len(blocks) : blocks[i] \in Blk
    BY <2>1, ElementOfSeq
  <2>4. Taken(blocks) = {}
    BY <1>1, <2>1 DEF Held
  <2>5. \A i \in 1 .. Len(blocks) : blocks[i].free
    BY <2>3, <2>4 DEF Taken
  <2>6. Len(blocks) = 1
    <3>1. SUFFICES ASSUME 2 <= Len(blocks) PROVE FALSE
      BY <2>2
    <3>2. 1 \in 1 .. Len(blocks) - 1 /\ 1 \in 1 .. Len(blocks) /\ 1 + 1 \in 1 .. Len(blocks)
      BY <2>2, <3>1
    <3>3. QED
      BY <2>1, <2>5, <3>2 DEF NoFreePair
  <2>7. PICK b \in Blk : b = blocks[1]
    BY <2>3, <2>6
  <2>8. b.addr = 0 /\ EndOf(b) = HeapSize /\ b.free
    BY <2>1, <2>5, <2>6, <2>7 DEF Tiles
  <2>9. b = Block(0, HeapSize - HeaderSize, TRUE)
    <3>1. b.size = HeapSize - HeaderSize /\ b.free = TRUE
      BY <2>8, Sizes DEF Blk, EndOf
    <3>2. b = [addr |-> b.addr, size |-> b.size, free |-> b.free]
      BY DEF Blk
    <3>3. QED
      BY <2>8, <3>1, <3>2 DEF Block
  <2>10. blocks = <<b>>
    BY <2>1, <2>6, <2>7
  <2>11. UsedBytes(blocks) = 0
    <3>1. PICK f : Running(blocks, f) /\ UsedBytes(blocks) = f[Len(blocks)]
      BY <2>1, UsedBytesDef
    <3>2. f[1] = f[1 - 1] + Used(b) /\ f[0] = 0
      BY <2>6, <2>7, <3>1 DEF Running
    <3>3. QED
      BY <2>6, <2>8, <3>1, <3>2 DEF Used
  <2>12. QED
    BY <2>1, <2>9, <2>10, <2>11, Sizes
<1>2. AInv => AllFreedRestores
  BY <1>1 DEF AllFreedRestores
<1>3. AInv /\ [Next]_vars => AInv'
  BY <1>0, AInvNext
<1>4. QED
  BY <1>2, <1>3, AInvInit, PTL DEF Spec

(* malloc refuses only for want of room: a stretch that starts where an    *)
(* allocated block ends starts with a free block, and since its neighbour  *)
(* is not free that block reaches to the end of the stretch.               *)
THEOREM RefusedForWantOfRoom == RequestsFit => (Spec => []NoFalseRefusal)
<1>0. SUFFICES ASSUME RequestsFit PROVE Spec => []NoFalseRefusal
  OBVIOUS
<1>1. ASSUME HInv, NEW n \in Requests,
             NEW lo \in {0} \cup { EndOf(blocks[i]) : i \in AllocatedBlocks },
             Vacant(lo, lo + HeaderSize + AlignUp(n))
      PROVE  Candidates(blocks, AlignUp(n), {}) # {}
  <2>0. PICK N \in Nat \ {0} : N = Len(blocks) /\ DOMAIN blocks = 1 .. N
    BY <1>1, EmptySeq, LenProperties DEF HInv, Tiling, Tiles
  <2>1. /\ blocks \in Seq(Blk) /\ Tiles(blocks) /\ NoFreePair(blocks)
        /\ AllocatedBlocks = { i \in 1 .. N : ~blocks[i].free }
    BY <1>1, <2>0 DEF HInv, Tiling, Coalesced, AllocatedBlocks, FreeBlocks
  <2>2. PICK size \in Nat : size = AlignUp(n)
    BY SizesAreNat, Aligned
  <2>3. HeaderSize \in Nat \ {0} /\ HeapSize \in Nat
    BY Sizes
  <2>4. /\ lo + HeaderSize + size <= HeapSize
        /\ \A i \in 1 .. N : ~blocks[i].free =>
             EndOf(blocks[i]) <= lo \/ lo + HeaderSize + size <= blocks[i].addr
    BY <1>1, <2>1, <2>2 DEF Vacant
  <2>5. \A i \in 1 .. N : blocks[i].addr \in Nat /\ blocks[i].size \in Nat
    BY <2>0, <2>1, BlockNumbers
  <2>6. \A i \in 1 .. N :
          EndOf(blocks[i]) = blocks[i].addr + HeaderSize + blocks[i].size
    BY DEF EndOf
  <2>7. /\ blocks[1].addr = 0 /\ EndOf(blocks[N]) = HeapSize
        /\ \A i \in 1 .. N - 1 : blocks[i + 1].addr = EndOf(blocks[i])
    BY <2>0, <2>1 DEF Tiles
  <2>8. \E k \in 1 .. N : blocks[k].addr = lo
    <3>1. CASE lo = 0
      BY <2>7, <3>1
    <3>2. ASSUME NEW i \in AllocatedBlocks, lo = EndOf(blocks[i])
          PROVE  \E k \in 1 .. N : blocks[k].addr = lo
      <4>1. i \in 1 .. N
        BY <2>1
      <4>2. i # N
        BY <2>2, <2>3, <2>4, <2>7, <3>2
      <4>3. i \in 1 .. N - 1 /\ i + 1 \in 1 .. N
        BY <4>1, <4>2
      <4>4. QED
        BY <2>7, <3>2, <4>3
    <3>3. QED
      BY <3>1, <3>2
  <2>9. PICK k \in 1 .. N : blocks[k].addr = lo
    BY <2>8
  <2>10. PICK s \in Nat : s = blocks[k].size /\ EndOf(blocks[k]) = lo + HeaderSize + s
    BY <2>5, <2>6, <2>9
  <2>11. lo \in Nat
    BY <2>5, <2>9
  <2>12. blocks[k].free
    <3>1. SUFFICES ASSUME ~blocks[k].free PROVE FALSE
      OBVIOUS
    <3>2. EndOf(blocks[k]) <= lo \/ lo + HeaderSize + size <= blocks[k].addr
      BY <2>4, <3>1
    <3>3. QED
      BY <2>3, <2>2, <2>9, <2>10, <2>11, <3>2
  <2>13. s >= size
    <3>1. CASE k = N
      BY <2>2, <2>3, <2>4, <2>7, <2>10, <2>11, <3>1
    <3>2. CASE k # N
      <4>1. k \in 1 .. N - 1 /\ k + 1 \in 1 .. N
        BY <3>2
      <4>2. ~blocks[k + 1].free
        BY <2>0, <2>1, <2>12, <4>1 DEF NoFreePair
      <4>3. blocks[k + 1].addr = lo + HeaderSize + s
        BY <2>7, <2>10, <4>1
      <4>4. PICK z \in Nat : z = blocks[k + 1].size
        BY <2>5, <4>1
      <4>5. EndOf(blocks[k + 1]) = (lo + HeaderSize + s) + HeaderSize + z
        BY <2>6, <4>1, <4>3, <4>4
      <4>6. \/ (lo + HeaderSize + s) + HeaderSize + z <= lo
            \/ lo + HeaderSize + size <= lo + HeaderSize + s
        BY <2>4, <4>1, <4>2, <4>3, <4>5
      <4>7. QED
        BY <2>3, <2>11, <4>6
    <3>3. QED
      BY <3>1, <3>2
  <2>14. k \in Candidates(blocks, size, {})
    BY <2>0, <2>10, <2>12, <2>13 DEF Candidates, Intact
  <2>15. QED
    BY <2>2, <2>14
<1>2. HInv => NoFalseRefusal
  BY <1>1 DEF NoFalseRefusal, HInv
<1>3. HInv /\ [Next]_vars => HInv'
  BY <1>0, HInvNext
<1>4. QED
  BY <1>2, <1>3, HInvInit, PTL DEF Spec

-----------------------------------------------------------------------------
(* The heap implements Allocator.                                          *)

Extent == [ p \in DOMAIN owned |-> blocks[BlockAt(blocks, p)].size ]

(* An allocated block is the one its pointer leads to.                     *)
LEMMA FoundAgain ==
  ASSUME NEW bs \in Seq(Blk), Tiles(bs), NEW b \in Taken(bs)
  PROVE  Payload(b) \in Held(bs) /\ bs[BlockAt(bs, Payload(b))] = b
<1>1. Payload(b) \in Held(bs)
  BY DEF Held
<1>2. /\ bs[BlockAt(bs, Payload(b))] \in Taken(bs)
      /\ Payload(bs[BlockAt(bs, Payload(b))]) = Payload(b)
  BY <1>1, Found
<1>3. QED
  BY <1>1, <1>2, OneEach

LEMMA ExtentIs ==
  ASSUME HInv
  PROVE  /\ DOMAIN Extent = DOMAIN owned
         /\ \A b \in Taken(blocks) : Payload(b) \in DOMAIN owned
                                     /\ Extent[Payload(b)] = b.size
         /\ \A p \in DOMAIN owned : \E b \in Taken(blocks) : Payload(b) = p
<1>1. blocks \in Seq(Blk) /\ Tiles(blocks) /\ Held(blocks) = DOMAIN owned
  BY DEF HInv, Tiling
<1>2. QED
  BY <1>1, FoundAgain DEF Extent, Held

LEMMA ExtentIsNext ==
  ASSUME HInv'
  PROVE  /\ DOMAIN Extent' = DOMAIN owned'
         /\ \A b \in Taken(blocks') : Payload(b) \in DOMAIN owned'
                                      /\ Extent'[Payload(b)] = b.size
         /\ \A p \in DOMAIN owned' : \E b \in Taken(blocks') : Payload(b) = p
<1>1. blocks' \in Seq(Blk) /\ Tiles(blocks') /\ Held(blocks') = DOMAIN owned'
  BY DEF HInv, Tiling
<1>2. QED
  BY <1>1, FoundAgain DEF Extent, Held

(* A block granted fits where Allocator wants it.                          *)
LEMMA GrantFits ==
  ASSUME HInv, NEW c \in Blk, EndOf(c) <= HeapSize, Clear(c, blocks)
  PROVE  /\ Payload(c) \in 1 .. HeapSize /\ c.size \in 0 .. HeapSize
         /\ HeaderSize <= Payload(c) /\ Payload(c) + c.size <= HeapSize
         /\ \A q \in DOMAIN Extent :
              \/ Payload(c) + c.size <= q - HeaderSize
              \/ q + Extent[q] <= Payload(c) - HeaderSize
<1>1. HeaderSize \in Nat \ {0} /\ HeapSize \in Nat
  BY Sizes
<1>2. c.addr \in Nat /\ c.size \in Nat
  BY DEF Blk
<1>3. /\ Payload(c) = c.addr + HeaderSize /\ EndOf(c) = c.addr + HeaderSize + c.size
  BY DEF Payload, EndOf
<1>4. ASSUME NEW q \in DOMAIN Extent
      PROVE  \/ Payload(c) + c.size <= q - HeaderSize
             \/ q + Extent[q] <= Payload(c) - HeaderSize
  <2>1. PICK b \in Taken(blocks) : Payload(b) = q /\ Extent[q] = b.size
    BY ExtentIs
  <2>2. b.addr \in Nat /\ b.size \in Nat
    BY DEF Taken, Blk
  <2>3. EndOf(c) <= b.addr \/ EndOf(b) <= c.addr
    BY DEF Clear
  <2>4. q = b.addr + HeaderSize /\ EndOf(b) = b.addr + HeaderSize + b.size
    BY <2>1 DEF Payload, EndOf
  <2>5. \/ c.addr + HeaderSize + c.size <= b.addr
        \/ b.addr + HeaderSize + b.size <= c.addr
    BY <1>3, <2>3, <2>4
  <2>6. \/ (c.addr + HeaderSize) + c.size <= (b.addr + HeaderSize) - HeaderSize
        \/ (b.addr + HeaderSize) + b.size <= (c.addr + HeaderSize) - HeaderSize
    BY <1>1, <1>2, <2>2, <2>5
  <2>7. QED
    BY <1>3, <2>1, <2>4, <2>6
<1>5. QED
  BY <1>1, <1>2, <1>3, <1>4

(* The steps of Allocator, about Extent.                                   *)
AbsFits(p, c) ==
  /\ HeaderSize <= p /\ p + c <= HeapSize
  /\ \A q \in DOMAIN Extent : p + c <= q - HeaderSize \/ q + Extent[q] <= p - HeaderSize

AbsGrant(n) ==
  \E p \in 1 .. HeapSize :
    /\ ret' = p
    /\ owned' = Remember(owned, p, n)
    /\ \E c \in n .. HeapSize : AbsFits(p, c) /\ Extent' = Remember(Extent, p, c)

AbsMove(p, n) ==
  \E q \in 1 .. HeapSize :
    /\ ret' = q
    /\ owned' = Remember(Forget(owned, p), q, n)
    /\ \E c \in n .. HeapSize :
         /\ AbsFits(q, c) /\ Extent[p] <= c
         /\ Extent' = Remember(Forget(Extent, p), q, c)

LEMMA GrantIsGrant ==
  ASSUME HInv, NEW k \in Nat, k + 7 < SizeMod, NEW filled \in Nat,
         filled <= AlignUp(k), MallocGrants(k, k, filled)
  PROVE  AbsGrant(k)
<1>1. PICK c \in Blk :
        /\ HInv'
        /\ Taken(blocks') = Taken(blocks) \cup {c}
        /\ Payload(c) \notin Held(blocks)
        /\ EndOf(c) <= HeapSize /\ Clear(c, blocks)
        /\ c.size >= AlignUp(k)
        /\ owned' = Remember(owned, Payload(c), k) /\ ret' = Payload(c)
  BY GrantEffect
<1>2. k <= c.size
  <2>1. AlignUp(k) \in Nat /\ k <= AlignUp(k) /\ c.size \in Nat
    BY Aligned DEF Blk
  <2>2. QED
    BY <1>1, <2>1
<1>3. /\ Payload(c) \in 1 .. HeapSize /\ c.size \in 0 .. HeapSize
      /\ AbsFits(Payload(c), c.size)
  BY <1>1, GrantFits DEF AbsFits
<1>4. Extent' = Remember(Extent, Payload(c), c.size)
  <2>1. DOMAIN Extent = DOMAIN owned /\ DOMAIN Extent' = DOMAIN owned \cup {Payload(c)}
    BY <1>1, ExtentIs, ExtentIsNext DEF Remember
  <2>2. Extent'[Payload(c)] = c.size
    BY <1>1, ExtentIsNext
  <2>3. ASSUME NEW q \in DOMAIN owned PROVE q # Payload(c) /\ Extent'[q] = Extent[q]
    <3>1. PICK b \in Taken(blocks) : Payload(b) = q /\ Extent[q] = b.size
      BY ExtentIs
    <3>2. Extent'[q] = b.size
      BY <1>1, <3>1, ExtentIsNext
    <3>3. q # Payload(c)
      BY <1>1, <3>1 DEF Held
    <3>4. QED
      BY <3>1, <3>2, <3>3
  <2>4. Extent' = [r \in DOMAIN Extent' |-> Extent'[r]]
    BY DEF Extent
  <2>5. QED
    BY <2>1, <2>2, <2>3, <2>4 DEF Remember
<1>5. c.size \in k .. HeapSize
  BY <1>2, <1>3
<1>6. QED
  BY <1>1, <1>3, <1>4, <1>5 DEF AbsGrant

LEMMA FreeIsFree ==
  ASSUME HInv, NEW p \in DOMAIN owned, Free(p)
  PROVE  ret' = NULL /\ owned' = Forget(owned, p) /\ Extent' = Forget(Extent, p)
<1>1. /\ HInv'
      /\ Taken(blocks') = { b \in Taken(blocks) : Payload(b) # p }
      /\ owned' = Forget(owned, p)
  BY FreeEffect
<1>2. DOMAIN Extent = DOMAIN owned /\ DOMAIN Extent' = DOMAIN owned \ {p}
  BY <1>1, ExtentIs, ExtentIsNext DEF Forget
<1>3. ASSUME NEW q \in DOMAIN owned \ {p} PROVE Extent'[q] = Extent[q]
  <2>1. PICK b \in Taken(blocks) : Payload(b) = q /\ Extent[q] = b.size
    BY ExtentIs
  <2>2. QED
    BY <1>1, <2>1, ExtentIsNext
<1>4. Extent' = [r \in DOMAIN Extent' |-> Extent'[r]]
  BY DEF Extent
<1>5. ret' = NULL
  BY DEF Free
<1>6. QED
  BY <1>1, <1>2, <1>3, <1>4, <1>5 DEF Forget

LEMMA InPlaceIsKeep ==
  ASSUME HInv, NEW p \in DOMAIN owned, NEW n, ReallocInPlace(p, n)
  PROVE  /\ n <= Extent[p] /\ ret' = p
         /\ owned' = Remember(owned, p, n) /\ Extent' = Extent
<1>1. /\ blocks' = blocks /\ owned' = Remember(owned, p, n) /\ ret' = p
      /\ blocks[BlockAt(blocks, p)].size >= n
  BY DEF ReallocInPlace
<1>2. DOMAIN owned' = DOMAIN owned
  BY <1>1 DEF Remember
<1>3. QED
  BY <1>1, <1>2 DEF Extent

LEMMA MoveIsMove ==
  ASSUME HInv, NEW p \in DOMAIN owned, NEW n \in Nat, n + 7 < SizeMod,
         ReallocMoves(p, n)
  PROVE  AbsMove(p, n)
<1>1. PICK c \in Blk :
        /\ HInv'
        /\ Taken(blocks') = { b \in Taken(blocks) : Payload(b) # p } \cup {c}
        /\ Payload(c) \notin Held(blocks)
        /\ EndOf(c) <= HeapSize /\ Clear(c, blocks)
        /\ c.size >= AlignUp(n)
        /\ owned' = Remember(Forget(owned, p), Payload(c), n) /\ ret' = Payload(c)
  BY MoveEffect
<1>2. n <= c.size /\ c.size \in Nat
  <2>1. AlignUp(n) \in Nat /\ n <= AlignUp(n) /\ c.size \in Nat
    BY Aligned DEF Blk
  <2>2. QED
    BY <1>1, <2>1
<1>3. /\ Payload(c) \in 1 .. HeapSize /\ c.size \in 0 .. HeapSize
      /\ AbsFits(Payload(c), c.size)
  BY <1>1, GrantFits DEF AbsFits
<1>4. Extent[p] <= c.size
  <2>1. PICK b \in Taken(blocks) : Payload(b) = p /\ Extent[p] = b.size
    BY ExtentIs
  <2>2. Extent[p] = blocks[BlockAt(blocks, p)].size
    BY DEF Extent
  <2>3. blocks[BlockAt(blocks, p)].size < n
    BY DEF ReallocMoves
  <2>4. b.size \in Nat
    BY DEF Taken, Blk
  <2>5. QED
    BY <1>2, <2>1, <2>2, <2>3, <2>4
<1>5. Extent' = Remember(Forget(Extent, p), Payload(c), c.size)
  <2>1. /\ DOMAIN Extent = DOMAIN owned
        /\ DOMAIN Extent' = (DOMAIN owned \ {p}) \cup {Payload(c)}
    BY <1>1, ExtentIs, ExtentIsNext DEF Remember, Forget
  <2>2. Extent'[Payload(c)] = c.size
    BY <1>1, ExtentIsNext
  <2>3. ASSUME NEW q \in DOMAIN owned \ {p}
        PROVE  q # Payload(c) /\ Extent'[q] = Extent[q]
    <3>1. PICK b \in Taken(blocks) : Payload(b) = q /\ Extent[q] = b.size
      BY ExtentIs
    <3>2. Extent'[q] = b.size
      BY <1>1, <3>1, ExtentIsNext
    <3>3. q # Payload(c)
      BY <1>1, <3>1 DEF Held
    <3>4. QED
      BY <3>1, <3>2, <3>3
  <2>4. Extent' = [r \in DOMAIN Extent' |-> Extent'[r]]
    BY DEF Extent
  <2>5. QED
    BY <2>1, <2>2, <2>3, <2>4 DEF Remember, Forget
<1>6. c.size \in n .. HeapSize
  BY <1>2, <1>3
<1>7. QED
  BY <1>1, <1>3, <1>4, <1>5, <1>6 DEF AbsMove

(* Allocator's operators, with Extent for its variable.                    *)
LEMMA AbsSteps ==
  /\ \A n : AbsGrant(n) => Abs!Grant(n)
  /\ \A p, n : AbsMove(p, n) => Abs!Move(p, n)
  /\ \A p : ret' = NULL /\ owned' = Forget(owned, p) /\ Extent' = Forget(Extent, p)
              => Abs!Free(p)
  /\ \A p, n : n <= Extent[p] /\ ret' = p /\ owned' = Remember(owned, p, n)
                 /\ Extent' = Extent => Abs!Keep(p, n)
  /\ owned' = owned /\ Extent' = Extent /\ ret' = NULL => Abs!Refuse
<1>1. \A p, c : AbsFits(p, c) => Abs!Fits(p, c)
  BY DEF AbsFits, Abs!Fits, Extent
<1>2. ASSUME NEW n, AbsGrant(n) PROVE Abs!Grant(n)
  BY <1>1, <1>2 DEF AbsGrant, Abs!Grant, Abs!With, Remember, Extent
<1>3. ASSUME NEW p, NEW n, AbsMove(p, n) PROVE Abs!Move(p, n)
  BY <1>1, <1>3 DEF AbsMove, Abs!Move, Abs!With, Abs!Without, Remember, Forget, Extent
<1>4. \A p : ret' = NULL /\ owned' = Forget(owned, p) /\ Extent' = Forget(Extent, p)
               => Abs!Free(p)
  BY DEF Abs!Free, Abs!Without, Abs!NULL, NULL, Forget, Extent
<1>5. \A p, n : n <= Extent[p] /\ ret' = p /\ owned' = Remember(owned, p, n)
                  /\ Extent' = Extent => Abs!Keep(p, n)
  BY DEF Abs!Keep, Abs!With, Remember, Extent
<1>6. owned' = owned /\ Extent' = Extent /\ ret' = NULL => Abs!Refuse
  BY DEF Abs!Refuse, Abs!NULL, NULL, Extent
<1>7. QED
  BY <1>2, <1>3, <1>4, <1>5, <1>6

(* Clients see an allocator that hands out disjoint extents inside heap[], *)
(* moves and shrinks none of them, and grants at least what was asked.     *)
THEOREM HeapImplementsAllocator == RequestsFit => (Spec => AllocatorSpec)
<1>1. SUFFICES ASSUME RequestsFit PROVE Spec => AllocatorSpec
  OBVIOUS
<1>2. Init => Abs!Init
  BY DEF Init, Abs!Init, Abs!NULL, NULL
<1>3. ASSUME HInv, [Next]_vars PROVE [Abs!Next]_(Abs!vars)
  <2>1. ASSUME NEW k \in Asked, NEW filled \in Nat, filled <= AlignUp(k),
               MallocGrants(k, k, filled)
        PROVE  Abs!Next
    <3>1. k \in Nat /\ k + 7 < SizeMod
      BY <1>1, AskedFits
    <3>2. Abs!Grant(k)
      BY <1>3, <2>1, <3>1, GrantIsGrant, AbsSteps
    <3>3. QED
      BY <3>2 DEF Abs!Next, Asked
  <2>3. ASSUME NEW p \in DOMAIN owned, Free(p) PROVE Abs!Next
    <3>1. Abs!Free(p)
      BY <1>3, <2>3, FreeIsFree, AbsSteps
    <3>2. QED
      BY <3>1 DEF Abs!Next
  <2>4. ASSUME NEW p \in DOMAIN owned, NEW n \in Requests, ReallocInPlace(p, n)
        PROVE  Abs!Next
    <3>1. Abs!Keep(p, n)
      BY <1>3, <2>4, InPlaceIsKeep, AbsSteps
    <3>2. QED
      BY <3>1 DEF Abs!Next
  <2>5. ASSUME NEW p \in DOMAIN owned, NEW n \in Requests, ReallocMoves(p, n)
        PROVE  Abs!Next
    <3>1. n \in Nat /\ n + 7 < SizeMod
      BY <1>1, SizesAreNat DEF RequestsFit
    <3>2. Abs!Move(p, n)
      BY <1>3, <2>5, <3>1, MoveIsMove, AbsSteps
    <3>3. QED
      BY <3>2 DEF Abs!Next
  <2>6. ASSUME UNCHANGED <<blocks, freeMemory, owned>>, ret' = NULL PROVE Abs!Next
    <3>1. Extent' = Extent /\ owned' = owned
      BY <2>6 DEF Extent
    <3>2. Abs!Refuse
      BY <2>6, <3>1, AbsSteps
    <3>3. QED
      BY <3>2 DEF Abs!Next
  <2>7. CASE UNCHANGED vars
    BY <2>7 DEF vars, Abs!vars
  <2>8. CASE Next
    BY <1>1, <1>3, <2>1, <2>3, <2>4, <2>5, <2>6, <2>8, HeapStepCases
  <2>9. QED
    BY <1>3, <2>7, <2>8
<1>4. HInv /\ [Next]_vars => HInv'
  BY <1>1, HInvNext
<1>5. QED
  BY <1>2, <1>3, <1>4, HInvInit, PTL DEF Spec, AllocatorSpec, Abs!Spec
=============================================================================
