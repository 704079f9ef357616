----------------------------- MODULE TextProofs -----------------------------
(***************************************************************************)
(* What the path functions of Paths return, for every set of names and     *)
(* every depth, and what strtok and printf of Libc do, for every text.     *)
(***************************************************************************)
EXTENDS Paths, Libc, NatInduction, SequenceTheorems, FiniteSetTheorems, TLAPS

LEMMA PieceFacts ==
  /\ Empty \in Piece /\ "." \in Piece /\ ".." \in Piece
  /\ Files \subseteq Piece
  /\ \A x \in Files : x # Empty /\ x # "." /\ x # ".."
  /\ \A x \in Piece : x \in Files \/ x = Empty \/ x = "." \/ x = ".."
  BY PathsAssumption, Zenon DEF Piece, Empty

LEMMA DepthNat == MaxDepth \in Nat /\ MaxDepth >= 1
<1>1. MaxDepth \in Nat \ {0}
  BY PathsAssumption, Zenon
<1>2. QED
  BY <1>1

(* Sequences that are written out.                                         *)
LEMMA Single ==
  ASSUME NEW S, NEW x \in S
  PROVE  <<x>> \in Seq(S) /\ Len(<<x>>) = 1 /\ <<x>>[1] = x
  OBVIOUS

LEMMA Pair ==
  ASSUME NEW S, NEW x \in S, NEW y \in S
  PROVE  <<x, y>> \in Seq(S) /\ Len(<<x, y>>) = 2 /\ <<x, y>>[1] = x /\ <<x, y>>[2] = y
  OBVIOUS

(* A path that fs_normalize_path gives, and what the table of files holds: *)
(* such a path, or one with a slash at its end.                            *)
Plain(p) ==
  /\ p \in Seq(Piece)
  /\ \/ p = RootDir
     \/ /\ Len(p) > 1 /\ Len(p) <= MaxDepth + 1
        /\ p[1] = Empty
        /\ \A k \in 2 .. Len(p) : p[k] \in Files

Spelled(p) == Plain(p) \/ \E q : Plain(q) /\ q # RootDir /\ p = Append(q, Empty)

LEMMA RootPlain ==
  /\ Plain(RootDir) /\ Len(RootDir) = 2
  /\ RootDir[1] = Empty /\ RootDir[2] = Empty
  /\ IsAbsolute(RootDir) /\ EndsInSlash(RootDir)
<1>1. RootDir \in Seq(Piece) /\ Len(RootDir) = 2 /\ RootDir[1] = Empty /\ RootDir[2] = Empty
  BY PieceFacts, Pair DEF RootDir
<1>2. Plain(RootDir)
  BY <1>1 DEF Plain
<1>3. QED
  BY <1>1, <1>2 DEF IsAbsolute, EndsInSlash

LEMMA FrontOf ==
  ASSUME NEW S, NEW s \in Seq(S), s # <<>>
  PROVE  /\ Seqs!Front(s) \in Seq(S) /\ Len(Seqs!Front(s)) = Len(s) - 1
         /\ Len(s) \in Nat \ {0}
         /\ \A i \in 1 .. Len(s) - 1 : Seqs!Front(s)[i] = s[i]
<1>1. Len(s) \in Nat \ {0}
  BY EmptySeq
<1>2. \A i \in 1 .. Len(s) - 1 : s[i] \in S
  BY <1>1, ElementOfSeq
<1>3. /\ SubSeq(s, 1, Len(s) - 1) \in Seq(S)
      /\ Len(SubSeq(s, 1, Len(s) - 1)) =
           IF 1 <= Len(s) - 1 THEN Len(s) - 1 - 1 + 1 ELSE 0
      /\ \A i \in 1 .. Len(s) - 1 - 1 + 1 :
           SubSeq(s, 1, Len(s) - 1)[i] = s[1 + i - 1]
  BY <1>1, <1>2, SubSeqProperties
<1>4. Seqs!Front(s) = SubSeq(s, 1, Len(s) - 1)
  BY DEF Seqs!Front
<1>5. Len(SubSeq(s, 1, Len(s) - 1)) = Len(s) - 1
  <2>1. Len(s) - 1 \in Nat
    BY <1>1
  <2>2. PICK m \in Nat : m = Len(s) - 1
    BY <2>1
  <2>3. Len(SubSeq(s, 1, m)) = IF 1 <= m THEN m - 1 + 1 ELSE 0
    BY <1>3, <2>2
  <2>4. QED
    BY <2>2, <2>3
<1>6. \A i \in 1 .. Len(s) - 1 : SubSeq(s, 1, Len(s) - 1)[i] = s[i]
  BY <1>1, <1>3
<1>7. QED
  BY <1>1, <1>3, <1>4, <1>5, <1>6

(* Taking off the last piece undoes appending one.                         *)
LEMMA FrontOfAppend ==
  ASSUME NEW S, NEW s \in Seq(S), NEW e \in S
  PROVE  Seqs!Front(Append(s, e)) = s
<1>1. /\ Append(s, e) \in Seq(S) /\ Len(Append(s, e)) = Len(s) + 1
      /\ Len(s) \in Nat
      /\ \A i \in 1 .. Len(s) : Append(s, e)[i] = s[i]
  BY AppendProperties, LenProperties
<1>2. Append(s, e) # <<>>
  BY <1>1, EmptySeq
<1>3. /\ Seqs!Front(Append(s, e)) \in Seq(S)
      /\ Len(Seqs!Front(Append(s, e))) = Len(Append(s, e)) - 1
      /\ \A i \in 1 .. Len(Append(s, e)) - 1 : Seqs!Front(Append(s, e))[i] = Append(s, e)[i]
  BY <1>1, <1>2, FrontOf
<1>4. QED
  BY <1>1, <1>3, SeqEqual

-----------------------------------------------------------------------------
(* The stack of fs_normalize_path, piece by piece.                         *)
LEMMA StackDef ==
  ASSUME NEW path \in Seq(Piece)
  PROVE  /\ Stack(path)[0] = <<>>
         /\ \A k \in 1 .. Len(path) :
              Stack(path)[k] = Enter(Stack(path)[k - 1], path[k])
<1>1. Len(path) \in Nat
  BY LenProperties
<1> DEFINE P == { m \in Nat :
                    \E f : f = [k \in 0 .. m |->
                                  IF k = 0 THEN <<>> ELSE Enter(f[k - 1], path[k])] }
<1>2. 0 \in P
  <2> DEFINE f == [k \in 0 .. 0 |-> <<>>]
  <2>1. f = [k \in 0 .. 0 |-> IF k = 0 THEN <<>> ELSE Enter(f[k - 1], path[k])]
    OBVIOUS
  <2>2. QED
    BY <2>1
<1>3. ASSUME NEW m \in P PROVE m + 1 \in P
  <2>1. m \in Nat
    OBVIOUS
  <2>2. PICK f : f = [k \in 0 .. m |->
                        IF k = 0 THEN <<>> ELSE Enter(f[k - 1], path[k])]
    OBVIOUS
  <2>3. \A k \in 0 .. m : f[k] = IF k = 0 THEN <<>> ELSE Enter(f[k - 1], path[k])
    BY <2>2
  <2> DEFINE g == [k \in 0 .. m + 1 |-> IF k = m + 1 THEN Enter(f[m], path[m + 1]) ELSE f[k]]
  <2>4. ASSUME NEW k \in 0 .. m + 1
        PROVE  g[k] = IF k = 0 THEN <<>> ELSE Enter(g[k - 1], path[k])
    <3>1. CASE k = m + 1
      <4>1. g[k] = Enter(f[m], path[m + 1]) /\ g[k - 1] = f[m] /\ k # 0
        BY <2>1, <3>1
      <4>2. QED
        BY <3>1, <4>1
    <3>2. CASE k = 0
      BY <2>1, <2>3, <3>2
    <3>3. CASE k # m + 1 /\ k # 0
      <4>1. g[k] = f[k] /\ g[k - 1] = f[k - 1] /\ k \in 0 .. m
        BY <2>1, <3>3
      <4>2. QED
        BY <2>3, <3>3, <4>1
    <3>4. QED
      BY <3>1, <3>2, <3>3
  <2>5. DOMAIN g = 0 .. m + 1 /\ g = [k \in 0 .. m + 1 |-> g[k]]
    OBVIOUS
  <2> HIDE DEF g
  <2>6. g = [k \in 0 .. m + 1 |-> IF k = 0 THEN <<>> ELSE Enter(g[k - 1], path[k])]
    BY <2>4, <2>5
  <2>7. QED
    BY <2>1, <2>6
<1>4. P \in SUBSET Nat
  OBVIOUS
<1> HIDE DEF P
<1>5. Len(path) \in P
  BY <1>1, <1>2, <1>3, <1>4, NatInd
<1>6. \E f : f = [k \in 0 .. Len(path) |->
                    IF k = 0 THEN <<>> ELSE Enter(f[k - 1], path[k])]
  BY <1>5 DEF P
<1> DEFINE F == CHOOSE f : f = [k \in 0 .. Len(path) |->
                                  IF k = 0 THEN <<>> ELSE Enter(f[k - 1], path[k])]
<1>7. F = [k \in 0 .. Len(path) |-> IF k = 0 THEN <<>> ELSE Enter(F[k - 1], path[k])]
  BY <1>6, Zenon
<1>8. Stack(path) = F
  BY DEF Stack
<1> HIDE DEF F
<1>9. F[0] = <<>> /\ \A k \in 1 .. Len(path) : F[k] = Enter(F[k - 1], path[k])
  BY <1>1, <1>7
<1>10. QED
  BY <1>8, <1>9

(* What one turn of the loop does.                                         *)
LEMMA PieceEntered ==
  ASSUME NEW stack \in Seq(Files), Len(stack) <= MaxDepth, NEW piece \in Piece
  PROVE  /\ Enter(stack, piece) \in Seq(Files)
         /\ Len(Enter(stack, piece)) <= MaxDepth
         /\ piece = Empty => Enter(stack, piece) = stack
         /\ piece \in Files /\ Len(stack) < MaxDepth
              => Enter(stack, piece) = Append(stack, piece)
<1>0. Len(stack) \in Nat /\ MaxDepth \in Nat
  BY LenProperties, DepthNat
<1>1. CASE Len(stack) = MaxDepth
  <2>1. Enter(stack, piece) = stack
    BY <1>1 DEF Enter
  <2>2. QED
    BY <1>0, <1>1, <2>1
<1>2. CASE Len(stack) # MaxDepth /\ piece \in {Empty, "."}
  <2>1. piece \notin Files /\ piece # ".."
    BY <1>2, PieceFacts, Zenon DEF Empty
  <2>2. Enter(stack, piece) = stack
    BY <1>2, <2>1 DEF Enter
  <2>3. QED
    BY <2>1, <2>2
<1>3. CASE Len(stack) # MaxDepth /\ piece = ".."
  <2>1. piece \notin Files /\ piece \notin {Empty, "."}
    BY <1>3, PieceFacts, Zenon DEF Empty
  <2>2. Enter(stack, piece) = IF stack # <<>> THEN Seqs!Front(stack) ELSE stack
    BY <1>3, <2>1 DEF Enter
  <2>3. CASE stack # <<>>
    <3>1. Seqs!Front(stack) \in Seq(Files) /\ Len(Seqs!Front(stack)) = Len(stack) - 1
      BY <2>3, FrontOf
    <3>2. QED
      BY <1>0, <2>1, <2>2, <2>3, <3>1
  <2>4. QED
    BY <2>1, <2>2, <2>3
<1>4. CASE Len(stack) # MaxDepth /\ piece \in Files
  <2>1. Enter(stack, piece) = Append(stack, piece) /\ piece # Empty
    BY <1>4, PieceFacts DEF Enter
  <2>2. Append(stack, piece) \in Seq(Files) /\ Len(Append(stack, piece)) = Len(stack) + 1
    BY <1>4, AppendProperties
  <2>3. QED
    BY <1>0, <1>4, <2>1, <2>2
<1>5. QED
  BY <1>1, <1>2, <1>3, <1>4, PieceFacts

LEMMA NothingEntered == Enter(<<>>, Empty) = <<>>
<1>1. <<>> \in Seq(Files) /\ Len(<<>>) = 0
  BY EmptySeq
<1>2. Len(<<>>) <= MaxDepth
  BY <1>1, DepthNat
<1>3. Empty \in Piece
  BY PieceFacts
<1>4. QED
  BY <1>1, <1>2, <1>3, PieceEntered, Zenon

LEMMA StackType ==
  ASSUME NEW path \in Seq(Piece)
  PROVE  \A k \in 0 .. Len(path) :
           Stack(path)[k] \in Seq(Files) /\ Len(Stack(path)[k]) <= MaxDepth
<1>0. Len(path) \in Nat /\ \A k \in 1 .. Len(path) : path[k] \in Piece
  BY LenProperties, ElementOfSeq
<1> DEFINE P == { m \in Nat : m <= Len(path) =>
                    Stack(path)[m] \in Seq(Files) /\ Len(Stack(path)[m]) <= MaxDepth }
<1>1. 0 \in P
  <2>1. Stack(path)[0] = <<>>
    BY StackDef
  <2>2. QED
    <3>1. <<>> \in Seq(Files) /\ Len(<<>>) = 0
      BY EmptySeq
    <3>2. Stack(path)[0] \in Seq(Files) /\ Len(Stack(path)[0]) = 0
      BY <2>1, <3>1, Zenon
    <3>3. QED
      BY <3>2, DepthNat
<1>2. ASSUME NEW m \in P PROVE m + 1 \in P
  <2>1. SUFFICES ASSUME m + 1 <= Len(path)
                 PROVE  /\ Stack(path)[m + 1] \in Seq(Files)
                        /\ Len(Stack(path)[m + 1]) <= MaxDepth
    OBVIOUS
  <2>2. Stack(path)[m] \in Seq(Files) /\ Len(Stack(path)[m]) <= MaxDepth
    BY <1>0, <2>1
  <2>3. m + 1 \in 1 .. Len(path) /\ m + 1 - 1 = m
    BY <1>0, <2>1
  <2>4. Stack(path)[m + 1] = Enter(Stack(path)[m], path[m + 1]) /\ path[m + 1] \in Piece
    BY <1>0, <2>3, StackDef
  <2>5. QED
    BY <2>2, <2>4, PieceEntered
<1>3. P \in SUBSET Nat
  OBVIOUS
<1> HIDE DEF P
<1>4. P = Nat
  BY <1>1, <1>2, <1>3, NatInd
<1>5. QED
  BY <1>0, <1>4 DEF P

(* "/" before the pieces of a stack.                                       *)
LEMMA SlashBefore ==
  ASSUME NEW s \in Seq(Files)
  PROVE  /\ <<Empty>> \o s \in Seq(Piece)
         /\ Len(<<Empty>> \o s) = Len(s) + 1
         /\ Len(s) \in Nat
         /\ (<<Empty>> \o s)[1] = Empty
         /\ \A k \in 2 .. Len(s) + 1 : (<<Empty>> \o s)[k] = s[k - 1] /\ s[k - 1] \in Files
<1>1. Len(s) \in Nat /\ \A k \in 1 .. Len(s) : s[k] \in Files
  BY LenProperties, ElementOfSeq
<1>2. s \in Seq(Piece) /\ <<Empty>> \in Seq(Piece)
  BY PieceFacts, Single, SeqMonotonic
<1>3. Len(<<Empty>>) = 1 /\ <<Empty>>[1] = Empty
  BY PieceFacts, Single
<1>4. /\ <<Empty>> \o s \in Seq(Piece)
      /\ Len(<<Empty>> \o s) = Len(<<Empty>>) + Len(s)
      /\ \A i \in 1 .. Len(<<Empty>>) + Len(s) :
           (<<Empty>> \o s)[i] = IF i <= Len(<<Empty>>) THEN <<Empty>>[i] ELSE s[i - Len(<<Empty>>)]
  BY <1>2, ConcatProperties
<1>5. QED
  BY <1>1, <1>3, <1>4

(* Whatever it is given, fs_normalize_path returns such a path.            *)
LEMMA NormalizePlain ==
  ASSUME NEW path \in Seq(Piece)
  PROVE  Plain(Normalize(path))
<1>1. Len(path) \in 0 .. Len(path)
  BY LenProperties
<1>2. PICK s : s = Stack(path)[Len(path)]
  OBVIOUS
<1>3. s \in Seq(Files) /\ Len(s) <= MaxDepth
  BY <1>1, <1>2, StackType
<1>4. Normalize(path) = IF s = <<>> THEN RootDir ELSE <<Empty>> \o s
  BY <1>2 DEF Normalize
<1>5. CASE s = <<>>
  BY <1>4, <1>5, RootPlain
<1>6. CASE s # <<>>
  <2>1. Len(s) \in Nat \ {0}
    BY <1>3, <1>6, EmptySeq
  <2>2. QED
    BY <1>3, <1>4, <1>6, <2>1, SlashBefore, DepthNat DEF Plain
<1>7. QED
  BY <1>5, <1>6

-----------------------------------------------------------------------------
(* A plain path that is not "/" is read back piece by piece: the stack     *)
(* after its first k + 1 pieces holds its first k names.                   *)
Names1(path, n) ==
  /\ path \in Seq(Piece) /\ n \in Nat /\ n <= MaxDepth /\ n + 1 <= Len(path)
  /\ path[1] = Empty
  /\ \A k \in 2 .. n + 1 : path[k] \in Files

Holds(s, path, k) ==
  s \in Seq(Files) /\ Len(s) = k /\ \A i \in 1 .. k : s[i] = path[i + 1]

LEMMA ReadBack ==
  ASSUME NEW path, NEW n, Names1(path, n)
  PROVE  Holds(Stack(path)[n + 1], path, n)
<1>0. /\ path \in Seq(Piece) /\ n \in Nat /\ n <= MaxDepth /\ n + 1 <= Len(path)
      /\ path[1] = Empty
      /\ \A k \in 2 .. n + 1 : path[k] \in Files
      /\ Len(path) \in Nat /\ MaxDepth \in Nat
  BY LenProperties, DepthNat DEF Names1
<1> DEFINE P == { k \in Nat : k <= n => Holds(Stack(path)[k + 1], path, k) }
<1>1. 0 \in P
  <2>1. Stack(path)[0] = <<>>
    BY <1>0, StackDef
  <2>2. 1 \in 1 .. Len(path) /\ 1 - 1 = 0
    BY <1>0
  <2>3. Stack(path)[1] = Enter(Stack(path)[0], path[1])
    BY <1>0, <2>2, StackDef
  <2>4. <<>> \in Seq(Files) /\ Len(<<>>) = 0
    BY EmptySeq
  <2>5. Enter(<<>>, Empty) = <<>>
    BY NothingEntered
  <2>6. Stack(path)[0 + 1] = <<>>
    BY <1>0, <2>1, <2>3, <2>5
  <2>7. Holds(<<>>, path, 0)
    BY <2>4 DEF Holds
  <2>8. QED
    BY <2>6, <2>7
<1>2. ASSUME NEW k \in P PROVE k + 1 \in P
  <2>1. SUFFICES ASSUME k + 1 <= n PROVE Holds(Stack(path)[k + 1 + 1], path, k + 1)
    OBVIOUS
  <2>2. Holds(Stack(path)[k + 1], path, k)
    BY <1>0, <2>1
  <2>3. PICK s : s = Stack(path)[k + 1]
    OBVIOUS
  <2>4. s \in Seq(Files) /\ Len(s) = k /\ \A i \in 1 .. k : s[i] = path[i + 1]
    BY <2>2, <2>3 DEF Holds
  <2>5. k + 1 + 1 \in 1 .. Len(path) /\ k + 1 + 1 - 1 = k + 1 /\ k + 1 + 1 \in 2 .. n + 1
    BY <1>0, <2>1
  <2>6. PICK x \in Files : x = path[k + 1 + 1]
    BY <1>0, <2>5
  <2>7. Stack(path)[k + 1 + 1] = Enter(s, x)
    BY <1>0, <2>3, <2>5, <2>6, StackDef
  <2>8. Len(s) < MaxDepth /\ Len(s) <= MaxDepth
    BY <1>0, <2>1, <2>4
  <2>9. Enter(s, x) = Append(s, x)
    <3>1. x \in Piece
      BY PieceFacts
    <3>2. QED
      BY <2>4, <2>8, <3>1, PieceEntered
  <2>10. /\ Append(s, x) \in Seq(Files) /\ Len(Append(s, x)) = Len(s) + 1
         /\ \A i \in 1 .. Len(s) : Append(s, x)[i] = s[i]
         /\ Append(s, x)[Len(s) + 1] = x
    BY <2>4, AppendProperties
  <2>11. Holds(Append(s, x), path, k + 1)
    BY <2>4, <2>6, <2>10 DEF Holds
  <2>12. QED
    BY <2>7, <2>9, <2>11
<1>3. P \in SUBSET Nat
  OBVIOUS
<1> HIDE DEF P
<1>4. P = Nat
  BY <1>1, <1>2, <1>3, NatInd
<1>5. n \in P
  BY <1>0, <1>4
<1>6. n <= n
  BY <1>0
<1>7. QED
  BY <1>5, <1>6 DEF P

(* A plain path that is not "/", as its names.                             *)
LEMMA PlainNames ==
  ASSUME NEW q, Plain(q), q # RootDir
  PROVE  /\ q \in Seq(Piece) /\ Len(q) \in Nat /\ Len(q) > 1
         /\ Len(q) - 1 <= MaxDepth
         /\ q[1] = Empty
         /\ \A k \in 2 .. Len(q) : q[k] \in Files
         /\ q[Len(q)] \in Files /\ q[Len(q)] # Empty
         /\ ~EndsInSlash(q) /\ IsAbsolute(q)
<1>1. /\ q \in Seq(Piece) /\ Len(q) > 1 /\ Len(q) <= MaxDepth + 1
      /\ q[1] = Empty /\ \A k \in 2 .. Len(q) : q[k] \in Files
  BY DEF Plain
<1>2. Len(q) \in Nat
  BY <1>1, LenProperties
<1>3. q[Len(q)] \in Files /\ q[Len(q)] # Empty
  BY <1>1, <1>2, PieceFacts
<1>4. Len(q) - 1 <= MaxDepth
  BY <1>1, <1>2, DepthNat
<1>5. ~EndsInSlash(q) /\ IsAbsolute(q)
  BY <1>1, <1>3 DEF EndsInSlash, IsAbsolute
<1>6. QED
  BY <1>1, <1>2, <1>3, <1>4, <1>5

(* Such a path with a slash at its end.                                    *)
LEMMA PlainSlash ==
  ASSUME NEW q, Plain(q), q # RootDir
  PROVE  /\ Append(q, Empty) \in Seq(Piece)
         /\ Len(Append(q, Empty)) = Len(q) + 1
         /\ \A k \in 1 .. Len(q) : Append(q, Empty)[k] = q[k]
         /\ Append(q, Empty)[Len(q) + 1] = Empty
         /\ EndsInSlash(Append(q, Empty)) /\ IsAbsolute(Append(q, Empty))
         /\ Append(q, Empty) # RootDir
         /\ WithSlash(q) = Append(q, Empty)
         /\ WithSlash(Append(q, Empty)) = Append(q, Empty)
<1>1. q \in Seq(Piece) /\ Len(q) \in Nat /\ Len(q) > 1 /\ q[1] = Empty /\ ~EndsInSlash(q)
  BY PlainNames
<1>2. /\ Append(q, Empty) \in Seq(Piece)
      /\ Len(Append(q, Empty)) = Len(q) + 1
      /\ \A k \in 1 .. Len(q) : Append(q, Empty)[k] = q[k]
      /\ Append(q, Empty)[Len(q) + 1] = Empty
  BY <1>1, PieceFacts, AppendProperties
<1>3. EndsInSlash(Append(q, Empty)) /\ IsAbsolute(Append(q, Empty))
  BY <1>1, <1>2 DEF EndsInSlash, IsAbsolute
<1>4. Append(q, Empty) # RootDir
  BY <1>1, <1>2, RootPlain
<1>5. QED
  BY <1>1, <1>2, <1>3, <1>4 DEF WithSlash

(* Normalising a plain path, with or without a slash at its end, gives it  *)
(* without.                                                                *)
LEMMA StackNamed ==
  ASSUME NEW q, Plain(q), q # RootDir, NEW s, Holds(s, q, Len(q) - 1)
  PROVE  s # <<>> /\ <<Empty>> \o s = q
<1>1. /\ q \in Seq(Piece) /\ Len(q) \in Nat /\ Len(q) > 1 /\ q[1] = Empty
      /\ \A k \in 2 .. Len(q) : q[k] \in Files
  BY PlainNames
<1>2. s \in Seq(Files) /\ Len(s) = Len(q) - 1 /\ \A i \in 1 .. Len(q) - 1 : s[i] = q[i + 1]
  BY DEF Holds
<1>3. s # <<>>
  <2>1. Len(s) # 0
    BY <1>1, <1>2
  <2>2. QED
    BY <2>1, EmptySeq
<1>4. /\ <<Empty>> \o s \in Seq(Piece) /\ Len(<<Empty>> \o s) = Len(s) + 1
      /\ (<<Empty>> \o s)[1] = Empty
      /\ \A k \in 2 .. Len(s) + 1 : (<<Empty>> \o s)[k] = s[k - 1]
  BY <1>2, SlashBefore
<1>5. ASSUME NEW k \in 1 .. Len(q) PROVE (<<Empty>> \o s)[k] = q[k]
  <2>1. CASE k = 1
    BY <1>1, <1>4, <2>1
  <2>2. CASE k # 1
    <3>1. k \in 2 .. Len(s) + 1 /\ k - 1 \in 1 .. Len(q) - 1 /\ (k - 1) + 1 = k
      BY <1>1, <1>2, <2>2
    <3>2. QED
      BY <1>2, <1>4, <3>1
  <2>3. QED
    BY <2>1, <2>2
<1>6. Len(<<Empty>> \o s) = Len(q)
  BY <1>1, <1>2, <1>4
<1>7. QED
  BY <1>1, <1>3, <1>4, <1>5, <1>6, SeqEqual

LEMMA NormalizeRoot == Normalize(RootDir) = RootDir
<1>1. RootDir \in Seq(Piece) /\ Len(RootDir) = 2 /\ RootDir[1] = Empty /\ RootDir[2] = Empty
  BY RootPlain DEF Plain
<1>2. \A k \in 1 .. 2 : Stack(RootDir)[k] = Enter(Stack(RootDir)[k - 1], RootDir[k])
  BY <1>1, StackDef
<1>3. Stack(RootDir)[0] = <<>>
  BY <1>1, StackDef
<1>4. Stack(RootDir)[1] = <<>>
  BY <1>1, <1>2, <1>3, NothingEntered
<1>5. Stack(RootDir)[2] = <<>>
  BY <1>1, <1>2, <1>4, NothingEntered
<1>6. QED
  BY <1>1, <1>5 DEF Normalize

LEMMA NormalizeKeeps ==
  ASSUME NEW q, Plain(q)
  PROVE  /\ Normalize(q) = q
         /\ q # RootDir => Normalize(Append(q, Empty)) = q
<1>1. CASE q = RootDir
  BY <1>1, NormalizeRoot
<1>2. CASE q # RootDir
  <2>1. /\ q \in Seq(Piece) /\ Len(q) \in Nat /\ Len(q) > 1 /\ q[1] = Empty
        /\ Len(q) - 1 <= MaxDepth
        /\ \A k \in 2 .. Len(q) : q[k] \in Files
    BY <1>2, PlainNames
  <2>2. PICK n \in Nat : n = Len(q) - 1
    BY <2>1
  <2>3. Names1(q, n) /\ n + 1 = Len(q)
    BY <2>1, <2>2 DEF Names1
  <2>4. Holds(Stack(q)[n + 1], q, n)
    BY <2>3, ReadBack
  <2>5. Holds(Stack(q)[Len(q)], q, Len(q) - 1)
    BY <2>2, <2>3, <2>4
  <2>6. Normalize(q) = q
    BY <1>2, <2>5, StackNamed DEF Normalize
  <2>7. PICK a : a = Append(q, Empty)
    OBVIOUS
  <2>8. /\ a \in Seq(Piece) /\ Len(a) = Len(q) + 1
        /\ \A k \in 1 .. Len(q) : a[k] = q[k]
        /\ a[Len(q) + 1] = Empty
    BY <1>2, <2>7, PlainSlash
  <2>9. Names1(a, n)
    <3>1. a[1] = Empty /\ n + 1 <= Len(a)
      BY <2>1, <2>2, <2>8
    <3>2. \A k \in 2 .. n + 1 : a[k] \in Files
      BY <2>1, <2>2, <2>8
    <3>3. QED
      BY <2>1, <2>2, <2>8, <3>1, <3>2 DEF Names1
  <2>10. PICK s : s = Stack(a)[n + 1]
    OBVIOUS
  <2>11. Holds(s, a, n)
    BY <2>9, <2>10, ReadBack
  <2>12. Holds(s, q, n)
    BY <2>1, <2>2, <2>8, <2>11 DEF Holds
  <2>13. n + 2 \in 1 .. Len(a) /\ n + 2 - 1 = n + 1 /\ n + 2 = Len(a)
    BY <2>1, <2>2, <2>8
  <2>14. Stack(a)[Len(a)] = Enter(s, Empty)
    <3>1. Stack(a)[n + 2] = Enter(Stack(a)[n + 2 - 1], a[n + 2])
      BY <2>8, <2>13, StackDef
    <3>2. a[n + 2] = Empty
      BY <2>2, <2>3, <2>8
    <3>3. QED
      BY <2>10, <2>13, <3>1, <3>2
  <2>15. Enter(s, Empty) = s
    <3>1. s \in Seq(Files) /\ Len(s) <= MaxDepth
      BY <2>1, <2>2, <2>12 DEF Holds
    <3>2. QED
      BY <3>1, PieceFacts, PieceEntered
  <2>16. Normalize(a) = q
    BY <1>2, <2>2, <2>12, <2>14, <2>15, StackNamed DEF Normalize
  <2>17. QED
    BY <2>6, <2>7, <2>16
<1>3. QED
  BY <1>1, <1>2

-----------------------------------------------------------------------------
(* The parent of a path of either spelling.                                *)
LEMMA FrontPlain ==
  ASSUME NEW q, Plain(q), q # RootDir
  PROVE  \/ Seqs!Front(q) = <<Empty>>
         \/ Plain(Seqs!Front(q)) /\ Seqs!Front(q) # <<>> /\ Seqs!Front(q) # <<Empty>>
<1>1. /\ q \in Seq(Piece) /\ Len(q) \in Nat /\ Len(q) > 1 /\ q[1] = Empty
      /\ Len(q) - 1 <= MaxDepth
      /\ \A k \in 2 .. Len(q) : q[k] \in Files
  BY PlainNames
<1>2. q # <<>>
  BY <1>1, EmptySeq
<1>3. PICK f : f = Seqs!Front(q)
  OBVIOUS
<1>4. f \in Seq(Piece) /\ Len(f) = Len(q) - 1 /\ \A i \in 1 .. Len(q) - 1 : f[i] = q[i]
  BY <1>1, <1>2, <1>3, FrontOf
<1>5. <<Empty>> \in Seq(Piece) /\ Len(<<Empty>>) = 1 /\ <<Empty>>[1] = Empty
  BY PieceFacts, Single
<1>6. CASE Len(q) = 2
  <2>1. Len(f) = Len(<<Empty>>) /\ \A i \in 1 .. Len(f) : f[i] = <<Empty>>[i]
    BY <1>1, <1>4, <1>5, <1>6
  <2>2. f = <<Empty>>
    BY <1>4, <1>5, <2>1, SeqEqual
  <2>3. QED
    BY <1>3, <2>2
<1>7. CASE Len(q) # 2
  <2>1. Len(f) > 1 /\ Len(f) <= MaxDepth + 1
    BY <1>1, <1>4, <1>7, DepthNat
  <2>2. f[1] = Empty /\ \A k \in 2 .. Len(f) : f[k] \in Files
    BY <1>1, <1>4, <1>7
  <2>3. Plain(f)
    BY <1>4, <2>1, <2>2 DEF Plain
  <2>4. f # <<>> /\ f # <<Empty>>
    <3>1. Len(<<>>) = 0
      BY EmptySeq
    <3>2. Len(f) # 0 /\ Len(f) # 1
      BY <1>1, <1>4, <2>1
    <3>3. QED
      BY <1>5, <3>1, <3>2, Zenon
  <2>5. QED
    BY <1>3, <2>3, <2>4
<1>8. QED
  BY <1>6, <1>7

LEMMA ParentPlain ==
  ASSUME NEW q, Plain(q)
  PROVE  /\ Plain(Parent(q))
         /\ q # RootDir => Parent(Append(q, Empty)) = Parent(q)
<1>1. CASE q = RootDir
  <2>1. Parent(q) = RootDir
    BY <1>1 DEF Parent
  <2>2. QED
    BY <1>1, <2>1, RootPlain
<1>2. CASE q # RootDir
  <2>1. q \in Seq(Piece) /\ ~EndsInSlash(q)
    BY <1>2, PlainNames
  <2>2. Parent(q) = IF Seqs!Front(q) \in {<<>>, <<Empty>>} THEN RootDir ELSE Seqs!Front(q)
    BY <1>2, <2>1 DEF Parent
  <2>3. Plain(Parent(q))
    BY <1>2, <2>2, FrontPlain, RootPlain
  <2>4. PICK a : a = Append(q, Empty)
    OBVIOUS
  <2>5. EndsInSlash(a) /\ a # RootDir
    BY <1>2, <2>4, PlainSlash
  <2>6. Seqs!Front(a) = q
    BY <2>1, <2>4, PieceFacts, FrontOfAppend
  <2>7. Parent(a) = IF Seqs!Front(q) \in {<<>>, <<Empty>>} THEN RootDir ELSE Seqs!Front(q)
    BY <2>5, <2>6 DEF Parent
  <2>8. QED
    BY <2>2, <2>3, <2>4, <2>7
<1>3. QED
  BY <1>1, <1>2

LEMMA ParentSpelled ==
  ASSUME NEW p, Spelled(p)
  PROVE  Plain(Parent(p))
  BY ParentPlain DEF Spelled

(* What is looked up, made or removed is such a path.                      *)
LEMMA SpelledSeq ==
  ASSUME NEW p, Spelled(p)
  PROVE  p \in Seq(Piece) /\ IsAbsolute(p)
<1>1. CASE Plain(p)
  BY <1>1, PlainNames, RootPlain DEF Plain
<1>2. CASE \E q : Plain(q) /\ q # RootDir /\ p = Append(q, Empty)
  BY <1>2, PlainSlash
<1>3. QED
  BY <1>1, <1>2 DEF Spelled

LEMMA AbsolutePlain ==
  ASSUME NEW path \in Seq(Piece), NEW dir \in Seq(Piece)
  PROVE  Plain(Absolute(path, dir))
<1>1. dir \o path \in Seq(Piece)
  BY ConcatProperties
<1>2. QED
  BY <1>1, NormalizePlain DEF Absolute

LEMMA WithSlashSpelled ==
  ASSUME NEW q, Plain(q)
  PROVE  Spelled(WithSlash(q)) /\ EndsInSlash(WithSlash(q))
<1>1. CASE q = RootDir
  BY <1>1, RootPlain DEF WithSlash, Spelled
<1>2. CASE q # RootDir
  BY <1>2, PlainSlash DEF Spelled
<1>3. QED
  BY <1>1, <1>2

LEMMA TargetSpelled ==
  ASSUME NEW arg \in Seq(Piece), NEW dir, Spelled(dir)
  PROVE  Spelled(Target(arg, dir))
<1>1. CASE arg = <<"..">>
  BY <1>1, ParentSpelled DEF Target, Spelled
<1>2. CASE arg # <<"..">> /\ arg = <<".">>
  BY <1>2 DEF Target
<1>3. CASE arg # <<"..">> /\ arg # <<".">>
  <2>1. Target(arg, dir) = WithSlash(Absolute(arg, dir))
    BY <1>3 DEF Target
  <2>2. QED
    BY <2>1, SpelledSeq, AbsolutePlain, WithSlashSpelled
<1>4. QED
  BY <1>1, <1>2, <1>3

-----------------------------------------------------------------------------
(* What is on the stack, and what the pieces after that are, decides what  *)
(* comes of them.                                                          *)
SameFrom(p, a, q, b, n) ==
  /\ a + n <= Len(p) /\ b + n <= Len(q)
  /\ \A k \in 1 .. n : p[a + k] = q[b + k]
  /\ Stack(p)[a] = Stack(q)[b]

LEMMA StackRest ==
  ASSUME NEW p \in Seq(Piece), NEW q \in Seq(Piece),
         NEW a \in Nat, NEW b \in Nat, NEW n \in Nat, SameFrom(p, a, q, b, n)
  PROVE  Stack(p)[a + n] = Stack(q)[b + n]
<1>0. /\ Len(p) \in Nat /\ Len(q) \in Nat
      /\ a + n <= Len(p) /\ b + n <= Len(q)
      /\ \A k \in 1 .. n : p[a + k] = q[b + k]
      /\ Stack(p)[a] = Stack(q)[b]
  BY LenProperties DEF SameFrom
<1> DEFINE P == { m \in Nat : m <= n => Stack(p)[a + m] = Stack(q)[b + m] }
<1>1. 0 \in P
  BY <1>0
<1>2. ASSUME NEW m \in P PROVE m + 1 \in P
  <2>1. SUFFICES ASSUME m + 1 <= n PROVE Stack(p)[a + (m + 1)] = Stack(q)[b + (m + 1)]
    OBVIOUS
  <2>2. Stack(p)[a + m] = Stack(q)[b + m]
    BY <2>1
  <2>3. PICK i \in Nat : i = a + m + 1
    OBVIOUS
  <2>4. PICK j \in Nat : j = b + m + 1
    OBVIOUS
  <2>5. /\ i \in 1 .. Len(p) /\ i - 1 = a + m /\ i = a + (m + 1)
        /\ j \in 1 .. Len(q) /\ j - 1 = b + m /\ j = b + (m + 1)
    BY <1>0, <2>1, <2>3, <2>4
  <2>6. p[i] = q[j]
    <3>1. PICK k \in 1 .. n : k = m + 1
      BY <2>1
    <3>2. p[a + k] = q[b + k]
      BY <1>0
    <3>3. QED
      BY <2>5, <3>1, <3>2
  <2>7. Stack(p)[i] = Enter(Stack(p)[i - 1], p[i])
    BY <2>5, StackDef
  <2>8. Stack(q)[j] = Enter(Stack(q)[j - 1], q[j])
    BY <2>5, StackDef
  <2>9. QED
    BY <2>2, <2>5, <2>6, <2>7, <2>8
<1>3. P \in SUBSET Nat
  OBVIOUS
<1> HIDE DEF P
<1>4. n \in P
  BY <1>1, <1>2, <1>3, NatInd
<1>5. n <= n
  OBVIOUS
<1>6. QED
  BY <1>4, <1>5 DEF P

(* The first pieces of a path make the same stack whatever follows.        *)
LEMMA StackFirst ==
  ASSUME NEW p \in Seq(Piece), NEW q \in Seq(Piece), NEW n \in Nat,
         n <= Len(p), n <= Len(q), \A k \in 1 .. n : p[k] = q[k]
  PROVE  Stack(p)[n] = Stack(q)[n]
<1>1. Stack(p)[0] = Stack(q)[0]
  BY StackDef
<1>2. 0 + n = n /\ \A k \in 1 .. n : 0 + k = k
  OBVIOUS
<1>3. SameFrom(p, 0, q, 0, n)
  BY <1>1, <1>2 DEF SameFrom
<1>4. Stack(p)[0 + n] = Stack(q)[0 + n]
  BY <1>3, StackRest
<1>5. QED
  BY <1>2, <1>4

(* A path after a directory, piece by piece.                               *)
LEMMA Joined ==
  ASSUME NEW dir \in Seq(Piece), NEW path \in Seq(Piece)
  PROVE  /\ dir \o path \in Seq(Piece)
         /\ Len(dir \o path) = Len(dir) + Len(path)
         /\ Len(dir) \in Nat /\ Len(path) \in Nat
         /\ \A k \in 1 .. Len(dir) : (dir \o path)[k] = dir[k]
         /\ \A k \in 1 .. Len(path) : (dir \o path)[Len(dir) + k] = path[k]
<1>1. Len(dir) \in Nat /\ Len(path) \in Nat
  BY LenProperties
<1>2. /\ dir \o path \in Seq(Piece)
      /\ Len(dir \o path) = Len(dir) + Len(path)
      /\ \A i \in 1 .. Len(dir) + Len(path) :
           (dir \o path)[i] = IF i <= Len(dir) THEN dir[i] ELSE path[i - Len(dir)]
  BY ConcatProperties
<1>3. ASSUME NEW k \in 1 .. Len(path) PROVE (dir \o path)[Len(dir) + k] = path[k]
  <2>1. Len(dir) + k \in 1 .. Len(dir) + Len(path) /\ ~(Len(dir) + k <= Len(dir))
        /\ (Len(dir) + k) - Len(dir) = k
    BY <1>1
  <2>2. QED
    BY <1>2, <2>1
<1>4. ASSUME NEW k \in 1 .. Len(dir) PROVE (dir \o path)[k] = dir[k]
  BY <1>1, <1>2
<1>5. QED
  BY <1>1, <1>2, <1>3, <1>4

(* The stack of a directory is what a path after it starts from.           *)
LEMMA StackOfDir ==
  ASSUME NEW dir \in Seq(Piece), NEW path \in Seq(Piece)
  PROVE  Stack(dir \o path)[Len(dir)] = Stack(dir)[Len(dir)]
<1>1. /\ dir \o path \in Seq(Piece)
      /\ Len(dir \o path) = Len(dir) + Len(path)
      /\ Len(dir) \in Nat /\ Len(path) \in Nat
      /\ \A k \in 1 .. Len(dir) : (dir \o path)[k] = dir[k]
  BY Joined
<1>2. Len(dir) <= Len(dir \o path) /\ Len(dir) <= Len(dir)
  BY <1>1
<1>3. QED
  BY <1>1, <1>2, StackFirst

(* A slash at the end of a directory adds nothing to its stack.            *)
LEMMA StackSlash ==
  ASSUME NEW dir \in Seq(Piece)
  PROVE  /\ Append(dir, Empty) \in Seq(Piece)
         /\ Len(Append(dir, Empty)) = Len(dir) + 1
         /\ Stack(Append(dir, Empty))[Len(dir) + 1] = Stack(dir)[Len(dir)]
<1>1. PICK a : a = Append(dir, Empty)
  OBVIOUS
<1>2. PICK n \in Nat : n = Len(dir)
  BY LenProperties
<1>3. /\ a \in Seq(Piece) /\ Len(a) = n + 1 /\ a[n + 1] = Empty
      /\ \A k \in 1 .. n : a[k] = dir[k]
  BY <1>1, <1>2, PieceFacts, AppendProperties
<1>4. Stack(a)[n] = Stack(dir)[n]
  <2>1. n <= Len(a) /\ n <= Len(dir)
    BY <1>2, <1>3
  <2>2. QED
    BY <1>3, <2>1, StackFirst
<1>5. Stack(a)[n + 1] = Enter(Stack(a)[n], Empty)
  <2>1. n + 1 \in 1 .. Len(a) /\ (n + 1) - 1 = n
    BY <1>3
  <2>2. QED
    BY <1>3, <2>1, StackDef
<1>6. Stack(dir)[n] \in Seq(Files) /\ Len(Stack(dir)[n]) <= MaxDepth
  <2>1. n \in 0 .. Len(dir)
    BY <1>2
  <2>2. QED
    BY <2>1, StackType
<1>7. Enter(Stack(dir)[n], Empty) = Stack(dir)[n]
  BY <1>6, PieceFacts, PieceEntered
<1>8. QED
  BY <1>1, <1>2, <1>3, <1>4, <1>5, <1>7

(* fs_normalize_path does not see whether the directory before the path    *)
(* has a slash at its end.                                                 *)
LEMMA SlashForgotten ==
  ASSUME NEW dir \in Seq(Piece), NEW path \in Seq(Piece)
  PROVE  Normalize(Append(dir, Empty) \o path) = Normalize(dir \o path)
<1>1. PICK a : a = Append(dir, Empty)
  OBVIOUS
<1>2. PICK d \in Nat : d = Len(dir)
  BY LenProperties
<1>0. PICK e \in Nat : e = d + 1
  OBVIOUS
<1>3. PICK m \in Nat : m = Len(path)
  BY LenProperties
<1>4. a \in Seq(Piece) /\ Len(a) = e /\ Stack(a)[e] = Stack(dir)[d]
  BY <1>0, <1>1, <1>2, StackSlash
<1>5. PICK p : p = a \o path
  OBVIOUS
<1>6. PICK q : q = dir \o path
  OBVIOUS
<1>7. /\ p \in Seq(Piece) /\ Len(p) = e + m
      /\ \A k \in 1 .. m : p[e + k] = path[k]
      /\ Stack(p)[e] = Stack(a)[e]
  BY <1>3, <1>4, <1>5, Joined, StackOfDir
<1>8. /\ q \in Seq(Piece) /\ Len(q) = d + m
      /\ \A k \in 1 .. m : q[d + k] = path[k]
      /\ Stack(q)[d] = Stack(dir)[d]
  BY <1>2, <1>3, <1>6, Joined, StackOfDir
<1>9. SameFrom(p, e, q, d, m)
  <2>1. e + m <= Len(p) /\ d + m <= Len(q)
    BY <1>7, <1>8
  <2>2. \A k \in 1 .. m : p[e + k] = q[d + k]
    BY <1>7, <1>8
  <2>3. Stack(p)[e] = Stack(q)[d]
    BY <1>4, <1>7, <1>8
  <2>4. QED
    BY <2>1, <2>2, <2>3 DEF SameFrom
<1>10. Stack(p)[e + m] = Stack(q)[d + m]
  BY <1>7, <1>8, <1>9, StackRest
<1>11. Stack(p)[Len(p)] = Stack(q)[Len(q)]
  BY <1>7, <1>8, <1>10
<1>12. QED
  BY <1>1, <1>5, <1>6, <1>11 DEF Normalize

LEMMA WithSlashForgotten ==
  ASSUME NEW dir \in Seq(Piece), NEW path \in Seq(Piece)
  PROVE  Absolute(path, WithSlash(dir)) = Absolute(path, dir)
<1>1. CASE EndsInSlash(dir)
  BY <1>1 DEF WithSlash
<1>2. CASE ~EndsInSlash(dir)
  BY <1>2, SlashForgotten DEF WithSlash, Absolute
<1>3. QED
  BY <1>1, <1>2

(* ".." after a directory that is not MaxDepth deep leads to its parent.   *)
LEMMA DotsLeadUp ==
  ASSUME NEW q, Plain(q), q = RootDir \/ Len(q) <= MaxDepth
  PROVE  Absolute(<<"..">>, WithSlash(q)) = Parent(q)
<1>1. PICK up : up = <<"..">>
  OBVIOUS
<1>2. up \in Seq(Piece) /\ Len(up) = 1 /\ up[1] = ".."
  BY <1>1, PieceFacts, Single
<1>3. q \in Seq(Piece) /\ Len(q) \in Nat
  BY LenProperties DEF Plain
<1>4. ~IsAbsolute(up)
  BY <1>2 DEF IsAbsolute
<1>5. Absolute(up, WithSlash(q)) = Normalize(q \o up)
  BY <1>2, <1>3, <1>4, WithSlashForgotten DEF Absolute
<1>6. PICK p : p = q \o up
  OBVIOUS
<1>7. PICK n \in Nat : n = Len(q)
  BY <1>3
<1>8. PICK s : s = Stack(q)[n]
  OBVIOUS
<1>9. /\ p \in Seq(Piece) /\ Len(p) = n + 1 /\ p[n + 1] = ".."
      /\ Stack(p)[n] = s
  <2>1. /\ p \in Seq(Piece) /\ Len(p) = n + 1
        /\ \A k \in 1 .. 1 : p[n + k] = up[k]
    <3>1. /\ q \o up \in Seq(Piece) /\ Len(q \o up) = Len(q) + Len(up)
          /\ \A k \in 1 .. Len(up) : (q \o up)[Len(q) + k] = up[k]
      BY <1>2, <1>3, Joined
    <3>2. QED
      BY <1>2, <1>6, <1>7, <3>1, Zenon
  <2>2. p[n + 1] = up[1]
    BY <2>1
  <2>3. Stack(p)[n] = s
    BY <1>2, <1>3, <1>6, <1>7, <1>8, StackOfDir
  <2>4. QED
    BY <1>2, <2>1, <2>2, <2>3
<1>10. Stack(p)[n + 1] = Enter(s, "..")
  <2>1. n + 1 \in 1 .. Len(p) /\ (n + 1) - 1 = n
    BY <1>9
  <2>2. QED
    BY <1>9, <2>1, StackDef
<1>11. Normalize(p) = IF Enter(s, "..") = <<>> THEN RootDir ELSE <<Empty>> \o Enter(s, "..")
  BY <1>9, <1>10 DEF Normalize
<1>12. CASE q = RootDir
  <2>1. s = <<>>
    <3>1. Normalize(q) = q
      BY <1>12, NormalizeRoot
    <3>2. s \in Seq(Files)
      BY <1>3, <1>7, <1>8, StackType
    <3>3. s # <<>> => Normalize(q) = <<Empty>> \o s
      BY <1>7, <1>8 DEF Normalize
    <3>4. q[2] = Empty /\ Len(q) = 2
      BY <1>12, RootPlain
    <3>5. SUFFICES ASSUME s # <<>> PROVE FALSE
      OBVIOUS
    <3>6. (<<Empty>> \o s)[2] = Empty /\ Len(<<Empty>> \o s) = 2
      BY <3>1, <3>3, <3>4, <3>5
    <3>7. (<<Empty>> \o s)[2] \in Files
      BY <3>2, <3>6, SlashBefore
    <3>8. QED
      BY <3>6, <3>7, PieceFacts
  <2>2. Enter(<<>>, "..") = <<>>
    BY PieceFacts, Zenon DEF Enter, Empty
  <2>3. Parent(q) = RootDir
    BY <1>12 DEF Parent
  <2>4. QED
    BY <1>1, <1>5, <1>6, <1>11, <2>1, <2>2, <2>3
<1>13. CASE q # RootDir
  <2>1. /\ Len(q) > 1 /\ q[1] = Empty /\ ~EndsInSlash(q)
        /\ \A k \in 2 .. Len(q) : q[k] \in Files
    BY <1>13, PlainNames
  <2>2. Len(q) <= MaxDepth
    BY <1>13
  <2>3. PICK m \in Nat : m = n - 1
    BY <1>7, <2>1
  <2>4. m <= MaxDepth /\ m < MaxDepth /\ m # 0 /\ m + 1 = n
    BY <1>7, <2>1, <2>2, <2>3, DepthNat
  <2>5. Names1(q, m)
    BY <1>3, <1>7, <2>1, <2>4 DEF Names1
  <2>6. Holds(s, q, m)
    BY <1>8, <2>4, <2>5, ReadBack
  <2>7. s \in Seq(Files) /\ Len(s) = m /\ \A i \in 1 .. m : s[i] = q[i + 1]
    BY <2>6 DEF Holds
  <2>8. s # <<>>
    BY <2>4, <2>7, EmptySeq
  <2>9. PICK f : f = Seqs!Front(s)
    OBVIOUS
  <2>10. f \in Seq(Files) /\ Len(f) = m - 1 /\ \A i \in 1 .. m - 1 : f[i] = s[i]
    BY <2>7, <2>8, <2>9, FrontOf
  <2>11. Enter(s, "..") = f
    <3>1. ".." \notin {Empty, "."}
      BY Zenon DEF Empty
    <3>2. Len(s) # MaxDepth
      BY <2>4, <2>7, DepthNat
    <3>3. QED
      BY <2>8, <2>9, <3>1, <3>2, Zenon DEF Enter
  <2>12. PICK g : g = Seqs!Front(q)
    OBVIOUS
  <2>13. g \in Seq(Piece) /\ Len(g) = m /\ \A i \in 1 .. m : g[i] = q[i]
    <3>1. q # <<>>
      BY <1>3, <2>1, EmptySeq
    <3>2. QED
      BY <1>3, <1>7, <2>4, <2>12, <3>1, FrontOf
  <2>14. PICK h : h = <<Empty>> \o f
    OBVIOUS
  <2>15. /\ h \in Seq(Piece) /\ Len(h) = (m - 1) + 1 /\ h[1] = Empty
         /\ \A k \in 2 .. (m - 1) + 1 : h[k] = f[k - 1]
    BY <2>10, <2>14, SlashBefore
  <2>16. ASSUME NEW k \in 1 .. m PROVE h[k] = g[k]
    <3>1. CASE k = 1
      BY <2>1, <2>13, <2>15, <3>1
    <3>2. CASE k # 1
      <4>1. k \in 2 .. (m - 1) + 1 /\ k - 1 \in 1 .. m - 1 /\ k - 1 \in 1 .. m /\ (k - 1) + 1 = k
        BY <3>2
      <4>2. h[k] = s[k - 1]
        BY <2>10, <2>15, <4>1
      <4>3. s[k - 1] = q[k]
        BY <2>7, <4>1
      <4>4. QED
        BY <2>13, <4>2, <4>3
    <3>3. QED
      BY <3>1, <3>2
  <2>17. h = g
    <3>1. Len(h) = m
      BY <2>15
    <3>2. QED
      BY <2>13, <2>15, <2>16, <3>1, SeqEqual
  <2>18. Parent(q) = IF g \in {<<>>, <<Empty>>} THEN RootDir ELSE g
    BY <1>13, <2>1, <2>12 DEF Parent
  <2>19. Normalize(p) = IF f = <<>> THEN RootDir ELSE g
    BY <1>11, <2>11, <2>14, <2>17
  <2>20. f = <<>> <=> g \in {<<>>, <<Empty>>}
    <3>1. <<Empty>> \in Seq(Piece) /\ Len(<<Empty>>) = 1 /\ <<Empty>>[1] = Empty
      BY PieceFacts, Single
    <3>2. Len(<<>>) = 0
      BY EmptySeq
    <3>3. f = <<>> <=> m = 1
      <4>1. f = <<>> <=> Len(f) = 0
        BY <2>10, EmptySeq
      <4>2. QED
        BY <2>10, <4>1
    <3>4. g # <<>>
      BY <2>4, <2>13, <3>2
    <3>5. g = <<Empty>> => m = 1
      BY <2>13, <3>1
    <3>6. m = 1 => g = <<Empty>>
      <4>1. SUFFICES ASSUME m = 1 PROVE g = <<Empty>>
        OBVIOUS
      <4>2. Len(g) = Len(<<Empty>>) /\ \A i \in 1 .. Len(g) : g[i] = <<Empty>>[i]
        BY <2>1, <2>13, <3>1, <4>1
      <4>3. QED
        BY <2>13, <3>1, <4>2, SeqEqual
    <3>7. QED
      BY <3>3, <3>4, <3>5, <3>6
  <2>21. QED
    BY <1>1, <1>5, <1>6, <2>18, <2>19, <2>20
<1>14. QED
  BY <1>12, <1>13

(* A path is its directory and its last piece.                             *)
LEMMA FrontAndLast ==
  ASSUME NEW S, NEW s \in Seq(S), s # <<>>
  PROVE  Seqs!Front(s) \o <<s[Len(s)]>> = s
<1>1. PICK n \in Nat : n = Len(s) - 1
  BY EmptySeq
<1>2. PICK f : f = Seqs!Front(s)
  OBVIOUS
<1>3. f \in Seq(S) /\ Len(f) = n /\ Len(s) = n + 1 /\ \A i \in 1 .. n : f[i] = s[i]
  BY <1>1, <1>2, FrontOf
<1>4. PICK e \in S : e = s[Len(s)]
  BY <1>3, ElementOfSeq
<1>5. <<e>> \in Seq(S) /\ Len(<<e>>) = 1 /\ <<e>>[1] = e
  BY Single
<1>6. /\ f \o <<e>> \in Seq(S) /\ Len(f \o <<e>>) = n + 1
      /\ \A i \in 1 .. n + 1 : (f \o <<e>>)[i] = IF i <= n THEN f[i] ELSE <<e>>[i - n]
  BY <1>3, <1>5, ConcatProperties
<1>7. ASSUME NEW i \in 1 .. n + 1 PROVE (f \o <<e>>)[i] = s[i]
  <2>1. CASE i <= n
    BY <1>3, <1>6, <2>1
  <2>2. CASE ~(i <= n)
    <3>1. i = n + 1 /\ i - n = 1
      BY <2>2
    <3>2. QED
      BY <1>3, <1>4, <1>5, <1>6, <2>2, <3>1
  <2>3. QED
    BY <2>1, <2>2
<1>8. f \o <<e>> = s
  BY <1>3, <1>6, <1>7, SeqEqual
<1>9. QED
  BY <1>2, <1>4, <1>8

(* fs_get_directory gives the parent of a path, from which its last piece  *)
(* leads back to it.                                                       *)
LEMMA TakenApart ==
  ASSUME NEW q, Plain(q), q # RootDir
  PROVE  /\ Directory(q) = Parent(q)
         /\ Absolute(<<FileName(q)>>, Directory(q)) = q
<1>1. q \in Seq(Piece) /\ Len(q) \in Nat /\ Len(q) > 1 /\ ~EndsInSlash(q)
  BY PlainNames
<1>2. q # <<>>
  BY <1>1, EmptySeq
<1>3. PICK g : g = Seqs!Front(q)
  OBVIOUS
<1>4. g \in Seq(Piece) /\ Len(g) = Len(q) - 1
  BY <1>1, <1>2, <1>3, FrontOf
<1>5. g # <<>>
  BY <1>1, <1>4, EmptySeq
<1>6. Directory(q) = IF g = <<Empty>> THEN RootDir ELSE g
  <2>1. Len(q) # 1
    <3>1. PICK n \in Nat : n = Len(q)
      BY <1>1
    <3>2. n > 1 => n # 1
      OBVIOUS
    <3>3. QED
      BY <1>1, <3>1, <3>2, Zenon
  <2>2. CASE g = <<Empty>>
    BY <1>3, <2>1, <2>2, Zenon DEF Directory
  <2>3. CASE g # <<Empty>>
    BY <1>3, <2>1, <2>3, Zenon DEF Directory
  <2>4. QED
    BY <2>2, <2>3
<1>7. Parent(q) = IF g = <<Empty>> THEN RootDir ELSE g
  BY <1>1, <1>3, <1>5 DEF Parent
<1>8. PICK last : last = <<FileName(q)>>
  OBVIOUS
<1>9. g \o last = q
  BY <1>1, <1>2, <1>3, <1>8, FrontAndLast DEF FileName
<1>10. last \in Seq(Piece) /\ Len(last) = 1
  <2>1. q[Len(q)] \in Piece
    BY <1>1, ElementOfSeq
  <2>2. QED
    BY <1>8, <2>1, Single DEF FileName
<1>11. ~IsAbsolute(last)
  BY <1>10 DEF IsAbsolute
<1>12. Absolute(last, Directory(q)) = Normalize(Directory(q) \o last)
  BY <1>11 DEF Absolute
<1>13. Normalize(q) = q
  BY NormalizeKeeps
<1>14. CASE g = <<Empty>>
  <2>1. <<Empty>> \in Seq(Piece)
    BY PieceFacts, Single
  <2>2. Append(<<Empty>>, Empty) = RootDir
    <3>1. PICK a : a = Append(<<Empty>>, Empty)
      OBVIOUS
    <3>2. Len(<<Empty>>) = 1 /\ <<Empty>>[1] = Empty
      BY PieceFacts, Single
    <3>3. a \in Seq(Piece) /\ Len(a) = 2 /\ a[1] = Empty /\ a[2] = Empty
      BY <2>1, <3>1, <3>2, PieceFacts, AppendProperties
    <3>4. RootDir \in Seq(Piece) /\ Len(RootDir) = 2 /\ RootDir[1] = Empty /\ RootDir[2] = Empty
      BY RootPlain DEF Plain
    <3>5. \A i \in 1 .. 2 : a[i] = RootDir[i]
      BY <3>3, <3>4
    <3>6. QED
      BY <3>1, <3>3, <3>4, <3>5, SeqEqual
  <2>3. Normalize(Append(<<Empty>>, Empty) \o last) = Normalize(<<Empty>> \o last)
    BY <1>10, <2>1, SlashForgotten
  <2>4. QED
    BY <1>6, <1>7, <1>8, <1>9, <1>12, <1>13, <1>14, <2>2, <2>3
<1>15. CASE g # <<Empty>>
  BY <1>6, <1>7, <1>8, <1>9, <1>12, <1>13, <1>15
<1>16. QED
  BY <1>14, <1>15

-----------------------------------------------------------------------------
(* Counting pieces, one more piece at a time.                              *)
HowMany(p, i, j, S) == Cardinality({ k \in i .. j : p[k] \in S })

LEMMA HowManyFacts ==
  ASSUME NEW p, NEW S, NEW i \in Nat, NEW j \in Nat
  PROVE  /\ HowMany(p, i, j, S) \in Nat
         /\ i > j => HowMany(p, i, j, S) = 0
         /\ i <= j + 1 =>
              HowMany(p, i, j + 1, S) = HowMany(p, i, j, S) + (IF p[j + 1] \in S THEN 1 ELSE 0)
<1> DEFINE C == { k \in i .. j : p[k] \in S }
<1> DEFINE D == { k \in i .. j + 1 : p[k] \in S }
<1>1. IsFiniteSet(C) /\ Cardinality(C) \in Nat
  <2>1. IsFiniteSet(i .. j)
    BY FS_Interval
  <2>2. C \in SUBSET (i .. j)
    OBVIOUS
  <2>3. IsFiniteSet(C)
    BY <2>1, <2>2, FS_Subset
  <2>4. QED
    BY <2>3, FS_CardinalityType
<1>2. HowMany(p, i, j, S) = Cardinality(C) /\ HowMany(p, i, j + 1, S) = Cardinality(D)
  BY DEF HowMany
<1>3. ASSUME i > j PROVE Cardinality(C) = 0
  <2>1. C = {}
    BY <1>3
  <2>2. QED
    BY <2>1, FS_EmptySet
<1>4. ASSUME i <= j + 1
      PROVE  Cardinality(D) = Cardinality(C) + (IF p[j + 1] \in S THEN 1 ELSE 0)
  <2>1. CASE p[j + 1] \in S
    <3>1. D = C \cup {j + 1} /\ j + 1 \notin C
      BY <1>4, <2>1
    <3>2. Cardinality(C \cup {j + 1}) = Cardinality(C) + 1
      BY <1>1, <3>1, FS_AddElement
    <3>3. QED
      BY <2>1, <3>1, <3>2
  <2>2. CASE p[j + 1] \notin S
    <3>1. D = C
      <4>1. ASSUME NEW k \in i .. j + 1, p[k] \in S PROVE k \in i .. j
        <5>1. k # j + 1
          BY <2>2, <4>1
        <5>2. QED
          BY <5>1
      <4>2. QED
        BY <1>4, <4>1
    <3>2. QED
      BY <1>1, <2>2, <3>1
  <2>3. QED
    BY <2>1, <2>2
<1> HIDE DEF C, D
<1>5. QED
  BY <1>1, <1>2, <1>3, <1>4

(* An increasing sequence of positions is what its set is in order: the    *)
(* i-th of them is the one that has i of the set up to it.                 *)
Rising(ix) ==
  /\ ix \in Seq(Nat)
  /\ \A i, j \in 1 .. Len(ix) : i < j => ix[i] < ix[j]

Positions(ix) == { ix[i] : i \in 1 .. Len(ix) }

LEMMA UpToPlace ==
  ASSUME NEW ix, Rising(ix), NEW i \in 0 .. Len(ix)
  PROVE  /\ IsFiniteSet({ ix[m] : m \in 1 .. i })
         /\ Cardinality({ ix[m] : m \in 1 .. i }) = i
<1>0. /\ Len(ix) \in Nat /\ \A m \in 1 .. Len(ix) : ix[m] \in Nat
      /\ \A m, j \in 1 .. Len(ix) : m < j => ix[m] < ix[j]
  BY LenProperties, ElementOfSeq DEF Rising
<1> DEFINE T(j) == { ix[m] : m \in 1 .. j }
<1> DEFINE P == { j \in Nat : j <= Len(ix) => IsFiniteSet(T(j)) /\ Cardinality(T(j)) = j }
<1>1. 0 \in P
  <2>1. T(0) = {}
    OBVIOUS
  <2>2. QED
    BY <2>1, FS_EmptySet
<1>2. ASSUME NEW j \in P PROVE j + 1 \in P
  <2>1. SUFFICES ASSUME j + 1 <= Len(ix)
                 PROVE  IsFiniteSet(T(j + 1)) /\ Cardinality(T(j + 1)) = j + 1
    OBVIOUS
  <2>2. j \in Nat /\ IsFiniteSet(T(j)) /\ Cardinality(T(j)) = j
    BY <1>0, <2>1
  <2>3. PICK x : x = ix[j + 1]
    OBVIOUS
  <2>4. x \notin T(j)
    <3>1. SUFFICES ASSUME NEW m \in 1 .. j, x = ix[m] PROVE FALSE
      OBVIOUS
    <3>2. m \in 1 .. Len(ix) /\ j + 1 \in 1 .. Len(ix) /\ m < j + 1
      BY <1>0, <2>1, <2>2
    <3>3. ix[m] < ix[j + 1] /\ ix[m] \in Nat
      BY <1>0, <3>2
    <3>4. QED
      BY <2>3, <3>1, <3>3
  <2>5. T(j + 1) = T(j) \cup {x}
    <3>1. 1 .. j + 1 = (1 .. j) \cup {j + 1}
      BY <2>2
    <3>2. QED
      BY <2>3, <3>1
  <2> HIDE DEF T
  <2>6. IsFiniteSet(T(j) \cup {x}) /\ Cardinality(T(j) \cup {x}) = Cardinality(T(j)) + 1
    BY <2>2, <2>4, FS_AddElement
  <2>7. QED
    BY <2>2, <2>5, <2>6
<1>3. P \in SUBSET Nat
  OBVIOUS
<1> HIDE DEF P
<1>4. i \in P
  <2>1. i \in Nat
    BY <1>0
  <2>2. QED
    BY <1>1, <1>2, <1>3, <2>1, NatInd
<1>5. i <= Len(ix)
  BY <1>0
<1>6. QED
  BY <1>4, <1>5 DEF P

InOrder(p, at) ==
  [i \in 1 .. Cardinality(at) |-> p[CHOOSE k \in at : Cardinality({ j \in at : j <= k }) = i]]

LEMMA Ranked ==
  ASSUME NEW p, NEW ix, Rising(ix), NEW at, at = Positions(ix)
  PROVE  InOrder(p, at) = [i \in 1 .. Len(ix) |-> p[ix[i]]]
<1>0. /\ Len(ix) \in Nat /\ \A m \in 1 .. Len(ix) : ix[m] \in Nat
      /\ \A m, j \in 1 .. Len(ix) : m < j => ix[m] < ix[j]
  BY LenProperties, ElementOfSeq DEF Rising
<1>1. at = { ix[m] : m \in 1 .. Len(ix) }
  BY DEF Positions
<1>2. Cardinality(at) = Len(ix)
  <2>1. Len(ix) \in 0 .. Len(ix)
    BY <1>0
  <2>2. QED
    BY <1>1, <2>1, UpToPlace
<1>3. ASSUME NEW i \in 1 .. Len(ix)
      PROVE  Cardinality({ j \in at : j <= ix[i] }) = i
  <2>1. { j \in at : j <= ix[i] } = { ix[m] : m \in 1 .. i }
    <3>1. ASSUME NEW j \in at, j <= ix[i] PROVE j \in { ix[m] : m \in 1 .. i }
      <4>1. PICK m \in 1 .. Len(ix) : j = ix[m]
        BY <1>1
      <4>2. ~(i < m)
        <5>1. SUFFICES ASSUME i < m PROVE FALSE
          OBVIOUS
        <5>2. ix[i] < ix[m] /\ ix[i] \in Nat /\ ix[m] \in Nat
          BY <1>0, <5>1
        <5>3. QED
          BY <3>1, <4>1, <5>2
      <4>3. m \in 1 .. i
        BY <1>0, <4>2
      <4>4. QED
        BY <4>1, <4>3
    <3>2. ASSUME NEW m \in 1 .. i PROVE ix[m] \in at /\ ix[m] <= ix[i]
      <4>1. m \in 1 .. Len(ix)
        BY <1>0
      <4>2. CASE m = i
        BY <1>0, <1>1, <4>1, <4>2
      <4>3. CASE m # i
        <5>1. m < i
          BY <4>3
        <5>2. ix[m] < ix[i] /\ ix[i] \in Nat /\ ix[m] \in Nat
          BY <1>0, <4>1, <5>1
        <5>3. QED
          BY <1>1, <4>1, <5>2
      <4>4. QED
        BY <4>2, <4>3
    <3>3. QED
      BY <3>1, <3>2
  <2>2. i \in 0 .. Len(ix)
    BY <1>0
  <2>3. QED
    BY <2>1, <2>2, UpToPlace
<1>4. ASSUME NEW i \in 1 .. Len(ix)
      PROVE  (CHOOSE k \in at : Cardinality({ j \in at : j <= k }) = i) = ix[i]
  <2> DEFINE Q(k) == Cardinality({ j \in at : j <= k }) = i
  <2>1. ix[i] \in at /\ Q(ix[i])
    BY <1>1, <1>3
  <2>2. ASSUME NEW k \in at, Q(k) PROVE k = ix[i]
    <3>1. PICK m \in 1 .. Len(ix) : k = ix[m]
      BY <1>1
    <3>2. Cardinality({ j \in at : j <= ix[m] }) = m
      BY <1>3
    <3>3. m = i
      BY <2>2, <3>1, <3>2
    <3>4. QED
      BY <3>1, <3>3
  <2> HIDE DEF Q
  <2>3. (CHOOSE k \in at : Q(k)) = ix[i]
    BY <2>1, <2>2
  <2>4. QED
    BY <2>3 DEF Q
<1> DEFINE Chosen(i) == CHOOSE k \in at : Cardinality({ j \in at : j <= k }) = i
<1>5. \A i \in 1 .. Len(ix) : Chosen(i) = ix[i]
  BY <1>4
<1>6. PICK c : c = Cardinality(at)
  OBVIOUS
<1>7. [i \in 1 .. c |-> p[Chosen(i)]] = [i \in 1 .. Len(ix) |-> p[ix[i]]]
  <2> HIDE DEF Chosen
  <2>1. QED
    BY <1>2, <1>5, <1>6
<1>8. QED
  BY <1>6, <1>7 DEF InOrder

-----------------------------------------------------------------------------
(* What a call of strtok returns of a text, and what it leaves.            *)
NoToken(s, D) ==
  /\ \A i \in 1 .. Len(s) : s[i] \in D
  /\ Strtok(s, D) = [token |-> <<>>, rest |-> <<>>]

OneToken(s, D, b, e) ==
  /\ b <= e
  /\ \A i \in 1 .. b - 1 : s[i] \in D
  /\ \A i \in b .. e : s[i] \notin D
  /\ e = Len(s) \/ s[e + 1] \in D
  /\ Strtok(s, D) = [token |-> SubSeq(s, b, e), rest |-> SubSeq(s, e + 2, Len(s))]

LEMMA StrtokFacts ==
  ASSUME NEW C, NEW s \in Seq(C), NEW D
  PROVE  NoToken(s, D) \/ \E b, e \in 1 .. Len(s) : OneToken(s, D, b, e)
<1>0. Len(s) \in Nat /\ DOMAIN s = 1 .. Len(s)
  BY LenProperties
<1> DEFINE inside == { i \in DOMAIN s : s[i] \notin D }
<1> DEFINE first  == CHOOSE x \in inside : \A y \in inside : x <= y
<1> DEFINE ends   == { i \in first .. Len(s) : s[i] \in D } \cup {Len(s) + 1}
<1> DEFINE end    == CHOOSE x \in ends : \A y \in ends : x <= y
<1>1. Strtok(s, D) = IF inside = {} THEN [token |-> <<>>, rest |-> <<>>]
                     ELSE [token |-> SubSeq(s, first, end - 1),
                           rest |-> SubSeq(s, end + 1, Len(s))]
  BY DEF Strtok, Sets!Min
<1>2. CASE inside = {}
  <2>1. \A i \in 1 .. Len(s) : s[i] \in D
    BY <1>0, <1>2
  <2>2. QED
    BY <1>1, <1>2, <2>1 DEF NoToken
<1>3. CASE inside # {}
  <2>1. inside \in SUBSET Nat
    BY <1>0
  <2>2. \E x \in inside : \A y \in inside : x <= y
    BY <1>3, <2>1, NatMin, Zenon
  <2>3. first \in inside /\ \A y \in inside : first <= y
    BY <2>2, Zenon
  <2> HIDE DEF first
  <2>4. first \in 1 .. Len(s) /\ s[first] \notin D
    BY <1>0, <2>3
  <2>5. \A i \in 1 .. first - 1 : s[i] \in D
    <3>1. SUFFICES ASSUME NEW i \in 1 .. first - 1, s[i] \notin D PROVE FALSE
      OBVIOUS
    <3>2. i \in inside /\ ~(first <= i)
      BY <1>0, <2>4, <3>1
    <3>3. QED
      BY <2>3, <3>2
  <2> HIDE DEF inside
  <2>6. ends \in SUBSET Nat /\ ends # {}
    BY <1>0, <2>4
  <2>7. \E x \in ends : \A y \in ends : x <= y
    BY <2>6, NatMin, Zenon
  <2>8. end \in ends /\ \A y \in ends : end <= y
    BY <2>7, Zenon
  <2> HIDE DEF end
  <2>9. end \in first .. Len(s) + 1 /\ (end = Len(s) + 1 \/ s[end] \in D)
    BY <1>0, <2>4, <2>8
  <2>10. end # first
    BY <1>0, <2>4, <2>9
  <2>11. \A i \in first .. end - 1 : s[i] \notin D
    <3>1. SUFFICES ASSUME NEW i \in first .. end - 1, s[i] \in D PROVE FALSE
      OBVIOUS
    <3>2. i \in ends /\ ~(end <= i)
      BY <1>0, <2>4, <2>9, <3>1
    <3>3. QED
      BY <2>8, <3>2
  <2> HIDE DEF ends
  <2>12. PICK e \in Int : e = end - 1
    BY <2>9
  <2>13. /\ first \in 1 .. Len(s) /\ e \in 1 .. Len(s) /\ first <= e
         /\ end = e + 1 /\ end + 1 = e + 2
         /\ (e = Len(s) \/ s[e + 1] \in D)
    BY <1>0, <2>4, <2>9, <2>10, <2>12
  <2>14. Strtok(s, D) = [token |-> SubSeq(s, first, e), rest |-> SubSeq(s, e + 2, Len(s))]
    BY <1>1, <1>3, <2>12, <2>13
  <2>15. \A i \in first .. e : s[i] \notin D
    BY <2>11, <2>12
  <2>16. QED
    BY <2>5, <2>13, <2>14, <2>15 DEF OneToken
<1>4. QED
  BY <1>2, <1>3

(* What is left of a text from a place on.                                 *)
LEMMA RestIs ==
  ASSUME NEW C, NEW line \in Seq(C), NEW at \in 0 .. Len(line), NEW s, s = SubSeq(line, at + 1, Len(line))
  PROVE  /\ s \in Seq(C) /\ Len(s) = Len(line) - at
         /\ \A i \in 1 .. Len(s) : s[i] = line[at + i]
<1>1. Len(line) \in Nat /\ line \in Seq(C)
  BY LenProperties
<1>2. CASE at = Len(line)
  <2>1. s = <<>>
    BY <1>1, <1>2, SubSeqProperties
  <2>2. QED
    BY <1>1, <1>2, <2>1
<1>3. CASE at # Len(line)
  BY <1>1, <1>3, SubSeqProperties
<1>4. QED
  BY <1>2, <1>3

LEMMA PartOfRest ==
  ASSUME NEW C, NEW line \in Seq(C), NEW at \in 0 .. Len(line), NEW s, s = SubSeq(line, at + 1, Len(line)),
         NEW b \in Nat \ {0}, NEW e \in Int, e <= Len(s)
  PROVE  SubSeq(s, b, e) = SubSeq(line, at + b, at + e)
<1>0. /\ Len(line) \in Nat /\ \A i \in 1 .. Len(line) : line[i] \in C
      /\ s \in Seq(C) /\ Len(s) = Len(line) - at
      /\ \A i \in 1 .. Len(s) : s[i] = line[at + i]
  BY RestIs, LenProperties, ElementOfSeq
<1>1. \A i \in b .. e : i \in 1 .. Len(s) /\ at + i \in 1 .. Len(line)
  BY <1>0
<1>2. \A i \in b .. e : s[i] \in C /\ s[i] = line[at + i]
  BY <1>0, <1>1
<1>3. \A i \in at + b .. at + e : line[i] \in C
  BY <1>0
<1>4. /\ SubSeq(s, b, e) \in Seq(C)
      /\ Len(SubSeq(s, b, e)) = IF b <= e THEN e - b + 1 ELSE 0
      /\ \A i \in 1 .. e - b + 1 : SubSeq(s, b, e)[i] = s[b + i - 1]
  BY <1>2, SubSeqProperties
<1>5. /\ SubSeq(line, at + b, at + e) \in Seq(C)
      /\ Len(SubSeq(line, at + b, at + e)) =
           IF at + b <= at + e THEN (at + e) - (at + b) + 1 ELSE 0
      /\ \A i \in 1 .. (at + e) - (at + b) + 1 :
           SubSeq(line, at + b, at + e)[i] = line[at + b + i - 1]
  BY <1>3, SubSeqProperties
<1>6. PICK u, v : u = SubSeq(s, b, e) /\ v = SubSeq(line, at + b, at + e)
  OBVIOUS
<1>7. /\ u \in Seq(C) /\ Len(u) = IF b <= e THEN e - b + 1 ELSE 0
      /\ \A i \in 1 .. e - b + 1 : u[i] = s[b + i - 1]
  BY <1>4, <1>6
<1>8. /\ v \in Seq(C) /\ Len(v) = Len(u)
      /\ \A i \in 1 .. e - b + 1 : v[i] = line[at + b + i - 1]
  BY <1>5, <1>6, <1>7
<1>9. \A i \in 1 .. Len(u) : u[i] = v[i]
  <2>1. ASSUME NEW i \in 1 .. Len(u) PROVE u[i] = v[i]
    <3>1. i \in 1 .. e - b + 1 /\ b + i - 1 \in b .. e /\ at + (b + i - 1) = at + b + i - 1
      <4>1. Len(u) = IF b <= e THEN e - b + 1 ELSE 0
        BY <1>7
      <4>2. b <= e /\ i \in 1 .. e - b + 1
        BY <4>1
      <4>3. i \in Nat /\ at \in Nat /\ b \in Nat
        BY <4>2
      <4>4. QED
        BY <4>2, <4>3
    <3>2. u[i] = s[b + i - 1] /\ v[i] = line[at + b + i - 1]
      BY <1>7, <1>8, <3>1, Zenon
    <3>3. s[b + i - 1] = line[at + (b + i - 1)]
      BY <1>2, <3>1
    <3>4. QED
      BY <3>1, <3>2, <3>3
  <2>2. QED
    BY <2>1
<1>10. u = v
  BY <1>7, <1>8, <1>9, SeqEqual
<1>11. QED
  BY <1>6, <1>10

LEMMA StrtokType ==
  ASSUME NEW C, NEW s \in Seq(C), NEW D
  PROVE  Strtok(s, D).token \in Seq(C) /\ Strtok(s, D).rest \in Seq(C)
<1>1. CASE NoToken(s, D)
  BY <1>1 DEF NoToken
<1>2. CASE \E b, e \in 1 .. Len(s) : OneToken(s, D, b, e)
  <2>1. PICK b \in 1 .. Len(s), e \in 1 .. Len(s) : OneToken(s, D, b, e)
    BY <1>2
  <2>2. Strtok(s, D).token = SubSeq(s, b, e) /\ Strtok(s, D).rest = SubSeq(s, e + 2, Len(s))
    BY <2>1 DEF OneToken
  <2>3. Len(s) \in Nat /\ \A i \in 1 .. Len(s) : s[i] \in C
    BY LenProperties, ElementOfSeq
  <2>4. SubSeq(s, b, e) \in Seq(C)
    <3>1. b \in Int /\ e \in Int /\ \A i \in b .. e : s[i] \in C
      BY <2>3
    <3>2. QED
      BY <3>1, SubSeqProperties
  <2>5. SubSeq(s, e + 2, Len(s)) \in Seq(C)
    <3>1. PICK m \in Int : m = e + 2
      BY <2>3
    <3>2. Len(s) \in Int /\ \A i \in m .. Len(s) : s[i] \in C
      BY <2>3, <3>1
    <3>3. SubSeq(s, m, Len(s)) \in Seq(C)
      BY <3>2, SubSeqProperties
    <3>4. QED
      BY <3>1, <3>3
  <2>6. QED
    BY <2>2, <2>4, <2>5
<1>3. QED
  BY <1>1, <1>2, StrtokFacts

-----------------------------------------------------------------------------
(* printf, turn by turn.                                                   *)
Fresh(args) == [text |-> <<>>, args |-> args, open |-> FALSE]

PrintfTurns(t, format, args) ==
  /\ t[0] = Fresh(args)
  /\ \A k \in 1 .. Len(format) : t[k] = Turn(t[k - 1], format[k])
  /\ Printf(format, args) = t[Len(format)].text

LEMMA PrintfDef ==
  ASSUME NEW format, NEW args, Len(format) \in Nat
  PROVE  \E t : PrintfTurns(t, format, args)
<1>1. PICK n \in Nat : n = Len(format)
  OBVIOUS
<1> DEFINE P == { m \in Nat :
                    \E f : f = [k \in 0 .. m |->
                                  IF k = 0 THEN Fresh(args) ELSE Turn(f[k - 1], format[k])] }
<1>2. 0 \in P
  <2> DEFINE f == [k \in 0 .. 0 |-> Fresh(args)]
  <2>1. f = [k \in 0 .. 0 |-> IF k = 0 THEN Fresh(args) ELSE Turn(f[k - 1], format[k])]
    OBVIOUS
  <2>2. QED
    BY <2>1
<1>3. ASSUME NEW m \in P PROVE m + 1 \in P
  <2>1. m \in Nat
    OBVIOUS
  <2>2. PICK f : f = [k \in 0 .. m |->
                        IF k = 0 THEN Fresh(args) ELSE Turn(f[k - 1], format[k])]
    OBVIOUS
  <2>3. \A k \in 0 .. m : f[k] = IF k = 0 THEN Fresh(args) ELSE Turn(f[k - 1], format[k])
    BY <2>2
  <2> DEFINE g == [k \in 0 .. m + 1 |-> IF k = m + 1 THEN Turn(f[m], format[m + 1]) ELSE f[k]]
  <2>4. ASSUME NEW k \in 0 .. m + 1
        PROVE  g[k] = IF k = 0 THEN Fresh(args) ELSE Turn(g[k - 1], format[k])
    <3>1. CASE k = m + 1
      <4>1. g[k] = Turn(f[m], format[m + 1]) /\ g[k - 1] = f[m] /\ k # 0
        BY <2>1, <3>1
      <4>2. QED
        BY <3>1, <4>1
    <3>2. CASE k = 0
      BY <2>1, <2>3, <3>2
    <3>3. CASE k # m + 1 /\ k # 0
      <4>1. g[k] = f[k] /\ g[k - 1] = f[k - 1] /\ k \in 0 .. m
        BY <2>1, <3>3
      <4>2. QED
        BY <2>3, <3>3, <4>1
    <3>4. QED
      BY <3>1, <3>2, <3>3
  <2>5. g = [k \in 0 .. m + 1 |-> g[k]]
    OBVIOUS
  <2> HIDE DEF g
  <2>6. g = [k \in 0 .. m + 1 |-> IF k = 0 THEN Fresh(args) ELSE Turn(g[k - 1], format[k])]
    BY <2>4, <2>5
  <2>7. \E h : h = [k \in 0 .. m + 1 |-> IF k = 0 THEN Fresh(args) ELSE Turn(h[k - 1], format[k])]
    BY <2>6, Zenon
  <2>8. m + 1 \in Nat
    BY <2>1
  <2>9. QED
    BY <2>7, <2>8, Zenon
<1>4. P \in SUBSET Nat
  OBVIOUS
<1> HIDE DEF P
<1>5. n \in P
  BY <1>2, <1>3, <1>4, NatInd
<1>6. \E f : f = [k \in 0 .. n |-> IF k = 0 THEN Fresh(args) ELSE Turn(f[k - 1], format[k])]
  BY <1>5 DEF P
<1> DEFINE F == CHOOSE f : f = [k \in 0 .. n |->
                                  IF k = 0 THEN Fresh(args) ELSE Turn(f[k - 1], format[k])]
<1>7. F = [k \in 0 .. n |-> IF k = 0 THEN Fresh(args) ELSE Turn(F[k - 1], format[k])]
  BY <1>6, Zenon
<1>8. Printf(format, args) = F[n].text
  BY <1>1 DEF Printf, Fresh
<1> HIDE DEF F
<1>9. F[0] = Fresh(args) /\ \A k \in 1 .. n : F[k] = Turn(F[k - 1], format[k])
  <2>1. ASSUME NEW k \in 0 .. n PROVE F[k] = IF k = 0 THEN Fresh(args) ELSE Turn(F[k - 1], format[k])
    BY <1>7, Zenon
  <2>2. 0 \in 0 .. n /\ \A k \in 1 .. n : k \in 0 .. n /\ k # 0
    OBVIOUS
  <2>3. QED
    BY <2>1, <2>2, Zenon
<1>10. QED
  BY <1>1, <1>8, <1>9 DEF PrintfTurns

(* What a turn does while there is room: it begins a directive, copies a   *)
(* character, or converts an argument.                                     *)
At(x, a, o) == [text |-> x, args |-> a, open |-> o]

LEMMA Changed ==
  ASSUME NEW x, NEW a, NEW o, NEW y, NEW p, NEW st, st = At(x, a, o)
  PROVE  /\ [st EXCEPT !.text = y] = At(y, a, o)
         /\ [st EXCEPT !.open = p] = At(x, a, p)
  BY DEF At

LEMMA LimitNat == Limit \in Nat \ {0} /\ IntBits \in Nat \ {0, 1}
  BY LibcAssumption, Zenon

LEMMA TurnOpens ==
  ASSUME NEW x, NEW a, Len(x) \in Nat, Len(x) < Limit
  PROVE  Turn(At(x, a, FALSE), "%") = At(x, a, TRUE)
<1>1. PICK st, no, yes : st = At(x, a, no) /\ no = FALSE /\ yes = TRUE
  OBVIOUS
<1>2. st.text = x /\ st.args = a /\ ~st.open
  BY <1>1 DEF At
<1>3. ~(Len(st.text) >= Limit)
  BY <1>2, LimitNat
<1>4. Turn(st, "%") = [st EXCEPT !.open = TRUE]
  BY <1>2, <1>3, Zenon DEF Turn
<1>5. [st EXCEPT !.open = yes] = At(x, a, yes)
  <2>1. st = At(x, a, no)
    BY <1>1
  <2>2. QED
    BY <2>1, Changed
<1>6. QED
  BY <1>1, <1>4, <1>5, Zenon

LEMMA TurnCopies ==
  ASSUME NEW x, NEW a, NEW ch, ch # "%", Len(x) \in Nat, Len(x) < Limit
  PROVE  Turn(At(x, a, FALSE), ch) = At(Append(x, ch), a, FALSE)
<1>1. PICK st, no : st = At(x, a, no) /\ no = FALSE
  OBVIOUS
<1>2. st.text = x /\ st.args = a /\ ~st.open
  BY <1>1 DEF At
<1>3. ~(Len(st.text) >= Limit)
  BY <1>2, LimitNat
<1>4. Turn(st, ch) = [st EXCEPT !.text = Append(st.text, ch)]
  BY <1>2, <1>3 DEF Turn
<1>5. [st EXCEPT !.text = Append(st.text, ch)] = At(Append(x, ch), a, FALSE)
  <2>1. PICK y : y = Append(x, ch)
    OBVIOUS
  <2>2. [st EXCEPT !.text = y] = At(y, a, no)
    BY <1>1, Changed
  <2>3. QED
    BY <1>1, <1>2, <2>1, <2>2, Zenon
<1>6. QED
  BY <1>1, <1>4, <1>5

LEMMA TurnConverts ==
  ASSUME NEW x, NEW a, NEW ch \in {"c", "s", "d"}
  PROVE  Turn(At(x, a, TRUE), ch) = At(UpTo(Limit, x \o Converted(ch, Head(a))), Tail(a), FALSE)
<1>1. PICK st : st = At(x, a, TRUE)
  OBVIOUS
<1>2. st.text = x /\ st.args = a /\ st.open = TRUE
  BY <1>1 DEF At
<1>3. Turn(st, ch) = [text |-> UpTo(Limit, st.text \o Converted(ch, Head(st.args))), open |-> FALSE,
                      args |-> Tail(st.args)]
  BY <1>2 DEF Turn
<1>4. QED
  BY <1>1, <1>2, <1>3 DEF At

LEMMA PrintfWord ==
  ASSUME NEW C, NEW w \in Seq(C)
  PROVE  Printf(<<"%", "s">>, <<String(w)>>) = UpTo(Limit, w)
<1>1. PICK f, a : f = <<"%", "s">> /\ a = <<String(w)>>
  OBVIOUS
<1>2. Len(f) = 2 /\ f[1] = "%" /\ f[2] = "s" /\ Head(a) = String(w)
  BY <1>1
<1>3. PICK t : PrintfTurns(t, f, a)
  <2>1. Len(f) \in Nat
    BY <1>2
  <2>2. QED
    BY <2>1, PrintfDef, Zenon
<1>4. /\ t[0] = At(<<>>, a, FALSE)
      /\ t[1] = Turn(t[0], "%") /\ t[2] = Turn(t[1], "s")
      /\ Printf(f, a) = t[2].text
  <2>1. 1 \in 1 .. 2 /\ 2 \in 1 .. 2 /\ 1 - 1 = 0 /\ 2 - 1 = 1
    OBVIOUS
  <2>2. \A k \in 1 .. 2 : t[k] = Turn(t[k - 1], f[k])
    BY <1>2, <1>3 DEF PrintfTurns
  <2>3. t[1] = Turn(t[1 - 1], f[1]) /\ t[2] = Turn(t[2 - 1], f[2])
    BY <2>1, <2>2, Zenon
  <2>4. t[0] = At(<<>>, a, FALSE) /\ Printf(f, a) = t[2].text
    BY <1>2, <1>3 DEF PrintfTurns, Fresh, At
  <2>5. QED
    BY <1>2, <2>1, <2>3, <2>4
<1>5. t[1] = At(<<>>, a, TRUE)
  <2>1. Len(<<>>) \in Nat /\ Len(<<>>) < Limit
    BY LimitNat
  <2>2. QED
    BY <1>4, <2>1, TurnOpens
<1>6. t[2] = At(UpTo(Limit, <<>> \o Converted("s", Head(a))), Tail(a), FALSE)
  BY <1>4, <1>5, TurnConverts
<1>7. Converted("s", Head(a)) = w
  <2>1. PICK s : s = String(w)
    OBVIOUS
  <2>2. "string" \in DOMAIN s /\ s.string = w
    BY <2>1 DEF String
  <2>3. Converted("s", s) = s.string
    BY <2>2 DEF Converted
  <2>4. QED
    BY <1>2, <2>1, <2>2, <2>3
<1>8. <<>> \o w = w
  BY ConcatEmptySeq
<1>9. t[2].text = UpTo(Limit, w)
  BY <1>6, <1>7, <1>8 DEF At
<1>10. QED
  BY <1>1, <1>4, <1>9
=============================================================================
