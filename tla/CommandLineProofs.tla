------------------------- MODULE CommandLineProofs -------------------------
(***************************************************************************)
(* What holds of the paths and the lines that a user types, for every set  *)
(* of names, every limit on the depth of a path, every length of the       *)
(* history, every size of an int and every set of lines: a path has one    *)
(* spelling, which is the names that no later ".." takes back, it comes    *)
(* apart and goes together again, cd goes where a walk piece by piece      *)
(* leads, history shows the last lines, argv is the words of a line, echo  *)
(* prints them, numbers read back, and calc shows exact results.           *)
(*                                                                         *)
(* That the stack of fs_normalize_path holds what survives is no invariant *)
(* of its loop as it stands: which name the next ".." takes is not seen    *)
(* from the stack.  Tracks adds the positions that the names came from and *)
(* counts, for each, how many more names than ".."s come after it: as many *)
(* as there are names above it, so that only the top one can be lost.      *)
(*                                                                         *)
(* What the ring of lines needs is that the slots of two lines differ when *)
(* the lines are less than the ring apart (Apart): then a new line takes   *)
(* the slot of the one that it pushes out and of no other.                 *)
(*                                                                         *)
(* The words of a line are put in order beforehand (Ordered), and Reached  *)
(* says how far strtok has come among them after n calls.                  *)
(*                                                                         *)
(* A number is read from the left and its digits are found from the right. *)
(* Both are compared with the value that the digits have read from the     *)
(* left (Horner, Spells), which is the sum of the places that a numeral    *)
(* means; that atoi wraps around on the way does no harm, as what it has   *)
(* read stays Alike the sum: they differ by a multiple of 2^IntBits.       *)
(***************************************************************************)
EXTENDS CommandLine, TextProofs, PathLaws

-----------------------------------------------------------------------------
(* The user's path and the current directory: pieces, and a path of one of *)
(* the two spellings.                                                      *)
Typed ==
  /\ path \in Seq(Piece)
  /\ Spelled(cwd)

LEMMA HomePlain == Plain(<<Empty>> \o Home) /\ <<Empty>> \o Home # RootDir
<1>1. Home \in Seq(Files) /\ Home # <<>> /\ Len(Home) <= MaxPlace /\ MaxPlace \in Nat
      /\ MaxPlace < MaxDepth
  BY PathLawsAssumption, Zenon
<1>2. PICK n \in Nat \ {0} : n = Len(Home)
  BY <1>1, EmptySeq
<1>3. PICK h : h = <<Empty>> \o Home
  OBVIOUS
<1>4. /\ h \in Seq(Piece) /\ Len(h) = n + 1 /\ h[1] = Empty
      /\ \A k \in 2 .. n + 1 : h[k] \in Files
  BY <1>1, <1>2, <1>3, SlashBefore
<1>5. n <= MaxDepth
  BY <1>1, <1>2, DepthNat
<1>6. Len(h) > 1 /\ Len(h) <= MaxDepth + 1
  BY <1>2, <1>4, <1>5, DepthNat
<1>7. Plain(h)
  BY <1>4, <1>6 DEF Plain
<1>8. h[2] \in Files
  BY <1>2, <1>4
<1>9. h # RootDir
  BY <1>8, PieceFacts, RootPlain
<1>10. QED
  BY <1>3, <1>7, <1>9

LEMMA OnePiece ==
  ASSUME NEW p, p \in { <<x>> : x \in Piece }
  PROVE  p \in Seq(Piece)
<1>1. PICK x \in Piece : p = <<x>>
  OBVIOUS
<1>2. QED
  BY <1>1, Single

LEMMA TypedKept == Spec => []Typed
<1>1. Init => Typed
  BY OnePiece, RootPlain DEF Init, Typed, Spelled
<1>2. ASSUME Typed, [Next]_vars PROVE Typed'
  <2>1. path \in Seq(Piece) /\ Spelled(cwd)
    BY <1>2 DEF Typed
  <2>2. ASSUME NEW piece \in Piece, Type(piece) PROVE Typed'
    <3>1. path' = Append(path, piece) /\ cwd' = cwd
      BY <2>2 DEF Type
    <3>2. path' \in Seq(Piece)
      BY <2>1, <3>1, AppendProperties
    <3>3. QED
      BY <2>1, <3>1, <3>2 DEF Typed
  <2>3. CASE Cd
    <3>1. cwd' = Target(path, cwd) /\ path' \in { <<x>> : x \in Piece }
      BY <2>3 DEF Cd
    <3>2. Spelled(cwd')
      BY <2>1, <3>1, TargetSpelled
    <3>3. QED
      BY <3>1, <3>2, OnePiece DEF Typed
  <2>4. CASE CdHome
    <3>1. cwd' = <<Empty>> \o Home /\ path' \in { <<x>> : x \in Piece }
      BY <2>4 DEF CdHome
    <3>2. QED
      BY <3>1, HomePlain, OnePiece DEF Typed, Spelled
  <2>5. CASE UNCHANGED vars
    BY <2>1, <2>5 DEF Typed, vars
  <2>6. QED
    BY <1>2, <2>2, <2>3, <2>4, <2>5 DEF Next
<1>3. QED
  BY <1>1, <1>2, PTL DEF Spec

LEMMA PlainCanonical ==
  ASSUME NEW q, Plain(q)
  PROVE  /\ Canonical(q)
         /\ Depth(q) < MaxDepth => q = RootDir \/ Len(q) <= MaxDepth
<1>1. CASE q = RootDir
  BY <1>1 DEF Canonical
<1>2. CASE q # RootDir
  <2>1. /\ Len(q) \in Nat /\ Len(q) > 1 /\ q[1] = Empty
        /\ \A k \in 2 .. Len(q) : q[k] \in Files
    BY <1>2, PlainNames
  <2>2. Canonical(q)
    BY <2>1 DEF Canonical
  <2>3. Depth(q) = Len(q) - 1
    BY <1>2 DEF Depth
  <2>4. Depth(q) < MaxDepth => Len(q) <= MaxDepth
    <3>1. PICK n \in Nat : n = Len(q)
      BY <2>1
    <3>2. n - 1 < MaxDepth => n <= MaxDepth
      BY DepthNat
    <3>3. QED
      BY <2>3, <3>1, <3>2
  <2>5. QED
    BY <2>2, <2>4
<1>3. QED
  BY <1>1, <1>2

(* What fs_get_absolute_path returns does not depend on how the current    *)
(* directory is spelled, and is itself the one spelling (OneSpelling).     *)
THEOREM PathsOneSpelling == Spec => []OneSpelling
<1>1. ASSUME Typed PROVE OneSpelling
  <2>1. path \in Seq(Piece) /\ Spelled(cwd) /\ cwd \in Seq(Piece)
    BY <1>1, SpelledSeq DEF Typed
  <2>2. Absolute(path, WithSlash(cwd)) = Absolute(path, cwd)
    BY <2>1, WithSlashForgotten
  <2>3. PICK q : q = Absolute(path, cwd)
    OBVIOUS
  <2>4. Plain(q)
    BY <2>1, <2>3, AbsolutePlain
  <2>5. Absolute(q, <<Empty>> \o Home) = q
    <3>1. IsAbsolute(q)
      BY <2>4, PlainNames, RootPlain
    <3>2. QED
      BY <2>4, <3>1, NormalizeKeeps DEF Absolute
  <2>6. Canonical(q)
    BY <2>4, PlainCanonical
  <2>7. Depth(q) < MaxDepth => Absolute(<<"..">>, WithSlash(q)) = Parent(q)
    <3>1. SUFFICES ASSUME Depth(q) < MaxDepth
                   PROVE  Absolute(<<"..">>, WithSlash(q)) = Parent(q)
      OBVIOUS
    <3>2. q = RootDir \/ Len(q) <= MaxDepth
      BY <2>4, <3>1, PlainCanonical
    <3>3. QED
      BY <2>4, <3>2, DotsLeadUp
  <2>8. QED
    BY <2>2, <2>3, <2>5, <2>6, <2>7, Zenon DEF OneSpelling
<1>2. QED
  BY <1>1, TypedKept, PTL

(* fs_get_directory and fs_get_filename take apart what                    *)
(* fs_get_absolute_path puts together (SplitsAndJoins).                    *)
THEOREM PathsSplitAndJoin == Spec => []SplitsAndJoins
<1>1. ASSUME Typed PROVE SplitsAndJoins
  <2>1. path \in Seq(Piece) /\ cwd \in Seq(Piece)
    BY <1>1, SpelledSeq DEF Typed
  <2>2. PICK q : q = Absolute(path, cwd)
    OBVIOUS
  <2>3. Plain(q)
    BY <2>1, <2>2, AbsolutePlain
  <2>4. q # RootDir => Absolute(<<FileName(q)>>, Directory(q)) = q /\ Directory(q) = Parent(q)
    BY <2>3, TakenApart
  <2>5. QED
    BY <2>2, <2>4 DEF SplitsAndJoins
<1>2. QED
  BY <1>1, TypedKept, PTL

-----------------------------------------------------------------------------
LEMMA CountFacts ==
  ASSUME NEW p, NEW S, NEW i \in Nat, NEW j \in Nat
  PROVE  /\ Count(p, i, j, S) \in Nat
         /\ i > j => Count(p, i, j, S) = 0
         /\ i <= j + 1 => Count(p, i, j + 1, S)
                            = Count(p, i, j, S) + (IF p[j + 1] \in S THEN 1 ELSE 0)
<1>1. \A m \in Nat : Count(p, i, m, S) = HowMany(p, i, m, S)
  BY DEF Count, HowMany
<1>2. j + 1 \in Nat
  OBVIOUS
<1>3. QED
  BY <1>1, <1>2, HowManyFacts

(* The names after a position less the ".."s after it.                     *)
Over(p, k, n) == Count(p, k + 1, n, Files) - Count(p, k + 1, n, {".."})

LEMMA OverFacts ==
  ASSUME NEW p, NEW n \in Nat, NEW k \in Nat, k <= n
  PROVE  /\ Over(p, k, n) \in Int
         /\ Over(p, n, n) = 0
         /\ p[n + 1] \in Files => Over(p, k, n + 1) = Over(p, k, n) + 1
         /\ p[n + 1] = ".." => Over(p, k, n + 1) = Over(p, k, n) - 1
         /\ p[n + 1] \notin Files /\ p[n + 1] # ".." => Over(p, k, n + 1) = Over(p, k, n)
<1>1. k + 1 \in Nat /\ k + 1 <= n + 1 /\ n + 1 \in Nat /\ n + 1 > n
  OBVIOUS
<1>2. PICK e : e = p[n + 1]
  OBVIOUS
<1>3. PICK dots : dots = {".."}
  OBVIOUS
<1>4. PICK x \in Nat : x = Count(p, k + 1, n, Files)
  BY <1>1, CountFacts
<1>5. PICK y \in Nat : y = Count(p, k + 1, n, dots)
  BY <1>1, CountFacts
<1>6. Count(p, k + 1, n + 1, Files) = x + (IF e \in Files THEN 1 ELSE 0)
  BY <1>1, <1>2, <1>4, CountFacts
<1>7. Count(p, k + 1, n + 1, dots) = y + (IF e \in dots THEN 1 ELSE 0)
  BY <1>1, <1>2, <1>5, CountFacts
<1>8. Count(p, n + 1, n, Files) = 0 /\ Count(p, n + 1, n, dots) = 0
  BY <1>1, CountFacts
<1>9. Over(p, k, n) = x - y /\ Over(p, n, n) = 0
  BY <1>3, <1>4, <1>5, <1>8 DEF Over
<1>10. Over(p, k, n + 1) = (x + (IF e \in Files THEN 1 ELSE 0)) - (y + (IF e \in dots THEN 1 ELSE 0))
  BY <1>3, <1>6, <1>7 DEF Over
<1>11. (e \in dots <=> e = "..") /\ (e \in Files => e # "..")
  BY <1>3, PieceFacts, Zenon
<1>12. e \in Files => Over(p, k, n + 1) = Over(p, k, n) + 1
  <2>1. SUFFICES ASSUME e \in Files PROVE Over(p, k, n + 1) = Over(p, k, n) + 1
    OBVIOUS
  <2>2. e \notin dots
    BY <1>11, <2>1
  <2>3. Over(p, k, n + 1) = (x + 1) - (y + 0)
    BY <1>10, <2>1, <2>2
  <2>4. QED
    BY <1>9, <2>3
<1>13. e \in dots => Over(p, k, n + 1) = Over(p, k, n) - 1
  <2>1. SUFFICES ASSUME e \in dots PROVE Over(p, k, n + 1) = Over(p, k, n) - 1
    OBVIOUS
  <2>2. e \notin Files
    BY <1>11, <2>1
  <2>3. Over(p, k, n + 1) = (x + 0) - (y + 1)
    BY <1>10, <2>1, <2>2
  <2>4. QED
    BY <1>9, <2>3
<1>14. e \notin Files /\ e \notin dots => Over(p, k, n + 1) = Over(p, k, n)
  BY <1>9, <1>10
<1>15. Over(p, k, n) \in Int
  BY <1>9
<1>16. QED
  BY <1>2, <1>9, <1>11, <1>12, <1>13, <1>14, <1>15, Zenon

(* What survives one more piece.                                           *)
LEMMA SurvivesFacts ==
  ASSUME NEW p, NEW n \in Nat, NEW k \in 1 .. n
  PROVE  /\ Survives(p, n + 1, k) <=> Survives(p, n, k) /\ Over(p, k, n + 1) >= 0
         /\ Survives(p, n, k) => Over(p, k, n) >= 0
<1> DEFINE Fits(j) == Count(p, k + 1, j, {".."}) <= Count(p, k + 1, j, Files)
<1>0. k + 1 \in Nat /\ n + 1 \in Nat /\ k \in Nat
  OBVIOUS
<1>1. \A j \in Nat : Fits(j) <=> Over(p, k, j) >= 0
  <2>1. TAKE j \in Nat
  <2>2. PICK x \in Nat : x = Count(p, k + 1, j, Files)
    BY <1>0, CountFacts
  <2>3. PICK y \in Nat : y = Count(p, k + 1, j, {".."})
    BY <1>0, CountFacts
  <2>4. y <= x <=> x - y >= 0
    OBVIOUS
  <2>5. QED
    BY <2>2, <2>3, <2>4 DEF Over
<1>2. \A m \in Nat : Survives(p, m, k) <=> p[k] \in Files /\ \A j \in k + 1 .. m : Fits(j)
  BY DEF Survives
<1> HIDE DEF Fits
<1>3. k + 1 .. n + 1 = (k + 1 .. n) \cup {n + 1}
  OBVIOUS
<1>4. Survives(p, n + 1, k) <=> Survives(p, n, k) /\ Fits(n + 1)
  BY <1>0, <1>2, <1>3
<1>5. Survives(p, n, k) => Over(p, k, n) >= 0
  <2>1. CASE k = n
    <3>1. Over(p, k, n) = 0
      BY <2>1, OverFacts
    <3>2. QED
      BY <3>1
  <2>2. CASE k # n
    <3>1. n \in k + 1 .. n
      BY <2>2
    <3>2. QED
      BY <1>1, <1>2, <3>1
  <2>3. QED
    BY <2>1, <2>2
<1>6. Fits(n + 1) <=> Over(p, k, n + 1) >= 0
  BY <1>0, <1>1
<1>7. QED
  BY <1>4, <1>5, <1>6

LEMMA LastSurvives ==
  ASSUME NEW p, NEW n \in Nat
  PROVE  Survives(p, n + 1, n + 1) <=> p[n + 1] \in Files
<1>1. (n + 1) + 1 .. n + 1 = {}
  OBVIOUS
<1>2. QED
  BY <1>1 DEF Survives

(* What the stack holds after n pieces, by the positions it came from:     *)
(* those of the names that survive, in order, and above the i-th of them   *)
(* as many as there are more names than ".."s after it.                    *)
Tracks(p, n, ix) ==
  /\ Rising(ix)
  /\ Positions(ix) = { k \in 1 .. n : Survives(p, n, k) }
  /\ \A i \in 1 .. Len(ix) : Over(p, ix[i], n) = Len(ix) - i
  /\ Stack(p)[n] \in Seq(Files)
  /\ Len(Stack(p)[n]) = Len(ix)
  /\ \A i \in 1 .. Len(ix) : Stack(p)[n][i] = p[ix[i]]

LEMMA TracksStart ==
  ASSUME NEW p \in Seq(Piece)
  PROVE  Tracks(p, 0, <<>>)
<1>1. <<>> \in Seq(Nat) /\ <<>> \in Seq(Files) /\ Len(<<>>) = 0
  BY EmptySeq
<1>2. Stack(p)[0] = <<>>
  BY StackDef
<1>3. Rising(<<>>)
  BY <1>1 DEF Rising
<1>4. Positions(<<>>) = {}
  BY <1>1 DEF Positions
<1>5. { k \in 1 .. 0 : Survives(p, 0, k) } = {}
  OBVIOUS
<1>6. Stack(p)[0] \in Seq(Files) /\ Len(Stack(p)[0]) = Len(<<>>)
  BY <1>1, <1>2, Zenon
<1>7. 1 .. Len(<<>>) = {}
  BY <1>1
<1>8. QED
  BY <1>3, <1>4, <1>5, <1>6, <1>7, Zenon DEF Tracks

(* The positions, spelled out.                                             *)
LEMMA TracksFacts ==
  ASSUME NEW p, NEW n \in Nat, NEW ix, Tracks(p, n, ix)
  PROVE  /\ Len(ix) \in Nat
         /\ \A i \in 1 .. Len(ix) : ix[i] \in 1 .. n /\ Survives(p, n, ix[i])
         /\ \A k \in 1 .. n : Survives(p, n, k) => k \in Positions(ix)
<1>1. Len(ix) \in Nat
  BY LenProperties DEF Tracks, Rising
<1>2. \A i \in 1 .. Len(ix) : ix[i] \in Positions(ix)
  BY DEF Positions
<1>3. Positions(ix) = { k \in 1 .. n : Survives(p, n, k) }
  BY DEF Tracks
<1>4. QED
  BY <1>1, <1>2, <1>3

(* A name is pushed.                                                       *)
LEMMA TracksName ==
  ASSUME NEW p \in Seq(Piece), NEW n \in Nat, n + 1 <= Len(p), NEW ix, Tracks(p, n, ix),
         NEW x \in Files, x = p[n + 1],
         Stack(p)[n + 1] = Append(Stack(p)[n], x)
  PROVE  Tracks(p, n + 1, Append(ix, n + 1))
<1>1. PICK h \in Nat : h = Len(ix)
  BY TracksFacts
<1>2. PICK s : s = Stack(p)[n]
  OBVIOUS
<1>3. /\ ix \in Seq(Nat)
      /\ \A i, j \in 1 .. h : i < j => ix[i] < ix[j]
      /\ \A i \in 1 .. h : Over(p, ix[i], n) = h - i
      /\ s \in Seq(Files) /\ Len(s) = h /\ \A i \in 1 .. h : s[i] = p[ix[i]]
  BY <1>1, <1>2 DEF Tracks, Rising
<1>4. /\ \A i \in 1 .. h : ix[i] \in 1 .. n /\ Survives(p, n, ix[i])
      /\ \A k \in 1 .. n : Survives(p, n, k) => \E i \in 1 .. h : k = ix[i]
  <2>1. \A i \in 1 .. h : ix[i] \in 1 .. n /\ Survives(p, n, ix[i])
    BY <1>1, TracksFacts
  <2>2. ASSUME NEW k \in 1 .. n, Survives(p, n, k) PROVE \E i \in 1 .. h : k = ix[i]
    <3>1. k \in Positions(ix)
      BY <2>2, TracksFacts
    <3>2. QED
      BY <1>1, <3>1 DEF Positions
  <2>3. QED
    BY <2>1, <2>2
<1>5. PICK iy : iy = Append(ix, n + 1)
  OBVIOUS
<1>6. /\ iy \in Seq(Nat) /\ Len(iy) = h + 1 /\ iy[h + 1] = n + 1
      /\ \A i \in 1 .. h : iy[i] = ix[i]
  BY <1>1, <1>3, <1>5, AppendProperties
<1>7. PICK t : t = Append(s, x)
  OBVIOUS
<1>8. /\ t \in Seq(Files) /\ Len(t) = h + 1 /\ t[h + 1] = x
      /\ \A i \in 1 .. h : t[i] = s[i]
  <2>1. s \in Seq(Files) /\ x \in Files /\ Len(s) = h
    BY <1>3
  <2>2. /\ Append(s, x) \in Seq(Files) /\ Len(Append(s, x)) = h + 1
        /\ \A i \in 1 .. h : Append(s, x)[i] = s[i]
        /\ Append(s, x)[h + 1] = x
    BY <2>1
  <2>3. QED
    BY <1>7, <2>2, Zenon
<1>9. Rising(iy)
  <2>1. ASSUME NEW i \in 1 .. h + 1, NEW j \in 1 .. h + 1, i < j PROVE iy[i] < iy[j]
    <3>1. i \in 1 .. h
      BY <2>1
    <3>2. CASE j = h + 1
      <4>1. ix[i] \in 1 .. n
        BY <1>4, <3>1, Zenon
      <4>2. iy[i] = ix[i] /\ iy[j] = n + 1
        BY <1>6, <3>1, <3>2, Zenon
      <4>3. QED
        BY <4>1, <4>2
    <3>3. CASE j # h + 1
      <4>1. j \in 1 .. h
        BY <3>3
      <4>2. ix[i] < ix[j]
        BY <1>3, <2>1, <3>1, <4>1, Zenon
      <4>3. iy[i] = ix[i] /\ iy[j] = ix[j]
        BY <1>6, <3>1, <4>1, Zenon
      <4>4. QED
        BY <4>2, <4>3, Zenon
    <3>4. QED
      BY <3>2, <3>3
  <2>2. QED
    BY <1>6, <2>1 DEF Rising
<1>10. \A i \in 1 .. h : Over(p, ix[i], n + 1) = Over(p, ix[i], n) + 1
  <2>1. TAKE i \in 1 .. h
  <2>2. PICK k \in Nat : k = ix[i] /\ k <= n
    BY <1>4
  <2>3. Over(p, k, n + 1) = Over(p, k, n) + 1
    BY <2>2, OverFacts
  <2>4. QED
    BY <2>2, <2>3
<1>11. Over(p, n + 1, n + 1) = 0
  <2>1. n + 1 \in Nat
    OBVIOUS
  <2>2. QED
    BY <2>1, OverFacts
<1>12. ASSUME NEW i \in 1 .. h + 1 PROVE Over(p, iy[i], n + 1) = (h + 1) - i
  <2>1. CASE i = h + 1
    BY <1>6, <1>11, <2>1
  <2>2. CASE i # h + 1
    BY <1>3, <1>6, <1>10, <2>2
  <2>3. QED
    BY <2>1, <2>2
<1>13. ASSUME NEW k \in 1 .. n PROVE Survives(p, n + 1, k) <=> Survives(p, n, k)
  <2>1. Survives(p, n + 1, k) <=> Survives(p, n, k) /\ Over(p, k, n + 1) >= 0
    BY SurvivesFacts
  <2>2. SUFFICES ASSUME Survives(p, n, k) PROVE Over(p, k, n + 1) >= 0
    BY <2>1
  <2>3. PICK i \in 1 .. h : k = ix[i]
    BY <1>4, <2>2
  <2>4. Over(p, k, n + 1) = (h - i) + 1
    BY <1>3, <1>10, <2>3
  <2>5. QED
    BY <2>4
<1>14. Survives(p, n + 1, n + 1)
  BY LastSurvives
<1>15. Positions(iy) = { k \in 1 .. n + 1 : Survives(p, n + 1, k) }
  <2>1. ASSUME NEW k \in Positions(iy) PROVE k \in 1 .. n + 1 /\ Survives(p, n + 1, k)
    <3>1. PICK i \in 1 .. h + 1 : k = iy[i]
      BY <1>6 DEF Positions
    <3>2. CASE i = h + 1
      BY <1>6, <1>14, <3>1, <3>2
    <3>3. CASE i # h + 1
      <4>1. i \in 1 .. h /\ k = ix[i]
        BY <1>6, <3>1, <3>3
      <4>2. k \in 1 .. n /\ Survives(p, n, k)
        BY <1>4, <4>1
      <4>3. QED
        BY <1>13, <4>2
    <3>4. QED
      BY <3>2, <3>3
  <2>2. ASSUME NEW k \in 1 .. n + 1, Survives(p, n + 1, k) PROVE k \in Positions(iy)
    <3>1. SUFFICES \E i \in 1 .. h + 1 : k = iy[i]
      BY <1>6 DEF Positions
    <3>2. CASE k = n + 1
      BY <1>6, <3>2
    <3>3. CASE k # n + 1
      <4>1. PICK i \in 1 .. h : k = ix[i]
        BY <1>4, <1>13, <2>2, <3>3
      <4>2. i \in 1 .. h + 1 /\ k = iy[i]
        BY <1>6, <4>1
      <4>3. QED
        BY <4>2
    <3>4. QED
      BY <3>2, <3>3
  <2>3. QED
    BY <2>1, <2>2
<1>16. ASSUME NEW i \in 1 .. h + 1 PROVE t[i] = p[iy[i]]
  <2>1. CASE i = h + 1
    BY <1>6, <1>8, <2>1
  <2>2. CASE i # h + 1
    <3>1. i \in 1 .. h
      BY <2>2
    <3>2. t[i] = s[i] /\ iy[i] = ix[i] /\ s[i] = p[ix[i]]
      BY <1>3, <1>6, <1>8, <3>1
    <3>3. QED
      BY <3>2
  <2>3. QED
    BY <2>1, <2>2
<1>17. Stack(p)[n + 1] = t
  BY <1>2, <1>7
<1>18. Tracks(p, n + 1, iy)
  BY <1>6, <1>8, <1>9, <1>12, <1>15, <1>16, <1>17 DEF Tracks
<1>19. QED
  BY <1>5, <1>18

(* ".." takes the last of them off.                                        *)
LEMMA TracksDots ==
  ASSUME NEW p \in Seq(Piece), NEW n \in Nat, n + 1 <= Len(p), NEW ix, Tracks(p, n, ix),
         p[n + 1] = "..", Stack(p)[n] # <<>>,
         Stack(p)[n + 1] = Seqs!Front(Stack(p)[n])
  PROVE  Tracks(p, n + 1, Seqs!Front(ix))
<1>1. PICK h \in Nat : h = Len(ix)
  BY TracksFacts
<1>2. PICK s : s = Stack(p)[n]
  OBVIOUS
<1>3. /\ ix \in Seq(Nat)
      /\ \A i, j \in 1 .. h : i < j => ix[i] < ix[j]
      /\ \A i \in 1 .. h : Over(p, ix[i], n) = h - i
      /\ s \in Seq(Files) /\ Len(s) = h /\ \A i \in 1 .. h : s[i] = p[ix[i]]
  BY <1>1, <1>2 DEF Tracks, Rising
<1>4. /\ \A i \in 1 .. h : ix[i] \in 1 .. n /\ Survives(p, n, ix[i])
      /\ \A k \in 1 .. n : Survives(p, n, k) => \E i \in 1 .. h : k = ix[i]
  <2>1. \A i \in 1 .. h : ix[i] \in 1 .. n /\ Survives(p, n, ix[i])
    BY <1>1, TracksFacts
  <2>2. ASSUME NEW k \in 1 .. n, Survives(p, n, k) PROVE \E i \in 1 .. h : k = ix[i]
    <3>1. k \in Positions(ix)
      BY <2>2, TracksFacts
    <3>2. QED
      BY <1>1, <3>1 DEF Positions
  <2>3. QED
    BY <2>1, <2>2
<1>5. PICK g \in Nat : h = g + 1
  <2>1. h # 0
    BY <1>2, <1>3, EmptySeq
  <2>2. h - 1 \in Nat /\ h = (h - 1) + 1
    BY <2>1
  <2>3. QED
    BY <2>2
<1>6. PICK iy : iy = Seqs!Front(ix)
  OBVIOUS
<1>7. iy \in Seq(Nat) /\ Len(iy) = g /\ \A i \in 1 .. g : iy[i] = ix[i]
  <2>1. ix # <<>>
    <3>1. Len(<<>>) = 0
      BY EmptySeq
    <3>2. Len(ix) # 0
      BY <1>1, <1>5
    <3>3. QED
      BY <3>1, <3>2, Zenon
  <2>2. /\ iy \in Seq(Nat) /\ Len(iy) = Len(ix) - 1
        /\ \A i \in 1 .. Len(ix) - 1 : iy[i] = ix[i]
    BY <1>3, <1>6, <2>1, FrontOf
  <2>3. Len(ix) - 1 = g
    BY <1>1, <1>5
  <2>4. QED
    BY <2>2, <2>3
<1>8. PICK t : t = Seqs!Front(s)
  OBVIOUS
<1>9. t \in Seq(Files) /\ Len(t) = g /\ \A i \in 1 .. g : t[i] = s[i]
  <2>1. /\ t \in Seq(Files) /\ Len(t) = Len(s) - 1
        /\ \A i \in 1 .. Len(s) - 1 : t[i] = s[i]
    BY <1>2, <1>3, <1>8, FrontOf
  <2>2. Len(s) - 1 = g
    BY <1>3, <1>5
  <2>3. QED
    BY <2>1, <2>2
<1>10. \A i \in 1 .. g : i \in 1 .. h
  BY <1>5
<1>11. Rising(iy)
  BY <1>3, <1>7, <1>10 DEF Rising
<1>12. ASSUME NEW i \in 1 .. h PROVE Over(p, ix[i], n + 1) = g - i
  <2>1. PICK k \in Nat : k = ix[i] /\ k <= n
    BY <1>4
  <2>2. Over(p, k, n + 1) = Over(p, k, n) - 1
    BY <2>1, OverFacts
  <2>3. Over(p, k, n) = h - i
    BY <1>3, <2>1
  <2>4. QED
    BY <1>5, <2>1, <2>2, <2>3
<1>13. ASSUME NEW k \in 1 .. n
       PROVE  Survives(p, n + 1, k) <=> \E i \in 1 .. g : k = ix[i]
  <2>1. Survives(p, n + 1, k) <=> Survives(p, n, k) /\ Over(p, k, n + 1) >= 0
    BY SurvivesFacts
  <2>2. ASSUME Survives(p, n + 1, k) PROVE \E i \in 1 .. g : k = ix[i]
    <3>1. PICK i \in 1 .. h : k = ix[i]
      BY <1>4, <2>1, <2>2
    <3>2. g - i >= 0
      BY <1>12, <2>1, <2>2, <3>1
    <3>3. i \in 1 .. g
      BY <1>5, <3>2
    <3>4. QED
      BY <3>1, <3>3
  <2>3. ASSUME NEW i \in 1 .. g, k = ix[i] PROVE Survives(p, n + 1, k)
    <3>1. i \in 1 .. h
      BY <1>10
    <3>2. Survives(p, n, k)
      BY <1>4, <2>3, <3>1
    <3>3. Over(p, k, n + 1) = g - i
      BY <1>12, <2>3, <3>1
    <3>4. g - i >= 0
      OBVIOUS
    <3>5. QED
      BY <2>1, <3>2, <3>3, <3>4
  <2>4. QED
    BY <2>2, <2>3
<1>14. ~Survives(p, n + 1, n + 1)
  BY LastSurvives, PieceFacts
<1>15. Positions(iy) = { k \in 1 .. n + 1 : Survives(p, n + 1, k) }
  <2>1. ASSUME NEW k \in Positions(iy) PROVE k \in 1 .. n + 1 /\ Survives(p, n + 1, k)
    <3>1. PICK i \in 1 .. g : k = iy[i]
      BY <1>7 DEF Positions
    <3>2. k = ix[i] /\ k \in 1 .. n
      BY <1>4, <1>7, <1>10, <3>1
    <3>3. Survives(p, n + 1, k)
      BY <1>13, <3>2
    <3>4. QED
      BY <3>2, <3>3
  <2>2. ASSUME NEW k \in 1 .. n + 1, Survives(p, n + 1, k) PROVE k \in Positions(iy)
    <3>1. k \in 1 .. n
      BY <1>14, <2>2
    <3>2. PICK i \in 1 .. g : k = ix[i]
      BY <1>13, <2>2, <3>1
    <3>3. k = iy[i]
      BY <1>7, <3>2
    <3>4. QED
      BY <1>7, <3>3 DEF Positions
  <2>3. QED
    BY <2>1, <2>2
<1>16. Stack(p)[n + 1] = t
  BY <1>2, <1>8
<1>17. \A i \in 1 .. g : t[i] = p[iy[i]]
  BY <1>3, <1>7, <1>9, <1>10
<1>18. \A i \in 1 .. g : Over(p, iy[i], n + 1) = g - i
  BY <1>7, <1>10, <1>12
<1>19. Tracks(p, n + 1, iy)
  BY <1>7, <1>9, <1>11, <1>15, <1>16, <1>17, <1>18 DEF Tracks
<1>20. QED
  BY <1>6, <1>19

(* Every other piece leaves them, and so does a ".." too many.             *)
LEMMA TracksSame ==
  ASSUME NEW p \in Seq(Piece), NEW n \in Nat, n + 1 <= Len(p), NEW ix, Tracks(p, n, ix),
         p[n + 1] \notin Files, p[n + 1] = ".." => Stack(p)[n] = <<>>,
         Stack(p)[n + 1] = Stack(p)[n]
  PROVE  Tracks(p, n + 1, ix)
<1>1. PICK h \in Nat : h = Len(ix)
  BY TracksFacts
<1>2. /\ \A i \in 1 .. h : Over(p, ix[i], n) = h - i
      /\ Stack(p)[n] \in Seq(Files) /\ Len(Stack(p)[n]) = h
      /\ \A i \in 1 .. h : Stack(p)[n][i] = p[ix[i]]
      /\ Rising(ix)
  BY <1>1 DEF Tracks
<1>3. \A i \in 1 .. h : ix[i] \in 1 .. n
  BY <1>1, TracksFacts
<1>4. p[n + 1] = ".." => h = 0
  <2>1. Len(<<>>) = 0
    BY EmptySeq
  <2>2. QED
    BY <1>2, <2>1, Zenon
<1>5. ASSUME NEW i \in 1 .. h PROVE Over(p, ix[i], n + 1) = h - i
  <2>1. PICK k \in Nat : k = ix[i] /\ k <= n
    BY <1>3
  <2>2. p[n + 1] # ".."
    <3>1. h # 0
      OBVIOUS
    <3>2. QED
      BY <1>4, <3>1, Zenon
  <2>3. Over(p, k, n + 1) = Over(p, k, n)
    BY <2>1, <2>2, OverFacts
  <2>4. QED
    BY <1>2, <2>1, <2>3
<1>6. ASSUME NEW k \in 1 .. n PROVE Survives(p, n + 1, k) <=> Survives(p, n, k)
  <2>1. Survives(p, n + 1, k) <=> Survives(p, n, k) /\ Over(p, k, n + 1) >= 0
    BY SurvivesFacts
  <2>2. SUFFICES ASSUME Survives(p, n, k) PROVE Over(p, k, n + 1) >= 0
    BY <2>1
  <2>3. k \in Positions(ix)
    BY <2>2, TracksFacts
  <2>4. PICK i \in 1 .. h : k = ix[i]
    BY <1>1, <2>3 DEF Positions
  <2>5. Over(p, k, n + 1) = h - i
    BY <1>5, <2>4
  <2>6. QED
    BY <2>5
<1>7. ~Survives(p, n + 1, n + 1)
  BY LastSurvives
<1>8. { k \in 1 .. n + 1 : Survives(p, n + 1, k) } = { k \in 1 .. n : Survives(p, n, k) }
  <2>1. ASSUME NEW k \in 1 .. n + 1, Survives(p, n + 1, k) PROVE k \in 1 .. n /\ Survives(p, n, k)
    <3>1. k \in 1 .. n
      BY <1>7, <2>1
    <3>2. QED
      BY <1>6, <2>1, <3>1
  <2>2. ASSUME NEW k \in 1 .. n, Survives(p, n, k) PROVE k \in 1 .. n + 1 /\ Survives(p, n + 1, k)
    <3>1. k \in 1 .. n + 1
      OBVIOUS
    <3>2. QED
      BY <1>6, <2>2, <3>1
  <2>3. QED
    BY <2>1, <2>2
<1>9. Positions(ix) = { k \in 1 .. n + 1 : Survives(p, n + 1, k) }
  <2>1. Positions(ix) = { k \in 1 .. n : Survives(p, n, k) }
    BY DEF Tracks
  <2>2. QED
    BY <1>8, <2>1, Zenon
<1>10. PICK s : s = Stack(p)[n + 1]
  OBVIOUS
<1>11. s \in Seq(Files) /\ Len(s) = h /\ \A i \in 1 .. h : s[i] = p[ix[i]]
  BY <1>2, <1>10
<1>12. QED
  BY <1>1, <1>2, <1>5, <1>9, <1>10, <1>11, Zenon DEF Tracks

(* What the loop of fs_normalize_path does with a piece while its stack    *)
(* has room, and when it has none.                                         *)
LEMMA EnterCases ==
  ASSUME NEW stack \in Seq(Files), NEW piece \in Piece
  PROVE  /\ Len(stack) = MaxDepth => Enter(stack, piece) = stack
         /\ Len(stack) # MaxDepth /\ piece \in Files => Enter(stack, piece) = Append(stack, piece)
         /\ Len(stack) # MaxDepth /\ piece = ".." /\ stack # <<>>
              => Enter(stack, piece) = Seqs!Front(stack)
         /\ piece = ".." /\ stack = <<>> => Enter(stack, piece) = stack
         /\ piece \notin Files /\ piece # ".." => Enter(stack, piece) = stack
<1>1. CASE Len(stack) = MaxDepth
  BY <1>1, Zenon DEF Enter
<1>2. CASE Len(stack) # MaxDepth /\ piece \in {Empty, "."}
  <2>1. piece \notin Files /\ piece # ".."
    BY <1>2, PieceFacts, Zenon DEF Empty
  <2>2. Enter(stack, piece) = stack
    BY <1>2, <2>1, Zenon DEF Enter
  <2>3. QED
    BY <1>2, <2>1, <2>2, Zenon
<1>3. CASE Len(stack) # MaxDepth /\ piece = ".."
  <2>1. piece \notin Files /\ piece \notin {Empty, "."}
    BY <1>3, PieceFacts, Zenon DEF Empty
  <2>2. Enter(stack, piece) = IF stack # <<>> THEN Seqs!Front(stack) ELSE stack
    BY <1>3, <2>1, Zenon DEF Enter
  <2>3. QED
    BY <1>3, <2>1, <2>2, Zenon
<1>4. CASE Len(stack) # MaxDepth /\ piece \in Files
  <2>1. piece \notin {Empty, "."} /\ piece # ".."
    BY <1>4, PieceFacts, Zenon
  <2>2. Enter(stack, piece) = Append(stack, piece)
    BY <1>4, <2>1, Zenon DEF Enter
  <2>3. QED
    BY <1>4, <2>1, <2>2, Zenon
<1>5. piece \in Files \/ piece \in {Empty, "."} \/ piece = ".."
  BY PieceFacts, Zenon
<1>6. QED
  BY <1>1, <1>2, <1>3, <1>4, <1>5, Zenon

LEMMA TracksNext ==
  ASSUME NEW p \in Seq(Piece), NEW n \in Nat, n + 1 <= Len(p), NEW ix, Tracks(p, n, ix),
         Len(Stack(p)[n]) # MaxDepth
  PROVE  \E iy : Tracks(p, n + 1, iy)
<1>1. PICK s : s = Stack(p)[n]
  OBVIOUS
<1>2. s \in Seq(Files) /\ Len(s) # MaxDepth
  BY <1>1 DEF Tracks
<1>3. n + 1 \in 1 .. Len(p) /\ (n + 1) - 1 = n
  BY LenProperties
<1>4. PICK x \in Piece : x = p[n + 1]
  BY <1>3, ElementOfSeq
<1>5. Stack(p)[n + 1] = Enter(s, x)
  BY <1>1, <1>3, <1>4, StackDef
<1>6. CASE x \in Files
  <2>1. Stack(p)[n + 1] = Append(s, x)
    BY <1>2, <1>5, <1>6, EnterCases
  <2>2. Tracks(p, n + 1, Append(ix, n + 1))
    BY <1>1, <1>4, <1>6, <2>1, TracksName
  <2>3. QED
    BY <2>2
<1>7. CASE x = ".." /\ s # <<>>
  <2>1. Stack(p)[n + 1] = Seqs!Front(s)
    BY <1>2, <1>5, <1>7, EnterCases, Zenon
  <2>2. Tracks(p, n + 1, Seqs!Front(ix))
    BY <1>1, <1>4, <1>7, <2>1, TracksDots
  <2>3. QED
    BY <2>2
<1>8. CASE x \notin Files /\ (x = ".." => s = <<>>)
  <2>1. Stack(p)[n + 1] = s
    BY <1>2, <1>5, <1>8, EnterCases, Zenon
  <2>2. Tracks(p, n + 1, ix)
    BY <1>1, <1>4, <1>8, <2>1, TracksSame
  <2>3. QED
    BY <2>2
<1>9. QED
  BY <1>6, <1>7, <1>8, PieceFacts, Zenon

(* As long as the stack was never full before, it holds what survives.     *)
Open(p, n) == \A m \in 0 .. n - 1 : Len(Stack(p)[m]) # MaxDepth

LEMMA StackSurvives ==
  ASSUME NEW p \in Seq(Piece), NEW n \in 0 .. Len(p), Open(p, n)
  PROVE  Stack(p)[n] = Survivors(p, n)
<1>0. Len(p) \in Nat /\ n \in Nat /\ n <= Len(p)
  BY LenProperties
<1> DEFINE P == { m \in Nat : m <= n => \E ix : Tracks(p, m, ix) }
<1>1. 0 \in P
  BY TracksStart
<1>2. ASSUME NEW m \in P PROVE m + 1 \in P
  <2>1. SUFFICES ASSUME m + 1 <= n PROVE \E iy : Tracks(p, m + 1, iy)
    OBVIOUS
  <2>2. m \in Nat /\ m <= n /\ m \in 0 .. n - 1 /\ m + 1 <= Len(p)
    BY <1>0, <2>1
  <2>3. PICK ix : Tracks(p, m, ix)
    BY <2>2
  <2>4. Len(Stack(p)[m]) # MaxDepth
    BY <2>2 DEF Open
  <2>5. QED
    BY <2>2, <2>3, <2>4, TracksNext
<1>3. P \in SUBSET Nat
  OBVIOUS
<1> HIDE DEF P
<1>4. P = Nat
  BY <1>1, <1>2, <1>3, NatInd
<1>5. n \in P /\ n <= n
  BY <1>0, <1>4
<1>6. PICK ix : Tracks(p, n, ix)
  BY <1>5 DEF P
<1>7. PICK at : at = { k \in 1 .. n : Survives(p, n, k) }
  OBVIOUS
<1>8. Rising(ix) /\ at = Positions(ix)
  BY <1>6, <1>7 DEF Tracks
<1>9. Survivors(p, n) = InOrder(p, at)
  <2>1. Survivors(p, n) = InOrder(p, { k \in 1 .. n : Survives(p, n, k) })
    BY DEF Survivors, InOrder
  <2>2. QED
    BY <1>7, <2>1
<1>10. Survivors(p, n) = [i \in 1 .. Len(ix) |-> p[ix[i]]]
  BY <1>8, <1>9, Ranked
<1>11. PICK s : s = Stack(p)[n]
  OBVIOUS
<1>12. s \in Seq(Files) /\ Len(s) = Len(ix) /\ \A i \in 1 .. Len(ix) : s[i] = p[ix[i]]
  BY <1>6, <1>11 DEF Tracks
<1>13. s = [i \in 1 .. Len(ix) |-> s[i]]
  BY <1>12, LenProperties
<1>14. QED
  BY <1>10, <1>11, <1>12, <1>13

(* A full stack stays as it is.                                            *)
LEMMA FullStays ==
  ASSUME NEW p \in Seq(Piece), NEW n \in 0 .. Len(p), Len(Stack(p)[n]) = MaxDepth
  PROVE  Stack(p)[Len(p)] = Stack(p)[n]
<1>0. Len(p) \in Nat /\ n \in Nat
  BY LenProperties
<1>1. PICK s : s = Stack(p)[n]
  OBVIOUS
<1>2. s \in Seq(Files) /\ Len(s) = MaxDepth
  BY <1>1, StackType
<1> DEFINE P == { d \in Nat : n + d <= Len(p) => Stack(p)[n + d] = s }
<1>3. 0 \in P
  BY <1>0, <1>1
<1>4. ASSUME NEW d \in P PROVE d + 1 \in P
  <2>1. SUFFICES ASSUME n + (d + 1) <= Len(p) PROVE Stack(p)[n + (d + 1)] = s
    OBVIOUS
  <2>2. PICK m \in Nat : m = n + d
    BY <1>0
  <2>3. n + (d + 1) = m + 1 /\ m + 1 \in 1 .. Len(p) /\ (m + 1) - 1 = m
    BY <1>0, <2>1, <2>2
  <2>4. Stack(p)[m] = s
    BY <1>0, <2>1, <2>2
  <2>5. PICK x \in Piece : x = p[m + 1]
    BY <2>3, ElementOfSeq
  <2>6. Stack(p)[m + 1] = Enter(s, x)
    BY <2>3, <2>4, <2>5, StackDef
  <2>7. QED
    BY <1>2, <2>3, <2>6, EnterCases
<1>5. P \in SUBSET Nat
  OBVIOUS
<1> HIDE DEF P
<1>6. P = Nat
  BY <1>3, <1>4, <1>5, NatInd
<1>7. PICK d \in Nat : n + d = Len(p)
  <2>1. Len(p) - n \in Nat /\ n + (Len(p) - n) = Len(p)
    BY <1>0
  <2>2. QED
    BY <2>1
<1>8. n + d <= Len(p)
  BY <1>0, <1>7
<1>9. d \in P
  BY <1>6
<1>10. Stack(p)[n + d] = s
  BY <1>8, <1>9 DEF P
<1>11. QED
  BY <1>1, <1>7, <1>10

(* What fs_normalize_path sees of a path, and what its stack holds then.   *)
LEMMA SeenFacts ==
  ASSUME NEW p \in Seq(Piece)
  PROVE  /\ Seen(p) \in 0 .. Len(p)
         /\ Open(p, Seen(p))
         /\ Stack(p)[Len(p)] = Survivors(p, Seen(p))
<1>0. Len(p) \in Nat
  BY LenProperties
<1> DEFINE U == { n \in 0 .. Len(p) : Len(Survivors(p, n)) = MaxDepth } \cup {Len(p)}
<1>1. U \in SUBSET Nat /\ U # {} /\ U \subseteq 0 .. Len(p)
  BY <1>0
<1>2. \E x \in U : \A y \in U : x <= y
  BY <1>1, NatMin, Zenon
<1>3. Seen(p) = CHOOSE x \in U : \A y \in U : x <= y
  BY DEF Seen, Min
<1>4. Seen(p) \in U /\ \A y \in U : Seen(p) <= y
  BY <1>2, <1>3, Zenon
<1>5. PICK s \in 0 .. Len(p) : s = Seen(p)
  BY <1>1, <1>4
<1>6. ASSUME NEW m \in 0 .. s - 1 PROVE Len(Survivors(p, m)) # MaxDepth
  <2>1. m \in 0 .. Len(p) /\ ~(s <= m)
    BY <1>0, <1>5
  <2>2. m \notin U
    BY <1>4, <1>5, <2>1
  <2>3. QED
    BY <2>1, <2>2
<1>7. s = Len(p) \/ Len(Survivors(p, s)) = MaxDepth
  BY <1>4, <1>5
<1> HIDE DEF U
<1> DEFINE P == { m \in Nat : m <= s => Open(p, m) }
<1>8. 0 \in P
  <2>1. 0 .. 0 - 1 = {}
    OBVIOUS
  <2>2. QED
    BY <2>1 DEF Open
<1>9. ASSUME NEW m \in P PROVE m + 1 \in P
  <2>1. SUFFICES ASSUME m + 1 <= s PROVE Open(p, m + 1)
    OBVIOUS
  <2>2. m \in Nat /\ m \in 0 .. s - 1 /\ m \in 0 .. Len(p) /\ m <= s
    BY <1>0, <1>5, <2>1
  <2>3. Open(p, m)
    BY <2>2
  <2>4. Stack(p)[m] = Survivors(p, m)
    BY <2>2, <2>3, StackSurvives
  <2>5. Len(Stack(p)[m]) # MaxDepth
    BY <1>6, <2>2, <2>4
  <2>6. 0 .. (m + 1) - 1 = (0 .. m - 1) \cup {m}
    BY <2>2
  <2>7. QED
    BY <2>3, <2>5, <2>6 DEF Open
<1>10. P \in SUBSET Nat
  OBVIOUS
<1> HIDE DEF P
<1>11. s \in P /\ s <= s
  <2>1. s \in Nat /\ s <= s
    BY <1>0, <1>5
  <2>2. P = Nat
    BY <1>8, <1>9, <1>10, NatInd
  <2>3. QED
    BY <2>1, <2>2, Zenon
<1>12. Open(p, s)
  BY <1>11 DEF P
<1>13. Stack(p)[s] = Survivors(p, s)
  BY <1>12, StackSurvives
<1>14. Stack(p)[Len(p)] = Stack(p)[s]
  <2>1. CASE s = Len(p)
    BY <2>1
  <2>2. CASE Len(Survivors(p, s)) = MaxDepth
    BY <1>13, <2>2, FullStays
  <2>3. QED
    BY <1>7, <2>1, <2>2
<1>15. QED
  BY <1>5, <1>12, <1>13, <1>14

LEMMA NormalizeTo ==
  ASSUME NEW p \in Seq(Piece)
  PROVE  /\ Normalize(p) = PathTo(Stack(p)[Len(p)])
         /\ Stack(p)[Len(p)] \in Seq(Files)
<1>1. Len(p) \in 0 .. Len(p)
  BY LenProperties
<1>2. QED
  BY <1>1, StackType DEF Normalize, PathTo

(* fs_normalize_path leaves the names that no ".." takes back              *)
(* (KeepsSurvivors).                                                       *)
THEOREM SurvivorsKept == Spec => []KeepsSurvivors
<1>1. ASSUME Typed PROVE KeepsSurvivors
  <2>1. path \in Seq(Piece)
    BY <1>1 DEF Typed
  <2>2. QED
    BY <2>1, SeenFacts, NormalizeTo DEF KeepsSurvivors
<1>2. QED
  BY <1>1, TypedKept, PTL

-----------------------------------------------------------------------------
(* The names of a directory, as a path of their own, make the stack that   *)
(* they are.                                                               *)
LEMMA NamesRead ==
  ASSUME NEW names \in Seq(Files), Len(names) <= MaxDepth, NEW k \in 0 .. Len(names)
  PROVE  /\ names \in Seq(Piece)
         /\ Len(Stack(names)[k]) = k
         /\ k = Len(names) => Stack(names)[k] = names
         /\ k = Len(names) => Stack(<<Empty>> \o names)[k + 1] = names
<1>1. PICK q : q = <<Empty>> \o names
  OBVIOUS
<1>2. PICK n \in Nat : n = Len(names)
  BY LenProperties
<1>3. names \in Seq(Piece)
  BY PieceFacts, SeqMonotonic
<1>4. /\ q \in Seq(Piece) /\ Len(q) = n + 1 /\ q[1] = Empty
      /\ \A i \in 2 .. n + 1 : q[i] = names[i - 1] /\ names[i - 1] \in Files
  BY <1>1, <1>2, SlashBefore
<1>5. k \in Nat /\ k <= n /\ k <= MaxDepth /\ k + 1 <= Len(q)
  BY <1>2, <1>4, DepthNat
<1>6. Names1(q, k)
  BY <1>4, <1>5 DEF Names1
<1>7. PICK s : s = Stack(q)[k + 1]
  OBVIOUS
<1>8. s \in Seq(Files) /\ Len(s) = k /\ \A i \in 1 .. k : s[i] = q[i + 1]
  BY <1>6, <1>7, ReadBack DEF Holds
<1>9. Stack(names)[k] = s
  <2>1. Stack(q)[1] = <<>>
    <3>1. Names1(q, 0)
      BY <1>4, DepthNat DEF Names1
    <3>2. Holds(Stack(q)[0 + 1], q, 0)
      BY <3>1, ReadBack
    <3>3. Stack(q)[1] \in Seq(Files) /\ Len(Stack(q)[1]) = 0
      BY <3>2 DEF Holds
    <3>4. QED
      BY <3>3, EmptySeq
  <2>2. Stack(names)[0] = <<>>
    BY <1>3, StackDef
  <2>3. \A i \in 1 .. k : names[0 + i] = q[1 + i]
    <3>1. TAKE i \in 1 .. k
    <3>2. PICK j \in 2 .. n + 1 : j = 1 + i
      BY <1>5
    <3>3. q[j] = names[j - 1] /\ j - 1 = i /\ 0 + i = i
      BY <1>4, <3>2
    <3>4. QED
      BY <3>2, <3>3
  <2>4. SameFrom(names, 0, q, 1, k)
    <3>1. 0 + k <= Len(names) /\ 1 + k <= Len(q)
      BY <1>2, <1>5
    <3>2. QED
      BY <2>1, <2>2, <2>3, <3>1 DEF SameFrom
  <2>5. Stack(names)[0 + k] = Stack(q)[1 + k]
    BY <1>3, <1>4, <1>5, <2>4, StackRest
  <2>6. 0 + k = k /\ 1 + k = k + 1
    BY <1>5
  <2>7. QED
    BY <1>7, <2>5, <2>6
<1>10. ASSUME k = Len(names) PROVE s = names
  <2>1. ASSUME NEW i \in 1 .. k PROVE s[i] = names[i]
    <3>1. PICK j \in 2 .. n + 1 : j = i + 1
      BY <1>5
    <3>2. q[j] = names[j - 1] /\ j - 1 = i
      BY <1>4, <3>1
    <3>3. QED
      BY <1>8, <3>1, <3>2
  <2>2. QED
    BY <1>8, <1>10, <2>1, SeqEqual
<1>11. QED
  BY <1>1, <1>3, <1>7, <1>8, <1>9, <1>10

(* Both spellings of a directory make the stack of its names.              *)
LEMMA DirStack ==
  ASSUME NEW names \in Seq(Files), Len(names) < MaxDepth,
         NEW dir, dir \in {PathTo(names), WithSlash(PathTo(names))}
  PROVE  dir \in Seq(Piece) /\ Stack(dir)[Len(dir)] = names
<1>1. PICK n \in Nat : n = Len(names)
  BY LenProperties
<1>2. n \in 0 .. Len(names) /\ Len(names) <= MaxDepth
  BY <1>1, DepthNat
<1>3. PICK q : q = PathTo(names)
  OBVIOUS
<1>4. CASE names = <<>>
  <2>1. q = RootDir
    BY <1>3, <1>4 DEF PathTo
  <2>2. dir = RootDir
    BY <1>3, <2>1, RootPlain DEF WithSlash
  <2>3. Normalize(RootDir) = RootDir /\ RootDir \in Seq(Piece)
    BY NormalizeRoot, RootPlain DEF Plain
  <2>4. PICK s : s = Stack(RootDir)[Len(RootDir)]
    OBVIOUS
  <2>5. s \in Seq(Files) /\ RootDir = PathTo(s)
    BY <2>3, <2>4, NormalizeTo
  <2>6. s = <<>>
    <3>1. SUFFICES ASSUME s # <<>> PROVE FALSE
      OBVIOUS
    <3>2. RootDir = <<Empty>> \o s
      BY <2>5, <3>1 DEF PathTo
    <3>3. Len(RootDir) = Len(s) + 1 /\ Len(s) \in Nat /\ \A k \in 2 .. Len(s) + 1 : RootDir[k] \in Files
      BY <2>5, <3>2, SlashBefore
    <3>4. RootDir[2] \in Files
      <4>1. Len(RootDir) = 2
        BY RootPlain
      <4>2. 2 \in 2 .. Len(s) + 1
        <5>1. PICK m \in Nat : m = Len(s)
          BY <3>3
        <5>2. 2 = m + 1
          BY <3>3, <4>1, <5>1
        <5>3. 2 \in 2 .. m + 1
          BY <5>2
        <5>4. QED
          BY <5>1, <5>3
      <4>3. QED
        BY <3>3, <4>2
    <3>5. QED
      BY <3>4, PieceFacts, RootPlain
  <2>7. QED
    BY <1>4, <2>2, <2>3, <2>4, <2>6
<1>5. CASE names # <<>>
  <2>1. q = <<Empty>> \o names
    BY <1>3, <1>5 DEF PathTo
  <2>2. q \in Seq(Piece) /\ Len(q) = n + 1
    BY <1>1, <2>1, SlashBefore
  <2>3. Stack(q)[n + 1] = names
    BY <1>1, <1>2, <2>1, NamesRead
  <2>4. CASE dir = q
    BY <2>2, <2>3, <2>4
  <2>5. CASE dir # q
    <3>1. dir = Append(q, Empty)
      BY <1>3, <2>5 DEF WithSlash
    <3>2. /\ dir \in Seq(Piece) /\ Len(dir) = Len(q) + 1
          /\ Stack(dir)[Len(q) + 1] = Stack(q)[Len(q)]
      BY <2>2, <3>1, StackSlash
    <3>3. QED
      BY <2>2, <2>3, <3>2
  <2>6. QED
    BY <2>4, <2>5
<1>6. QED
  BY <1>4, <1>5

(* So the rest of a way leads to the same from a directory and from its    *)
(* names.                                                                  *)
LEMMA WaysMeet ==
  ASSUME NEW names \in Seq(Files), Len(names) < MaxDepth, NEW p \in Seq(Piece),
         NEW dir, dir \in {PathTo(names), WithSlash(PathTo(names))},
         Open(dir \o p, Len(dir \o p))
  PROVE  /\ dir \o p \in Seq(Piece) /\ names \o p \in Seq(Piece)
         /\ Stack(names \o p)[Len(names \o p)] = Stack(dir \o p)[Len(dir \o p)]
         /\ Open(names \o p, Len(names \o p))
<1>0. dir \in Seq(Piece) /\ Stack(dir)[Len(dir)] = names
  BY DirStack
<1>1. PICK a \in Nat : a = Len(names)
  BY LenProperties
<1>2. PICK b \in Nat : b = Len(dir)
  BY <1>0, LenProperties
<1>3. PICK m \in Nat : m = Len(p)
  BY LenProperties
<1>4. a <= MaxDepth /\ a < MaxDepth
  BY <1>1, DepthNat
<1>5. names \in Seq(Piece) /\ Stack(names)[a] = names
  BY <1>1, <1>4, NamesRead
<1>6. PICK u : u = names \o p
  OBVIOUS
<1>7. PICK v : v = dir \o p
  OBVIOUS
<1>8. /\ u \in Seq(Piece) /\ Len(u) = a + m
      /\ \A k \in 1 .. a : u[k] = names[k]
      /\ \A k \in 1 .. m : u[a + k] = p[k]
      /\ Stack(u)[a] = names
  BY <1>1, <1>3, <1>5, <1>6, Joined, StackOfDir
<1>9. /\ v \in Seq(Piece) /\ Len(v) = b + m
      /\ \A k \in 1 .. m : v[b + k] = p[k]
      /\ Stack(v)[b] = names
  <2>1. /\ dir \o p \in Seq(Piece) /\ Len(dir \o p) = Len(dir) + Len(p)
        /\ \A k \in 1 .. Len(p) : (dir \o p)[Len(dir) + k] = p[k]
    BY <1>0, Joined
  <2>2. Stack(dir \o p)[Len(dir)] = Stack(dir)[Len(dir)]
    BY <1>0, StackOfDir
  <2>3. QED
    BY <1>0, <1>2, <1>3, <1>7, <2>1, <2>2, Zenon
<1>10. ASSUME NEW k \in 0 .. m PROVE Stack(u)[a + k] = Stack(v)[b + k]
  <2>1. SameFrom(u, a, v, b, k)
    <3>1. a + k <= Len(u) /\ b + k <= Len(v)
      BY <1>8, <1>9
    <3>2. \A i \in 1 .. k : u[a + i] = v[b + i]
      <4>1. \A i \in 1 .. k : i \in 1 .. m
        OBVIOUS
      <4>2. QED
        BY <1>8, <1>9, <4>1, Zenon
    <3>3. QED
      BY <1>8, <1>9, <3>1, <3>2 DEF SameFrom
  <2>2. QED
    BY <1>8, <1>9, <2>1, StackRest
<1>11. \A j \in 0 .. (b + m) - 1 : Len(Stack(v)[j]) # MaxDepth
  BY <1>7, <1>9 DEF Open
<1>12. ASSUME NEW j \in 0 .. (a + m) - 1 PROVE Len(Stack(u)[j]) # MaxDepth
  <2>1. CASE j < a
    <3>1. j \in Nat /\ j <= Len(u) /\ j <= Len(names) /\ j \in 0 .. Len(names)
      BY <1>1, <1>8, <2>1
    <3>2. \A k \in 1 .. j : u[k] = names[k]
      BY <1>8, <2>1
    <3>3. Stack(u)[j] = Stack(names)[j]
      BY <1>5, <1>8, <3>1, <3>2, StackFirst
    <3>4. Len(Stack(names)[j]) = j
      BY <1>1, <1>4, <3>1, NamesRead
    <3>5. j # MaxDepth
      BY <1>4, <2>1, DepthNat
    <3>6. QED
      BY <3>3, <3>4, <3>5
  <2>2. CASE ~(j < a)
    <3>1. PICK k \in 0 .. m : j = a + k /\ k < m
      <4>1. j - a \in 0 .. m /\ j = a + (j - a) /\ j - a < m
        BY <2>2
      <4>2. QED
        BY <4>1
    <3>2. b + k \in 0 .. (b + m) - 1
      BY <3>1
    <3>3. QED
      BY <1>10, <1>11, <3>1, <3>2
  <2>3. QED
    BY <2>1, <2>2
<1>13. Open(u, Len(u))
  BY <1>8, <1>12 DEF Open
<1>14. Stack(u)[Len(u)] = Stack(v)[Len(v)]
  <2>1. m \in 0 .. m
    OBVIOUS
  <2>2. QED
    BY <1>8, <1>9, <1>10, <2>1
<1>15. QED
  BY <1>6, <1>7, <1>8, <1>9, <1>13, <1>14

(* Where the user is: at the path of place, spelled with a slash at its    *)
(* end or without.                                                         *)
Placed ==
  /\ path \in Seq(Piece)
  /\ place \in Seq(Files) /\ Len(place) <= MaxPlace
  /\ WalksTogether

LEMMA PathToPlain ==
  ASSUME NEW names \in Seq(Files), Len(names) < MaxDepth
  PROVE  /\ Plain(PathTo(names))
         /\ PathTo(names) = RootDir \/ Len(PathTo(names)) <= MaxDepth
<1>1. CASE names = <<>>
  BY <1>1, RootPlain DEF PathTo
<1>2. CASE names # <<>>
  <2>1. PICK n \in Nat \ {0} : n = Len(names)
    BY <1>2, EmptySeq
  <2>2. PICK q : q = PathTo(names)
    OBVIOUS
  <2>3. /\ q \in Seq(Piece) /\ Len(q) = n + 1 /\ q[1] = Empty
        /\ \A k \in 2 .. n + 1 : q[k] \in Files
    BY <1>2, <2>1, <2>2, SlashBefore DEF PathTo
  <2>4. n + 1 <= MaxDepth
    BY <2>1, DepthNat
  <2>5. Len(q) > 1 /\ Len(q) <= MaxDepth + 1 /\ Len(q) <= MaxDepth
    BY <2>1, <2>3, <2>4, DepthNat
  <2>6. QED
    BY <2>2, <2>3, <2>5 DEF Plain
<1>3. QED
  BY <1>1, <1>2

(* The parent by text is the one that ".." in a longer path leads to.      *)
LEMMA ParentMeets ==
  ASSUME NEW names \in Seq(Files), Len(names) < MaxDepth,
         NEW dir, dir \in {PathTo(names), WithSlash(PathTo(names))}
  PROVE  Parent(dir) = Absolute(<<"..">>, dir)
<1>1. PICK q : q = PathTo(names)
  OBVIOUS
<1>2. Plain(q) /\ (q = RootDir \/ Len(q) <= MaxDepth)
  BY <1>1, PathToPlain
<1>3. Absolute(<<"..">>, WithSlash(q)) = Parent(q)
  BY <1>2, DotsLeadUp
<1>4. <<"..">> \in Seq(Piece) /\ q \in Seq(Piece)
  BY <1>2, PieceFacts, Single DEF Plain
<1>5. Absolute(<<"..">>, WithSlash(q)) = Absolute(<<"..">>, q)
  BY <1>4, WithSlashForgotten
<1>6. Parent(WithSlash(q)) = Parent(q)
  <2>1. CASE q = RootDir
    BY <2>1, RootPlain DEF WithSlash
  <2>2. CASE q # RootDir
    BY <1>2, <2>2, PlainSlash, ParentPlain
  <2>3. QED
    BY <2>1, <2>2
<1>7. QED
  BY <1>1, <1>3, <1>5, <1>6

LEMMA DotStays ==
  ASSUME NEW names \in Seq(Files), Len(names) < MaxDepth
  PROVE  Stack(names \o <<".">>)[Len(names \o <<".">>)] = names
<1>1. PICK dot : dot = <<".">>
  OBVIOUS
<1>2. dot \in Seq(Piece) /\ Len(dot) = 1 /\ dot[1] = "."
  BY <1>1, PieceFacts, Single
<1>3. PICK n \in Nat : n = Len(names)
  BY LenProperties
<1>4. n \in 0 .. Len(names) /\ Len(names) <= MaxDepth
  BY <1>3, DepthNat
<1>5. names \in Seq(Piece) /\ Stack(names)[n] = names
  BY <1>3, <1>4, NamesRead
<1>6. PICK u : u = names \o dot
  OBVIOUS
<1>7. /\ u \in Seq(Piece) /\ Len(u) = n + 1
      /\ \A k \in 1 .. 1 : u[n + k] = dot[k]
      /\ Stack(u)[n] = names
  <2>1. /\ u \in Seq(Piece) /\ Len(u) = n + 1
        /\ \A k \in 1 .. 1 : u[n + k] = dot[k]
    <3>1. PICK m \in Nat : m = Len(dot)
      BY <1>2
    <3>2. /\ u \in Seq(Piece) /\ Len(u) = n + m
          /\ \A k \in 1 .. m : u[n + k] = dot[k]
      BY <1>2, <1>3, <1>5, <1>6, <3>1, Joined
    <3>3. QED
      BY <1>2, <3>1, <3>2
  <2>2. Stack(u)[n] = Stack(names)[n]
    BY <1>2, <1>3, <1>5, <1>6, StackOfDir
  <2>3. QED
    BY <1>5, <2>1, <2>2
<1>8. u[n + 1] = "."
  BY <1>2, <1>7
<1>9. n + 1 \in 1 .. Len(u) /\ (n + 1) - 1 = n
  BY <1>7
<1>10. Stack(u)[n + 1] = Enter(names, ".")
  BY <1>7, <1>8, <1>9, StackDef
<1>11. "." \in Piece /\ "." \notin Files /\ "." # ".."
  BY PieceFacts, Zenon
<1>12. Enter(names, ".") = names
  BY <1>11, EnterCases, Zenon
<1>13. QED
  BY <1>1, <1>6, <1>7, <1>10, <1>12

(* One cd: where fs_change_directory goes is where the walk goes.          *)
LEMMA CdMeets ==
  ASSUME Placed, Cd
  PROVE  /\ place' \in Seq(Files)
         /\ cwd' \in {PathTo(place'), WithSlash(PathTo(place'))}
<1>1. /\ path \in Seq(Piece) /\ place \in Seq(Files)
      /\ cwd \in {PathTo(place), WithSlash(PathTo(place))}
  BY DEF Placed, WalksTogether
<1>2. Len(place) < MaxDepth
  <2>1. MaxPlace \in Nat /\ MaxPlace < MaxDepth
    BY PathLawsAssumption, Zenon
  <2>2. Len(place) \in Nat /\ Len(place) <= MaxPlace
    BY <1>1, LenProperties DEF Placed
  <2>3. QED
    BY <2>1, <2>2, DepthNat
<1>3. PICK v : v = Way(cwd, path)
  OBVIOUS
<1>4. PICK u : u = Way(place, path)
  OBVIOUS
<1>5. Seen(v) = Len(v) /\ cwd' = Target(path, cwd) /\ place' = Survivors(u, Len(u))
  BY <1>3, <1>4 DEF Cd, Walk
<1>6. cwd \in Seq(Piece)
  BY <1>1, <1>2, DirStack
<1>7. <<>> \o path = path
  BY <1>1, ConcatEmptySeq
<1>8. CASE IsAbsolute(path)
  <2>1. v = path /\ u = path
    BY <1>3, <1>4, <1>7, <1>8 DEF Way
  <2>2. place' = Stack(path)[Len(path)]
    BY <1>1, <1>5, <2>1, SeenFacts
  <2>3. place' \in Seq(Files) /\ Normalize(path) = PathTo(place')
    BY <1>1, <2>2, NormalizeTo
  <2>4. Absolute(path, cwd) = Normalize(path)
    BY <1>8 DEF Absolute
  <2>5. path # <<"..">> /\ path # <<".">>
    <3>1. Len(<<"..">>) = 1 /\ Len(<<".">>) = 1
      BY PieceFacts, Single
    <3>2. Len(path) > 1
      BY <1>8 DEF IsAbsolute
    <3>3. PICK n \in Nat : n = Len(path)
      BY <1>1, LenProperties
    <3>4. Len(path) # 1
      BY <3>2, <3>3
    <3>5. QED
      BY <3>1, <3>4, Zenon
  <2>6. Target(path, cwd) = WithSlash(Absolute(path, cwd))
    BY <2>5 DEF Target
  <2>7. QED
    BY <1>5, <2>3, <2>4, <2>6
<1>9. CASE ~IsAbsolute(path)
  <2>1. v = cwd \o path /\ u = place \o path
    BY <1>3, <1>4, <1>9 DEF Way
  <2>2. v \in Seq(Piece)
    BY <1>1, <1>6, <2>1, Joined
  <2>3. Open(v, Len(v))
    BY <1>5, <2>2, SeenFacts
  <2>4. u \in Seq(Piece) /\ Stack(u)[Len(u)] = Stack(v)[Len(v)] /\ Open(u, Len(u))
    BY <1>1, <1>2, <2>1, <2>3, WaysMeet
  <2>5. Len(u) \in 0 .. Len(u)
    BY <2>4, LenProperties
  <2>6. place' = Stack(u)[Len(u)]
    BY <1>5, <2>4, <2>5, StackSurvives
  <2>7. place' \in Seq(Files) /\ Normalize(v) = PathTo(place')
    BY <2>2, <2>4, <2>6, NormalizeTo
  <2>8. Absolute(path, cwd) = PathTo(place')
    BY <1>9, <2>1, <2>7 DEF Absolute
  <2>9. CASE path = <<"..">>
    <3>1. Target(path, cwd) = Parent(cwd)
      BY <2>9 DEF Target
    <3>2. QED
      BY <1>1, <1>2, <1>5, <2>7, <2>8, <2>9, <3>1, ParentMeets
  <2>10. CASE path # <<"..">> /\ path = <<".">>
    <3>1. Target(path, cwd) = cwd
      BY <2>10 DEF Target
    <3>2. place' = place
      BY <1>1, <1>2, <2>1, <2>6, <2>10, DotStays
    <3>3. QED
      BY <1>1, <1>5, <2>7, <3>1, <3>2
  <2>11. CASE path # <<"..">> /\ path # <<".">>
    <3>1. Target(path, cwd) = WithSlash(Absolute(path, cwd))
      BY <2>11 DEF Target
    <3>2. QED
      BY <1>5, <2>7, <2>8, <3>1
  <2>12. QED
    BY <2>9, <2>10, <2>11
<1>10. QED
  BY <1>8, <1>9

LEMMA PlacedKept == Spec => []Placed
<1>1. Init => Placed
  <2>1. SUFFICES ASSUME Init PROVE Placed
    OBVIOUS
  <2>2. path \in Seq(Piece) /\ cwd = RootDir /\ place = <<>>
    BY <2>1, OnePiece DEF Init
  <2>3. place \in Seq(Files) /\ Len(place) = 0
    BY <2>2, EmptySeq
  <2>4. MaxPlace \in Nat
    BY PathLawsAssumption, Zenon
  <2>5. WalksTogether
    BY <2>2 DEF WalksTogether, PathTo
  <2>6. QED
    BY <2>2, <2>3, <2>4, <2>5 DEF Placed
<1>2. ASSUME Placed, [Next]_vars PROVE Placed'
  <2>1. /\ path \in Seq(Piece) /\ place \in Seq(Files) /\ Len(place) <= MaxPlace
        /\ WalksTogether
    BY <1>2 DEF Placed
  <2>2. ASSUME NEW piece \in Piece, Type(piece) PROVE Placed'
    <3>1. path' = Append(path, piece) /\ cwd' = cwd /\ place' = place
      BY <2>2 DEF Type
    <3>2. path' \in Seq(Piece)
      BY <2>1, <3>1, AppendProperties
    <3>3. QED
      BY <2>1, <3>1, <3>2 DEF Placed, WalksTogether
  <2>3. CASE Cd
    <3>1. place' \in Seq(Files) /\ cwd' \in {PathTo(place'), WithSlash(PathTo(place'))}
      BY <1>2, <2>3, CdMeets
    <3>2. Len(place') <= MaxPlace /\ path' \in Seq(Piece)
      BY <2>3, OnePiece DEF Cd
    <3>3. QED
      BY <3>1, <3>2 DEF Placed, WalksTogether
  <2>4. CASE CdHome
    <3>1. cwd' = <<Empty>> \o Home /\ place' = Home /\ path' \in Seq(Piece)
      BY <2>4, OnePiece DEF CdHome
    <3>2. Home \in Seq(Files) /\ Home # <<>> /\ Len(Home) <= MaxPlace
      BY PathLawsAssumption, Zenon
    <3>3. cwd' = PathTo(place')
      BY <3>1, <3>2 DEF PathTo
    <3>4. QED
      BY <3>1, <3>2, <3>3 DEF Placed, WalksTogether
  <2>5. CASE UNCHANGED vars
    BY <2>1, <2>5 DEF Placed, WalksTogether, vars
  <2>6. QED
    BY <1>2, <2>2, <2>3, <2>4, <2>5 DEF Next
<1>3. QED
  BY <1>1, <1>2, PTL DEF Spec

(* current_dir is where a walk piece by piece leads (WalksTogether).       *)
THEOREM WalkedTogether == Spec => []WalksTogether
<1>1. Placed => WalksTogether
  BY DEF Placed
<1>2. QED
  BY <1>1, PlacedKept, PTL

-----------------------------------------------------------------------------
(* The slots of two lines that are less than the ring apart differ.        *)
LEMMA Apart ==
  ASSUME NEW w \in Nat \ {0}, NEW a \in Nat, NEW b \in Nat, a < b, b < a + w
  PROVE  a % w # b % w
<1>1. PICK qa \in Nat : a = w * qa + (a % w)
  <2>1. a \div w \in Nat /\ a = w * (a \div w) + (a % w)
    OBVIOUS
  <2>2. QED
    BY <2>1
<1>2. PICK qb \in Nat : b = w * qb + (b % w)
  <2>1. b \div w \in Nat /\ b = w * (b \div w) + (b % w)
    OBVIOUS
  <2>2. QED
    BY <2>1
<1>3. SUFFICES ASSUME a % w = b % w PROVE FALSE
  OBVIOUS
<1>4. b - a = w * qb - w * qa
  BY <1>1, <1>2, <1>3
<1>5. w * qb - w * qa = w * (qb - qa)
  OBVIOUS
<1>6. PICK d \in Int : d = qb - qa
  OBVIOUS
<1>7. b - a = w * d
  BY <1>4, <1>5, <1>6
<1>8. 0 < w * d /\ w * d < w
  BY <1>7
<1>9. CASE d <= 0
  <2>1. w * d <= 0
    BY <1>9
  <2>2. QED
    BY <1>8, <2>1
<1>10. CASE d >= 1
  <2>1. w * d >= w
    BY <1>10
  <2>2. QED
    BY <1>8, <2>1
<1>11. QED
  BY <1>9, <1>10

LEMMA Slot ==
  ASSUME NEW w \in Nat \ {0}, NEW a \in Nat
  PROVE  a % w \in 0 .. w - 1
  OBVIOUS

LEMMA RingNat == HistorySize \in Nat \ {0}
  BY CommandLineAssumption, Zenon

(* The ring holds the last lines, each in the slot of its number, and      *)
(* history_count is how many there were.                                   *)
Lines == Sessions[session].lines

Slots == \A j \in 1 .. Len(log) :
           j > Len(log) - HistorySize => history[(j - 1) % HistorySize] = log[j]

RingInv ==
  /\ log \in Seq(Lines)
  /\ count = Len(log)
  /\ DOMAIN history = 0 .. HistorySize - 1
  /\ Slots

LEMMA NoLines ==
  ASSUME history = [i \in 0 .. HistorySize - 1 |-> <<>>], count = 0, log = <<>>
  PROVE  RingInv
<1>1. log \in Seq(Lines) /\ Len(log) = 0
  BY EmptySeq
<1>2. DOMAIN history = 0 .. HistorySize - 1
  OBVIOUS
<1>3. Slots
  BY <1>1 DEF Slots
<1>4. QED
  BY <1>1, <1>2, <1>3 DEF RingInv

LEMMA OneMore ==
  ASSUME RingInv, NEW line \in Lines, ProcessCommand(line)
  PROVE  RingInv'
<1>1. PICK w \in Nat \ {0} : w = HistorySize
  BY RingNat
<1>2. /\ log \in Seq(Lines) /\ count = Len(log) /\ DOMAIN history = 0 .. w - 1
      /\ \A j \in 1 .. Len(log) : j > Len(log) - w => history[(j - 1) % w] = log[j]
  BY <1>1 DEF RingInv, Slots
<1>3. PICK n \in Nat : n = Len(log)
  BY <1>2, LenProperties
<1>4. /\ history' = [history EXCEPT ![n % w] = line]
      /\ count' = n + 1 /\ log' = Append(log, line) /\ Lines' = Lines
  BY <1>1, <1>2, <1>3 DEF ProcessCommand, AddToHistory, Lines
<1>5. /\ log' \in Seq(Lines) /\ Len(log') = n + 1 /\ log'[n + 1] = line
      /\ \A j \in 1 .. n : log'[j] = log[j]
  BY <1>2, <1>3, <1>4, AppendProperties
<1>6. n % w \in 0 .. w - 1
  BY Slot
<1>7. DOMAIN history' = 0 .. w - 1 /\ history'[n % w] = line
  BY <1>2, <1>4, <1>6
<1>8. ASSUME NEW j \in 1 .. n + 1, j > n + 1 - w
      PROVE  history'[(j - 1) % w] = log'[j]
  <2>1. CASE j = n + 1
    <3>1. j - 1 = n
      BY <2>1
    <3>2. QED
      BY <1>5, <1>7, <2>1, <3>1
  <2>2. CASE j # n + 1
    <3>1. PICK a \in Nat : a = j - 1
      OBVIOUS
    <3>2. j \in 1 .. n /\ j > n - w /\ a < n /\ n < a + w
      BY <1>8, <2>2, <3>1
    <3>3. a % w # n % w
      BY <3>2, Apart
    <3>4. a % w \in DOMAIN history
      BY <1>2, Slot
    <3>5. history'[a % w] = history[a % w]
      BY <1>4, <3>3, <3>4
    <3>6. history[(j - 1) % w] = log[j]
      BY <1>2, <1>3, <3>2
    <3>7. QED
      BY <1>5, <3>1, <3>2, <3>5, <3>6
  <2>3. QED
    BY <2>1, <2>2
<1>9. Slots'
  BY <1>1, <1>5, <1>8 DEF Slots
<1>10. QED
  BY <1>1, <1>4, <1>5, <1>7, <1>9 DEF RingInv

LEMMA RingKept == LSpec => []RingInv
<1>1. LInit => RingInv
  BY NoLines DEF LInit, Booted
<1>2. ASSUME RingInv, [LNext]_lvars PROVE RingInv'
  <2>1. CASE Reboot
    <3>1. history' = [i \in 0 .. HistorySize - 1 |-> <<>>] /\ count' = 0 /\ log' = <<>>
      BY <2>1 DEF Reboot
    <3>2. log' \in Seq(Lines') /\ Len(log') = 0
      BY <3>1, EmptySeq
    <3>3. DOMAIN history' = 0 .. HistorySize - 1
      BY <3>1
    <3>4. Slots'
      BY <3>2 DEF Slots
    <3>5. QED
      BY <3>1, <3>2, <3>3, <3>4 DEF RingInv
  <2>2. ASSUME NEW line \in Lines, ProcessCommand(line) PROVE RingInv'
    BY <1>2, <2>2, OneMore
  <2>3. CASE UNCHANGED lvars
    BY <1>2, <2>3 DEF lvars, RingInv, Slots, Lines
  <2>4. QED
    BY <1>2, <2>1, <2>2, <2>3 DEF LNext, EnterLine, Lines
<1>3. QED
  BY <1>1, <1>2, PTL DEF LSpec

(* cmd_history takes the last lines entered out of the ring, oldest first  *)
(* and numbered since the beginning, however often the ring has gone round *)
(* (HistoryKept).                                                          *)
THEOREM LastLinesKept == LSpec => []HistoryKept
<1>1. ASSUME RingInv PROVE HistoryKept
  <2>1. PICK w \in Nat \ {0} : w = HistorySize
    BY RingNat
  <2>2. /\ log \in Seq(Lines) /\ count = Len(log)
        /\ \A j \in 1 .. Len(log) : j > Len(log) - w => history[(j - 1) % w] = log[j]
    BY <1>1, <2>1 DEF RingInv, Slots
  <2>3. PICK n \in Nat : n = Len(log)
    BY <2>2, LenProperties
  <2>4. PICK kept \in Nat : kept = IF n < w THEN n ELSE w
    OBVIOUS
  <2>5. PICK first \in Nat : first = IF n > w THEN n - w ELSE 0
    <3>1. n > w => n - w \in Nat
      OBVIOUS
    <3>2. (IF n > w THEN n - w ELSE 0) \in Nat
      BY <3>1
    <3>3. QED
      BY <3>2, Zenon
  <2>6. first = n - kept /\ kept <= n /\ kept <= w
    BY <2>4, <2>5
  <2>7. HistoryRows(history, count)
          = [i \in 1 .. kept |-> <<first + i, history[(first + i - 1) % w]>>]
    BY <2>1, <2>2, <2>3, <2>4, <2>5 DEF HistoryRows
  <2>8. ASSUME NEW i \in 1 .. kept
        PROVE  first + i = n - kept + i /\ history[(first + i - 1) % w] = log[n - kept + i]
    <3>1. PICK j \in Nat : j = first + i
      OBVIOUS
    <3>2. j \in 1 .. n /\ j > n - w /\ j = n - kept + i
      BY <2>4, <2>6, <3>1
    <3>3. history[(j - 1) % w] = log[j]
      BY <2>2, <2>3, <3>2
    <3>4. QED
      BY <3>1, <3>2, <3>3
  <2>9. HistoryRows(history, count)
          = [i \in 1 .. kept |-> <<n - kept + i, log[n - kept + i]>>]
    BY <2>7, <2>8
  <2>10. QED
    BY <2>1, <2>3, <2>4, <2>9 DEF HistoryKept, KeptLines
<1>2. QED
  BY <1>1, RingKept, PTL

-----------------------------------------------------------------------------
(* A word of a line by the place where it begins.                          *)
Ends(line, b) == { e \in b .. Len(line) : Word(line, b, e) }
Begins(line)  == { b \in 1 .. Len(line) : Ends(line, b) # {} }
WordOf(line)  == [b \in Begins(line) |-> SubSeq(line, b, CHOOSE e \in Ends(line, b) : TRUE)]

LEMMA WordsInOrder == ASSUME NEW line PROVE TheWords(line) = InOrder(WordOf(line), Begins(line))
  BY DEF TheWords, InOrder, WordOf, Begins, Ends

LEMMA BeginsFacts ==
  ASSUME NEW line \in Seq(STRING)
  PROVE  /\ Begins(line) \in SUBSET (1 .. Len(line))
         /\ \A b \in Begins(line) : line[b] \notin Blanks /\ (b = 1 \/ line[b - 1] \in Blanks)
<1>1. ASSUME NEW b \in Begins(line)
      PROVE  line[b] \notin Blanks /\ (b = 1 \/ line[b - 1] \in Blanks)
  <2>1. PICK e \in Ends(line, b) : TRUE
    BY DEF Begins
  <2>2. e \in b .. Len(line) /\ b \in 1 .. Len(line) /\ Word(line, b, e)
    BY <2>1 DEF Begins, Ends
  <2>3. b \in b .. e
    BY <2>2
  <2>4. QED
    BY <2>2, <2>3 DEF Word
<1>2. QED
  BY <1>1 DEF Begins

(* A stretch without a blank between blanks is the word that begins there. *)
LEMMA WordIs ==
  ASSUME NEW line \in Seq(STRING), NEW b \in 1 .. Len(line), NEW e \in b .. Len(line), Word(line, b, e)
  PROVE  b \in Begins(line) /\ WordOf(line)[b] = SubSeq(line, b, e)
<1>0. Len(line) \in Nat
  BY LenProperties
<1>1. e \in Ends(line, b)
  BY DEF Ends
<1>2. b \in Begins(line)
  BY <1>1 DEF Begins
<1>3. ASSUME NEW f \in Ends(line, b) PROVE f = e
  <2>1. f \in b .. Len(line) /\ Word(line, b, f)
    BY <1>3 DEF Ends
  <2>2. CASE e < f
    <3>1. e + 1 \in b .. f /\ e # Len(line)
      BY <1>0, <2>1, <2>2
    <3>2. QED
      BY <2>1, <3>1 DEF Word
  <2>3. CASE f < e
    <3>1. f + 1 \in b .. e /\ f # Len(line)
      BY <1>0, <2>1, <2>3
    <3>2. QED
      BY <2>1, <3>1 DEF Word
  <2>4. QED
    BY <2>1, <2>2, <2>3
<1>4. (CHOOSE f \in Ends(line, b) : TRUE) = e
  BY <1>1, <1>3, Zenon
<1>5. QED
  BY <1>2, <1>4 DEF WordOf

(* Every set of places can be put in order.                                *)
LEMMA Ordered ==
  ASSUME NEW n \in Nat, NEW S \in SUBSET (1 .. n)
  PROVE  \E ix : Rising(ix) /\ Positions(ix) = S
<1> DEFINE P == { m \in Nat : \E ix : Rising(ix) /\ Positions(ix) = S \cap (1 .. m) }
<1>1. 0 \in P
  <2>1. <<>> \in Seq(Nat) /\ Len(<<>>) = 0
    OBVIOUS
  <2>2. 1 .. 0 = {}
    OBVIOUS
  <2>3. Rising(<<>>) /\ Positions(<<>>) = S \cap (1 .. 0)
    BY <2>1, <2>2 DEF Rising, Positions
  <2>4. QED
    BY <2>3
<1>2. ASSUME NEW m \in P PROVE m + 1 \in P
  <2>1. m \in Nat
    OBVIOUS
  <2>2. PICK ix : Rising(ix) /\ Positions(ix) = S \cap (1 .. m)
    OBVIOUS
  <2>3. /\ ix \in Seq(Nat) /\ Len(ix) \in Nat /\ \A i \in 1 .. Len(ix) : ix[i] \in Nat
        /\ \A i, j \in 1 .. Len(ix) : i < j => ix[i] < ix[j]
    BY <2>2, LenProperties, ElementOfSeq DEF Rising
  <2>4. 1 .. m + 1 = (1 .. m) \cup {m + 1}
    BY <2>1
  <2>5. CASE m + 1 \notin S
    <3>1. S \cap (1 .. m + 1) = S \cap (1 .. m)
      BY <2>4, <2>5
    <3>2. QED
      BY <2>1, <2>2, <3>1
  <2>6. CASE m + 1 \in S
    <3> DEFINE iy == Append(ix, m + 1)
    <3>1. /\ iy \in Seq(Nat) /\ Len(iy) = Len(ix) + 1 /\ iy[Len(ix) + 1] = m + 1
          /\ \A i \in 1 .. Len(ix) : iy[i] = ix[i]
      BY <2>1, <2>3, AppendProperties
    <3> HIDE DEF iy
    <3>2. \A i \in 1 .. Len(ix) : ix[i] < m + 1
      <4>1. \A i \in 1 .. Len(ix) : ix[i] \in 1 .. m
        BY <2>2 DEF Positions
      <4>2. QED
        BY <2>1, <4>1
    <3>3. 1 .. Len(iy) = (1 .. Len(ix)) \cup {Len(ix) + 1}
      BY <2>3, <3>1
    <3>4. Rising(iy)
      <4>1. ASSUME NEW i \in 1 .. Len(iy), NEW j \in 1 .. Len(iy), i < j PROVE iy[i] < iy[j]
        <5>1. i \in 1 .. Len(ix)
          BY <2>3, <3>1, <4>1
        <5>2. CASE j = Len(ix) + 1
          BY <3>1, <3>2, <5>1, <5>2
        <5>3. CASE j # Len(ix) + 1
          <6>1. j \in 1 .. Len(ix)
            BY <3>3, <5>3
          <6>2. QED
            BY <2>3, <3>1, <4>1, <5>1, <6>1
        <5>4. QED
          BY <5>2, <5>3
      <4>2. QED
        BY <3>1, <4>1 DEF Rising
    <3>5. Positions(iy) = Positions(ix) \cup {m + 1}
      BY <3>1, <3>3 DEF Positions
    <3>6. S \cap (1 .. m + 1) = (S \cap (1 .. m)) \cup {m + 1}
      BY <2>4, <2>6
    <3>7. QED
      BY <2>1, <2>2, <3>4, <3>5, <3>6
  <2>7. QED
    BY <2>5, <2>6
<1>3. P \in SUBSET Nat
  OBVIOUS
<1> HIDE DEF P
<1>4. n \in P
  BY <1>1, <1>2, <1>3, NatInd
<1>5. S \cap (1 .. n) = S
  OBVIOUS
<1>6. QED
  BY <1>4, <1>5 DEF P

(* The loop over strtok, call by call.                                     *)
LEMMA ArgsNat == MaxArgs \in Nat
  BY CommandLineAssumption, Zenon

LEMMA TakenDef ==
  ASSUME NEW line
  PROVE  /\ Taken(line)[0] = [argv |-> <<>>, rest |-> line]
         /\ \A k \in 1 .. MaxArgs : Taken(line)[k] = Take(Taken(line)[k - 1])
<1> DEFINE start == [argv |-> <<>>, rest |-> line]
<1> DEFINE P == { m \in Nat : \E f : f = [n \in 0 .. m |-> IF n = 0 THEN start ELSE Take(f[n - 1])] }
<1>1. 0 \in P
  <2> DEFINE f == [n \in 0 .. 0 |-> start]
  <2>1. f = [n \in 0 .. 0 |-> IF n = 0 THEN start ELSE Take(f[n - 1])]
    OBVIOUS
  <2>2. QED
    BY <2>1
<1>2. ASSUME NEW m \in P PROVE m + 1 \in P
  <2> HIDE DEF start
  <2>1. m \in Nat
    OBVIOUS
  <2>2. PICK f : f = [n \in 0 .. m |-> IF n = 0 THEN start ELSE Take(f[n - 1])]
    OBVIOUS
  <2>3. \A n \in 0 .. m : f[n] = IF n = 0 THEN start ELSE Take(f[n - 1])
    BY <2>2
  <2> DEFINE g == [n \in 0 .. m + 1 |-> IF n = m + 1 THEN Take(f[m]) ELSE f[n]]
  <2>4. ASSUME NEW n \in 0 .. m + 1
        PROVE  g[n] = IF n = 0 THEN start ELSE Take(g[n - 1])
    <3>1. CASE n = m + 1
      <4>1. g[n] = Take(f[m]) /\ g[n - 1] = f[m] /\ n # 0
        BY <2>1, <3>1
      <4>2. QED
        BY <4>1
    <3>2. CASE n = 0
      BY <2>1, <2>3, <3>2
    <3>3. CASE n # m + 1 /\ n # 0
      <4>1. g[n] = f[n] /\ g[n - 1] = f[n - 1] /\ n \in 0 .. m
        BY <2>1, <3>3
      <4>2. QED
        BY <2>3, <3>3, <4>1
    <3>4. QED
      BY <3>1, <3>2, <3>3
  <2>5. DOMAIN g = 0 .. m + 1 /\ g = [n \in 0 .. m + 1 |-> g[n]]
    OBVIOUS
  <2> HIDE DEF g
  <2>6. g = [n \in 0 .. m + 1 |-> IF n = 0 THEN start ELSE Take(g[n - 1])]
    BY <2>4, <2>5
  <2>7. QED
    BY <2>1, <2>6
<1>3. P \in SUBSET Nat
  OBVIOUS
<1> HIDE DEF P
<1>4. MaxArgs \in P
  BY <1>1, <1>2, <1>3, ArgsNat, NatInd
<1>5. \E f : f = [n \in 0 .. MaxArgs |-> IF n = 0 THEN start ELSE Take(f[n - 1])]
  BY <1>4 DEF P
<1> DEFINE F == CHOOSE f : f = [n \in 0 .. MaxArgs |-> IF n = 0 THEN start ELSE Take(f[n - 1])]
<1>6. F = [n \in 0 .. MaxArgs |-> IF n = 0 THEN start ELSE Take(F[n - 1])]
  BY <1>5, Zenon
<1>7. Taken(line) = F
  BY DEF Taken
<1> HIDE DEF F, start
<1>8. F[0] = start /\ \A k \in 1 .. MaxArgs : F[k] = Take(F[k - 1])
  BY <1>6, ArgsNat
<1>9. QED
  BY <1>7, <1>8 DEF start

(* How far strtok has come after n calls, with ix the places where words   *)
(* begin: it stands at the place called at, behind the first words and     *)
(* before the others.                                                      *)
Reached(line, ix, n, at) ==
  LET m == IF n < Len(ix) THEN n ELSE Len(ix)
  IN  /\ at \in 0 .. Len(line)
      /\ at = 0 \/ at = Len(line) \/ line[at] \in Blanks
      /\ Taken(line)[n] = [argv |-> [i \in 1 .. m |-> WordOf(line)[ix[i]]],
                           rest |-> SubSeq(line, at + 1, Len(line))]
      /\ \A i \in 1 .. Len(ix) : ix[i] <= at <=> i <= m

LEMMA ReachedStart ==
  ASSUME NEW line \in Seq(STRING), NEW ix, Rising(ix), Positions(ix) = Begins(line)
  PROVE  Reached(line, ix, 0, 0)
<1>1. Len(line) \in Nat /\ Len(ix) \in Nat /\ SubSeq(line, 0 + 1, Len(line)) = line
  <2>1. SubSeq(line, 1, Len(line)) = line
    BY LenProperties
  <2>2. QED
    BY <2>1, LenProperties DEF Rising
<1>2. \A i \in 1 .. Len(ix) : ix[i] \in 1 .. Len(line)
  BY BeginsFacts DEF Positions
<1>3. [i \in 1 .. 0 |-> WordOf(line)[ix[i]]] = <<>>
  OBVIOUS
<1>4. Taken(line)[0] = [argv |-> <<>>, rest |-> line]
  BY TakenDef
<1>5. (IF 0 < Len(ix) THEN 0 ELSE Len(ix)) = 0
  BY <1>1
<1>6. \A i \in 1 .. Len(ix) : ix[i] <= 0 <=> i <= 0
  BY <1>1, <1>2
<1>7. QED
  BY <1>1, <1>3, <1>4, <1>5, <1>6 DEF Reached

(* One more call of strtok takes the next word, if there is one.           *)
LEMMA ReachedNext ==
  ASSUME NEW line \in Seq(STRING), NEW ix, Rising(ix), Positions(ix) = Begins(line),
         NEW n \in Nat, n < MaxArgs, NEW at, Reached(line, ix, n, at)
  PROVE  \E to : Reached(line, ix, n + 1, to)
<1>1. PICK m : m = IF n < Len(ix) THEN n ELSE Len(ix)
  OBVIOUS
<1>2. PICK s : s = SubSeq(line, at + 1, Len(line))
  OBVIOUS
<1>3. PICK words : words = [i \in 1 .. m |-> WordOf(line)[ix[i]]]
  OBVIOUS
<1>4. /\ at \in 0 .. Len(line)
      /\ at = 0 \/ at = Len(line) \/ line[at] \in Blanks
      /\ Taken(line)[n] = [argv |-> words, rest |-> s]
      /\ \A i \in 1 .. Len(ix) : ix[i] <= at <=> i <= m
  BY <1>1, <1>2, <1>3 DEF Reached
<1>5. /\ Len(line) \in Nat /\ Len(ix) \in Nat /\ m \in Nat /\ MaxArgs \in Nat
      /\ \A i, j \in 1 .. Len(ix) : i < j => ix[i] < ix[j]
  BY <1>1, ArgsNat, LenProperties DEF Rising
<1>6. \A i \in 1 .. Len(ix) : ix[i] \in Begins(line) /\ ix[i] \in 1 .. Len(line)
  BY BeginsFacts DEF Positions
<1>7. s \in Seq(STRING) /\ Len(s) = Len(line) - at /\ \A i \in 1 .. Len(s) : s[i] = line[at + i]
  <2>1. at \in 0 .. Len(line)
    BY <1>4
  <2>2. QED
    BY <1>2, <2>1, RestIs
<1>12. /\ at \in Nat /\ at <= Len(line) /\ Len(line) \in Nat
       /\ Len(s) \in Nat /\ Len(s) = Len(line) - at
  BY <1>4, <1>5, <1>7
<1>8. Taken(line)[n + 1] = Take([argv |-> words, rest |-> s])
  <2>1. n + 1 \in 1 .. MaxArgs /\ (n + 1) - 1 = n
    BY <1>5
  <2>2. Taken(line)[n + 1] = Take(Taken(line)[(n + 1) - 1])
    BY <2>1, TakenDef
  <2>3. QED
    BY <1>4, <2>1, <2>2
<1>9. CASE NoToken(s, Blanks)
  <2>1. Taken(line)[n + 1] = [argv |-> words, rest |-> s]
    BY <1>8, <1>9 DEF Take, NoToken
  <2>2. m = Len(ix)
    <3>1. SUFFICES ASSUME m # Len(ix) PROVE FALSE
      OBVIOUS
    <3>2. m + 1 \in 1 .. Len(ix) /\ ~(m + 1 <= m)
      BY <1>1, <1>5, <3>1
    <3>3. PICK k \in 1 .. Len(line) : k = ix[m + 1]
      BY <1>6, <3>2
    <3>4. ~(k <= at) /\ line[k] \notin Blanks
      BY <1>4, <1>6, <3>2, <3>3, BeginsFacts
    <3>5. k - at \in 1 .. Len(s) /\ at + (k - at) = k
      BY <1>12, <3>4
    <3>6. QED
      BY <1>7, <1>9, <3>4, <3>5 DEF NoToken
  <2>3. (IF n + 1 < Len(ix) THEN n + 1 ELSE Len(ix)) = m
    BY <1>1, <1>5, <2>2
  <2>4. Reached(line, ix, n + 1, at)
    BY <1>2, <1>3, <1>4, <2>1, <2>3 DEF Reached
  <2>5. QED
    BY <2>4
<1>10. CASE \E b, e \in 1 .. Len(s) : OneToken(s, Blanks, b, e)
  <2>1. PICK b \in 1 .. Len(s), e \in 1 .. Len(s) :
              /\ b <= e
              /\ \A i \in 1 .. b - 1 : s[i] \in Blanks
              /\ \A i \in b .. e : s[i] \notin Blanks
              /\ e = Len(s) \/ s[e + 1] \in Blanks
              /\ Strtok(s, Blanks) = [token |-> SubSeq(s, b, e), rest |-> SubSeq(s, e + 2, Len(s))]
    BY <1>10 DEF OneToken
  <2>2. PICK from \in 1 .. Len(line), end \in 1 .. Len(line) :
          from = at + b /\ end = at + e /\ from <= end
    <3>1. at + b \in 1 .. Len(line) /\ at + e \in 1 .. Len(line) /\ at + b <= at + e
      BY <1>4, <1>5, <1>7, <2>1
    <3>2. QED
      BY <3>1
  <2>3. \A k \in from .. end : line[k] \notin Blanks
    <3>1. ASSUME NEW k \in from .. end PROVE line[k] \notin Blanks
      <4>1. k - at \in b .. e /\ k - at \in 1 .. Len(s) /\ at + (k - at) = k
        BY <1>4, <1>5, <1>7, <2>1, <2>2
      <4>2. QED
        BY <1>7, <2>1, <4>1
    <3>2. QED
      BY <3>1
  <2>4. \A k \in at + 1 .. from - 1 : line[k] \in Blanks
    <3>1. ASSUME NEW k \in at + 1 .. from - 1 PROVE line[k] \in Blanks
      <4>1. k - at \in 1 .. b - 1 /\ k - at \in 1 .. Len(s) /\ at + (k - at) = k
        BY <1>4, <1>5, <1>7, <2>1, <2>2
      <4>2. QED
        BY <1>7, <2>1, <4>1
    <3>2. QED
      BY <3>1
  <2>5. end = Len(line) \/ line[end + 1] \in Blanks
    <3>1. CASE e = Len(s)
      BY <1>4, <1>5, <1>7, <2>2, <3>1
    <3>2. CASE e # Len(s)
      <4>1. e + 1 \in 1 .. Len(s) /\ at + (e + 1) = end + 1
        BY <1>12, <2>2, <3>2
      <4>2. QED
        BY <1>7, <2>1, <3>2, <4>1
    <3>3. QED
      BY <3>1, <3>2
  <2>6. from = 1 \/ line[from - 1] \in Blanks
    <3>1. CASE b = 1
      <4>1. at # Len(line) /\ from - 1 = at /\ (at = 0 => from = 1)
        BY <1>4, <1>5, <1>7, <2>1, <2>2, <3>1
      <4>2. QED
        BY <1>4, <4>1
    <3>2. CASE b # 1
      <4>1. from - 1 \in at + 1 .. from - 1
        BY <1>4, <1>5, <1>7, <2>1, <2>2, <3>2
      <4>2. QED
        BY <2>4, <4>1
    <3>3. QED
      BY <3>1, <3>2
  <2>7. from \in Begins(line) /\ WordOf(line)[from] = SubSeq(line, from, end)
    <3>1. end \in from .. Len(line)
      BY <1>5, <2>2
    <3>2. Word(line, from, end)
      BY <2>3, <2>5, <2>6 DEF Word
    <3>3. QED
      BY <3>1, <3>2, WordIs
  <2>8. /\ n + 1 \in 1 .. Len(ix) /\ ix[n + 1] = from /\ m = n
    <3>1. PICK j \in 1 .. Len(ix) : ix[j] = from
      BY <2>7 DEF Positions
    <3>2. ~(from <= at)
      BY <1>4, <1>5, <1>7, <2>1, <2>2
    <3>3. ~(j <= m)
      BY <1>4, <3>1, <3>2
    <3>4. m = n /\ n + 1 \in 1 .. Len(ix) /\ n + 1 <= j
      BY <1>1, <1>5, <3>1, <3>3
    <3>5. n + 1 = j
      <4>1. SUFFICES ASSUME n + 1 # j PROVE FALSE
        OBVIOUS
      <4>2. n + 1 < j
        BY <3>4, <4>1
      <4>3. PICK k \in 1 .. Len(line) : k = ix[n + 1]
        BY <1>6, <3>4
      <4>4. k < from
        BY <1>5, <3>1, <3>4, <4>2, <4>3
      <4>5. ~(k <= at)
        <5>1. ~(n + 1 <= m)
          BY <3>4
        <5>2. QED
          BY <1>4, <3>4, <4>3, <5>1
      <4>6. line[k] \notin Blanks
        BY <1>6, <3>4, <4>3, BeginsFacts
      <4>7. k \in at + 1 .. from - 1
        BY <1>4, <1>5, <2>2, <4>4, <4>5
      <4>8. QED
        BY <2>4, <4>6, <4>7
    <3>6. QED
      BY <3>1, <3>4, <3>5
  <2>9. PICK to \in 0 .. Len(line) :
          to = (IF end = Len(line) THEN end ELSE end + 1)
    <3>1. (IF end = Len(line) THEN end ELSE end + 1) \in 0 .. Len(line)
      BY <1>5, <2>2
    <3>2. QED
      BY <3>1
  <2>10. to = Len(line) \/ line[to] \in Blanks
    BY <2>5, <2>9
  <2>11. SubSeq(s, b, e) = SubSeq(line, from, end) /\ SubSeq(s, b, e) # <<>>
    <3>1. b \in Nat \ {0} /\ e \in Int /\ e <= Len(s)
      BY <1>12
    <3>2. SubSeq(s, b, e) = SubSeq(line, at + b, at + e)
      BY <1>2, <1>4, <3>1, PartOfRest
    <3>3. SubSeq(s, b, e) = SubSeq(line, from, end)
      BY <2>2, <3>2
    <3>4. \A i \in b .. e : s[i] \in STRING
      <4>1. ASSUME NEW i \in b .. e PROVE s[i] \in STRING
        <5>1. i \in 1 .. Len(s)
          BY <1>7, <3>1
        <5>2. QED
          BY <1>7, <5>1, ElementOfSeq
      <4>2. QED
        BY <4>1
    <3>5. Len(SubSeq(s, b, e)) = e - b + 1
      BY <2>1, <3>1, <3>4, SubSeqProperties
    <3>6. e - b + 1 # 0 /\ Len(<<>>) = 0
      BY <2>1, <3>1
    <3>7. QED
      BY <3>3, <3>5, <3>6
  <2>12. SubSeq(s, e + 2, Len(s)) = SubSeq(line, to + 1, Len(line))
    <3>1. e + 2 \in Nat \ {0} /\ Len(s) \in Int /\ Len(s) <= Len(s) /\ at + Len(s) = Len(line)
      BY <1>12
    <3>2. SubSeq(s, e + 2, Len(s)) = SubSeq(line, at + (e + 2), Len(line))
      BY <1>2, <1>4, <3>1, PartOfRest
    <3>3. at + (e + 2) = end + 2
      BY <1>12, <2>2
    <3>4. CASE end = Len(line)
      <4>1. Len(line) < end + 2 /\ Len(line) < to + 1 /\ end + 2 \in Int /\ to + 1 \in Int
        BY <1>5, <2>9, <3>4
      <4>2. SubSeq(line, end + 2, Len(line)) = <<>> /\ SubSeq(line, to + 1, Len(line)) = <<>>
        BY <1>5, <4>1, SubSeqEmpty
      <4>3. QED
        BY <3>2, <3>3, <4>2
    <3>5. CASE end # Len(line)
      <4>1. end + 2 = to + 1
        BY <1>12, <2>9, <3>5
      <4>2. QED
        BY <3>2, <3>3, <4>1
    <3>6. QED
      BY <3>4, <3>5
  <2>13. Taken(line)[n + 1] = [argv |-> Append(words, SubSeq(line, from, end)),
                               rest |-> SubSeq(line, to + 1, Len(line))]
    <3>1. PICK t : t = Strtok(s, Blanks)
      OBVIOUS
    <3>2. t.token = SubSeq(line, from, end) /\ t.token # <<>> /\ t.rest = SubSeq(line, to + 1, Len(line))
      <4>1. t = [token |-> SubSeq(s, b, e), rest |-> SubSeq(s, e + 2, Len(s))]
        BY <2>1, <3>1
      <4>2. t.token = SubSeq(s, b, e) /\ t.rest = SubSeq(s, e + 2, Len(s))
        BY <4>1
      <4>3. QED
        BY <2>11, <2>12, <4>2
    <3>3. Take([argv |-> words, rest |-> s]) = [argv |-> Append(words, t.token), rest |-> t.rest]
      BY <3>1, <3>2 DEF Take
    <3>4. QED
      BY <1>8, <3>2, <3>3
  <2>14. Append(words, SubSeq(line, from, end)) = [i \in 1 .. n + 1 |-> WordOf(line)[ix[i]]]
    <3>1. words = [i \in 1 .. n |-> WordOf(line)[ix[i]]]
      BY <1>3, <2>8
    <3>2. WordOf(line)[ix[n + 1]] = SubSeq(line, from, end)
      BY <2>7, <2>8
    <3>3. QED
      BY <3>1, <3>2
  <2>15. \A i \in 1 .. Len(ix) : ix[i] <= to <=> i <= n + 1
    <3>1. ASSUME NEW i \in 1 .. Len(ix) PROVE ix[i] <= to <=> i <= n + 1
      <4>1. PICK k \in 1 .. Len(line) : k = ix[i]
        BY <1>6
      <4>2. line[k] \notin Blanks /\ (k = 1 \/ line[k - 1] \in Blanks)
        BY <1>6, <4>1, BeginsFacts
      <4>3. end <= to
        BY <1>5, <2>2, <2>9
      <4>4. CASE i <= n + 1
        <5>1. k <= from
          BY <1>5, <2>2, <2>8, <3>1, <4>1, <4>4
        <5>2. QED
          BY <2>2, <2>9, <4>1, <4>3, <4>4, <5>1
      <4>5. CASE ~(i <= n + 1)
        <5>1. from < k
          BY <1>5, <2>8, <3>1, <4>1, <4>5
        <5>2. ~(k <= end)
          <6>1. SUFFICES ASSUME k <= end PROVE FALSE
            OBVIOUS
          <6>2. k - 1 \in from .. end /\ k # 1
            BY <2>2, <5>1, <6>1
          <6>3. QED
            BY <2>3, <4>2, <6>2
        <5>3. end # Len(line) /\ to = end + 1
          BY <1>5, <2>9, <5>2
        <5>4. k # end + 1
          BY <2>5, <4>2, <5>3
        <5>5. ~(k <= to)
          BY <2>2, <5>2, <5>3, <5>4
        <5>6. QED
          BY <4>1, <4>5, <5>5
      <4>6. QED
        BY <4>4, <4>5
    <3>2. QED
      BY <3>1
  <2>16. (IF n + 1 < Len(ix) THEN n + 1 ELSE Len(ix)) = n + 1
    BY <1>5, <2>8
  <2>17. Reached(line, ix, n + 1, to)
    BY <2>10, <2>13, <2>14, <2>15, <2>16 DEF Reached
  <2>18. QED
    BY <2>17
<1>11. QED
  <2>1. NoToken(s, Blanks) \/ \E b, e \in 1 .. Len(s) : OneToken(s, Blanks, b, e)
    BY <1>7, StrtokFacts
  <2>2. QED
    BY <1>9, <1>10, <2>1

LEMMA ArgvIs ==
  ASSUME NEW line \in Seq(STRING)
  PROVE  Argv(line) = UpTo(MaxArgs, TheWords(line))
<1>1. PICK ix : Rising(ix) /\ Positions(ix) = Begins(line)
  <2>1. Len(line) \in Nat
    BY LenProperties
  <2>2. QED
    BY <2>1, BeginsFacts, Ordered
<1>2. Len(ix) \in Nat
  BY <1>1, LenProperties DEF Rising
<1> DEFINE P == { n \in Nat : n <= MaxArgs => \E at : Reached(line, ix, n, at) }
<1>3. 0 \in P
  BY <1>1, ReachedStart
<1>4. ASSUME NEW n \in P PROVE n + 1 \in P
  <2>1. SUFFICES ASSUME n + 1 <= MaxArgs PROVE \E at : Reached(line, ix, n + 1, at)
    OBVIOUS
  <2>2. n \in Nat /\ n < MaxArgs /\ n <= MaxArgs
    BY <2>1, ArgsNat
  <2>3. PICK at : Reached(line, ix, n, at)
    BY <2>2
  <2>4. QED
    BY <1>1, <2>2, <2>3, ReachedNext
<1>5. P \in SUBSET Nat
  OBVIOUS
<1> HIDE DEF P
<1>6. MaxArgs \in P
  BY <1>3, <1>4, <1>5, ArgsNat, NatInd
<1>7. PICK at : Reached(line, ix, MaxArgs, at)
  BY <1>6, ArgsNat DEF P
<1>8. PICK m : m = IF MaxArgs < Len(ix) THEN MaxArgs ELSE Len(ix)
  OBVIOUS
<1>9. m \in Nat /\ m <= Len(ix)
  BY <1>2, <1>8, ArgsNat
<1> DEFINE word(i) == WordOf(line)[ix[i]]
<1>10. Argv(line) = [i \in 1 .. m |-> word(i)]
  BY <1>7, <1>8 DEF Reached, Argv
<1>11. TheWords(line) = [i \in 1 .. Len(ix) |-> word(i)]
  BY <1>1, WordsInOrder, Ranked
<1> DEFINE all == [i \in 1 .. Len(ix) |-> word(i)]
<1>12. PICK C : C = { all[i] : i \in 1 .. Len(ix) }
  OBVIOUS
<1> HIDE DEF word
<1>13. /\ all \in Seq(C) /\ Len(all) = Len(ix)
       /\ \A i \in 1 .. Len(ix) : all[i] = word(i) /\ all[i] \in C
  BY <1>2, <1>12
<1> HIDE DEF all
<1>14. UpTo(MaxArgs, all) = SubSeq(all, 1, m)
  BY <1>8, <1>13 DEF UpTo
<1>15. \A i \in 1 .. m : all[i] \in C /\ all[i] = word(i)
  BY <1>2, <1>9, <1>13
<1>16. /\ SubSeq(all, 1, m) \in Seq(C)
       /\ Len(SubSeq(all, 1, m)) = (IF 1 <= m THEN m - 1 + 1 ELSE 0)
       /\ \A i \in 1 .. m - 1 + 1 : SubSeq(all, 1, m)[i] = all[1 + i - 1]
  BY <1>9, <1>15, SubSeqProperties
<1>17. PICK u : u = SubSeq(all, 1, m)
  OBVIOUS
<1>18. u \in Seq(C) /\ Len(u) = m /\ \A i \in 1 .. m : u[i] = all[i]
  BY <1>9, <1>16, <1>17
<1>19. u = [i \in 1 .. m |-> word(i)]
  BY <1>9, <1>15, <1>18
<1>20. all = TheWords(line)
  BY <1>11 DEF all
<1>21. QED
  BY <1>10, <1>14, <1>17, <1>19, <1>20

LEMMA UserKept == LSpec => [](session \in DOMAIN Sessions)
<1>1. LInit => session \in DOMAIN Sessions
  BY DEF LInit
<1>2. session \in DOMAIN Sessions /\ [LNext]_lvars => (session \in DOMAIN Sessions)'
  BY DEF LNext, EnterLine, ProcessCommand, Reboot, lvars
<1>3. QED
  BY <1>1, <1>2, PTL DEF LSpec

(* argv is the words of the line, the first SHELL_MAX_ARGS of them,        *)
(* whatever blanks there are (WordsExact).                                 *)
THEOREM WordsFound == LSpec => []WordsExact
<1>1. ASSUME RingInv, session \in DOMAIN Sessions PROVE WordsExact
  <2>1. SUFFICES ASSUME Entered PROVE Argv(log[Len(log)]) = Words
    BY DEF WordsExact
  <2>2. log \in Seq(Lines) /\ Len(log) \in 1 .. Len(log)
    BY <1>1, <2>1, EmptySeq, LenProperties DEF RingInv, Entered
  <2>3. log[Len(log)] \in Lines
    BY <2>2, ElementOfSeq
  <2>4. session \in DOMAIN Sessions
    BY <1>1
  <2>5. log[Len(log)] \in Seq(STRING)
    BY <2>3, <2>4, CommandLineAssumption DEF Lines
  <2>6. QED
    BY <2>5, ArgvIs DEF Words
<1>2. QED
  BY <1>1, RingKept, UserKept, PTL

LEMMA ArgvType ==
  ASSUME NEW C, NEW line \in Seq(C)
  PROVE  Argv(line) \in Seq(Seq(C))
<1> DEFINE Typ(st) == st.argv \in Seq(Seq(C)) /\ st.rest \in Seq(C)
<1> DEFINE P == { n \in Nat : n <= MaxArgs => Typ(Taken(line)[n]) }
<1>1. 0 \in P
  <2>1. PICK none : none = <<>>
    OBVIOUS
  <2>2. Taken(line)[0] = [argv |-> none, rest |-> line]
    BY <2>1, TakenDef
  <2>3. none \in Seq(Seq(C))
    BY <2>1
  <2>4. Typ(Taken(line)[0])
    BY <2>2, <2>3
  <2>5. QED
    BY <2>4
<1>2. ASSUME NEW n \in P PROVE n + 1 \in P
  <2>1. SUFFICES ASSUME n + 1 <= MaxArgs PROVE Typ(Taken(line)[n + 1])
    OBVIOUS
  <2>2. n \in Nat /\ n + 1 \in 1 .. MaxArgs /\ (n + 1) - 1 = n /\ n <= MaxArgs
    BY <2>1, ArgsNat
  <2>3. PICK st : st = Taken(line)[n]
    OBVIOUS
  <2>4. Taken(line)[n + 1] = Take(st) /\ Typ(st)
    <3>1. \A k \in 1 .. MaxArgs : Taken(line)[k] = Take(Taken(line)[k - 1])
      BY TakenDef, Zenon
    <3>2. Taken(line)[n + 1] = Take(st)
      BY <2>2, <2>3, <3>1
    <3>3. Typ(st)
      BY <2>2, <2>3
    <3>4. QED
      BY <3>2, <3>3, Zenon
  <2>5. PICK t : t = Strtok(st.rest, Blanks)
    OBVIOUS
  <2>6. t.token \in Seq(C) /\ t.rest \in Seq(C)
    BY <2>4, <2>5, StrtokType
  <2>7. Take(st) = IF t.token = <<>> THEN st ELSE [argv |-> Append(st.argv, t.token), rest |-> t.rest]
    BY <2>5 DEF Take
  <2>8. Typ(Take(st))
    <3>1. CASE t.token = <<>>
      BY <2>4, <2>7, <3>1
    <3>2. CASE t.token # <<>>
      <4>1. PICK u, r : u = Append(st.argv, t.token) /\ r = t.rest
        OBVIOUS
      <4>2. u \in Seq(Seq(C)) /\ r \in Seq(C)
        BY <2>4, <2>6, <4>1, AppendProperties
      <4>3. Take(st) = [argv |-> u, rest |-> r]
        BY <2>7, <3>2, <4>1
      <4>4. QED
        BY <4>2, <4>3
    <3>3. QED
      BY <3>1, <3>2
  <2>9. QED
    BY <2>4, <2>8
<1>3. P \in SUBSET Nat
  OBVIOUS
<1> HIDE DEF P
<1>4. MaxArgs \in P
  BY <1>1, <1>2, <1>3, ArgsNat, NatInd
<1>5. QED
  BY <1>4, ArgsNat DEF P, Argv

(* Texts one after the other.                                              *)
Flat(f, s) ==
  /\ f[1] = s[1]
  /\ \A k \in 2 .. Len(s) : f[k] = f[k - 1] \o s[k]
  /\ Texts!FlattenSeq(s) = f[Len(s)]

LEMMA FlatDef ==
  ASSUME NEW s, Len(s) \in Nat \ {0}
  PROVE  \E f : Flat(f, s)
<1>1. PICK n \in Nat \ {0} : n = Len(s)
  OBVIOUS
<1> DEFINE Body(f, k) == IF k = 1 THEN s[k] ELSE f[k - 1] \o s[k]
<1> DEFINE P == { m \in Nat : \E f : f = [k \in 1 .. m |-> Body(f, k)] }
<1>2. 0 \in P
  <2> DEFINE f == [k \in 1 .. 0 |-> s]
  <2>1. f = [k \in 1 .. 0 |-> Body(f, k)]
    OBVIOUS
  <2>2. QED
    BY <2>1
<1>3. ASSUME NEW m \in P PROVE m + 1 \in P
  <2>1. m \in Nat
    OBVIOUS
  <2>2. PICK f : f = [k \in 1 .. m |-> Body(f, k)]
    OBVIOUS
  <2>3. \A k \in 1 .. m : f[k] = Body(f, k)
    BY <2>2
  <2> DEFINE g == [k \in 1 .. m + 1 |-> IF k = m + 1 THEN Body(f, m + 1) ELSE f[k]]
  <2>4. ASSUME NEW k \in 1 .. m + 1 PROVE g[k] = Body(g, k)
    <3>1. CASE k = 1 /\ m = 0
      <4>1. k = m + 1 /\ m + 1 = 1
        BY <3>1
      <4>2. QED
        BY <3>1, <4>1
    <3>2. CASE k = 1 /\ m # 0
      BY <2>1, <2>3, <3>2
    <3>3. CASE k # 1 /\ k = m + 1
      <4>1. g[k - 1] = f[m] /\ (m + 1) - 1 = m
        BY <2>1, <3>3
      <4>2. QED
        BY <3>3, <4>1
    <3>4. CASE k # m + 1 /\ k # 1
      <4>1. g[k] = f[k] /\ g[k - 1] = f[k - 1] /\ k \in 1 .. m
        BY <2>1, <3>4
      <4>2. QED
        BY <2>3, <3>4, <4>1
    <3>5. QED
      BY <3>1, <3>2, <3>3, <3>4
  <2>5. g = [k \in 1 .. m + 1 |-> g[k]]
    OBVIOUS
  <2> HIDE DEF g, Body
  <2>6. g = [k \in 1 .. m + 1 |-> Body(g, k)]
    BY <2>4, <2>5
  <2>7. \E h : h = [k \in 1 .. m + 1 |-> Body(h, k)]
    BY <2>6, Zenon
  <2>8. m + 1 \in Nat
    BY <2>1
  <2>9. QED
    BY <2>7, <2>8, Zenon
<1>4. P \in SUBSET Nat
  OBVIOUS
<1> HIDE DEF P
<1>5. n \in P
  BY <1>2, <1>3, <1>4, NatInd
<1>6. \E f : f = [k \in 1 .. n |-> Body(f, k)]
  BY <1>5 DEF P
<1> DEFINE F == CHOOSE f : f = [k \in 1 .. n |-> Body(f, k)]
<1>7. F = [k \in 1 .. n |-> Body(F, k)]
  BY <1>6, Zenon
<1>8. Texts!FlattenSeq(s) = F[n]
  BY <1>1 DEF Texts!FlattenSeq
<1> HIDE DEF F
<1>9. F[1] = s[1] /\ \A k \in 2 .. n : F[k] = F[k - 1] \o s[k]
  <2>1. ASSUME NEW k \in 1 .. n PROVE F[k] = Body(F, k)
    BY <1>7, Zenon
  <2>2. 1 \in 1 .. n /\ \A k \in 2 .. n : k \in 1 .. n /\ k # 1
    OBVIOUS
  <2>3. QED
    BY <2>1, <2>2, Zenon
<1>10. QED
  BY <1>1, <1>8, <1>9 DEF Flat

Regrouped(a, b, c) == (a \o b) \o c = a \o (b \o c)

LEMMA Regroup ==
  ASSUME NEW S, NEW a \in Seq(S), NEW b \in Seq(S), NEW c \in Seq(S)
  PROVE  Regrouped(a, b, c)
<1>1. (a \o b) \o c = a \o (b \o c)
  BY ConcatAssociative
<1>2. QED
  BY <1>1 DEF Regrouped

(* Of the texts of q, two at a time are one of p.                          *)
Pairs(C, m, u, v, p, q) ==
  /\ u \in [1 .. m -> Seq(C)] /\ v \in [1 .. m -> Seq(C)]
  /\ Len(p) = m /\ \A i \in 1 .. m : p[i] = u[i] \o v[i]
  /\ Len(q) = 2 * m /\ \A i \in 1 .. m : q[2 * i - 1] = u[i] /\ q[2 * i] = v[i]

LEMMA FlatPairs ==
  ASSUME NEW C, NEW m \in Nat \ {0}, NEW u, NEW v, NEW p, NEW q, Pairs(C, m, u, v, p, q)
  PROVE  Texts!FlattenSeq(p) = Texts!FlattenSeq(q)
<1>0. /\ u \in [1 .. m -> Seq(C)] /\ v \in [1 .. m -> Seq(C)]
      /\ Len(p) = m /\ \A i \in 1 .. m : p[i] = u[i] \o v[i]
      /\ Len(q) = 2 * m /\ \A i \in 1 .. m : q[2 * i - 1] = u[i] /\ q[2 * i] = v[i]
  BY DEF Pairs
<1>1. Len(p) \in Nat \ {0} /\ Len(q) \in Nat \ {0}
  BY <1>0
<1>2. PICK f : Flat(f, p)
  BY <1>1, FlatDef
<1>3. PICK g : Flat(g, q)
  BY <1>1, FlatDef
<1>4. /\ f[1] = p[1] /\ \A k \in 2 .. m : f[k] = f[k - 1] \o p[k]
      /\ Texts!FlattenSeq(p) = f[m]
      /\ g[1] = q[1] /\ \A k \in 2 .. 2 * m : g[k] = g[k - 1] \o q[k]
      /\ Texts!FlattenSeq(q) = g[2 * m]
  BY <1>0, <1>2, <1>3 DEF Flat
<1> DEFINE P == { j \in Nat : j + 1 <= m => f[j + 1] \in Seq(C) /\ f[j + 1] = g[2 * (j + 1)] }
<1>5. 0 \in P
  <2>1. 1 \in 1 .. m /\ 2 \in 2 .. 2 * m /\ 2 - 1 = 1 /\ 2 * 1 - 1 = 1 /\ 2 * 1 = 2 /\ 0 + 1 = 1
    OBVIOUS
  <2>2. f[1] = u[1] \o v[1] /\ g[1] = u[1] /\ q[2] = v[1]
    BY <1>0, <1>4, <2>1
  <2>3. g[2] = g[1] \o q[2]
    BY <1>0, <1>4, <2>1
  <2>4. f[1] = g[2]
    BY <2>2, <2>3
  <2>5. u[1] \in Seq(C) /\ v[1] \in Seq(C)
    BY <1>0, <2>1
  <2>6. f[1] \in Seq(C)
    BY <2>2, <2>5, ConcatProperties
  <2>7. QED
    BY <2>1, <2>4, <2>6
<1>6. ASSUME NEW j \in P PROVE j + 1 \in P
  <2>1. j \in Nat
    OBVIOUS
  <2>2. SUFFICES ASSUME (j + 1) + 1 <= m
                 PROVE  f[(j + 1) + 1] \in Seq(C) /\ f[(j + 1) + 1] = g[2 * ((j + 1) + 1)]
    BY <2>1
  <2>3. PICK k \in Nat : k = j + 2
    BY <2>1
  <2>4. /\ k \in 2 .. m /\ k \in 1 .. m /\ k - 1 = j + 1 /\ (j + 1) + 1 = k
        /\ 2 * k \in 2 .. 2 * m /\ 2 * k - 1 \in 2 .. 2 * m
        /\ (2 * k - 1) - 1 = 2 * (k - 1)
    <3>1. k >= 2 /\ k <= m /\ m \in Nat
      BY <2>1, <2>2, <2>3
    <3>2. /\ k \in 2 .. m /\ k \in 1 .. m /\ 2 * k \in 2 .. 2 * m
      BY <3>1
    <3>3. 2 * k - 1 \in 2 .. 2 * m
      BY <3>1
    <3>4. k - 1 = j + 1 /\ (j + 1) + 1 = k /\ (2 * k - 1) - 1 = 2 * (k - 1)
      BY <2>1, <2>3
    <3>5. QED
      BY <3>2, <3>3, <3>4
  <2>5. f[k - 1] \in Seq(C) /\ f[k - 1] = g[2 * (k - 1)]
    <3>1. j + 1 <= m => f[j + 1] \in Seq(C) /\ f[j + 1] = g[2 * (j + 1)]
      OBVIOUS
    <3>2. j + 1 <= m
      BY <2>1, <2>2
    <3>3. QED
      BY <2>4, <3>1, <3>2, Zenon
  <2>6. f[k] = f[k - 1] \o (u[k] \o v[k])
    <3>1. f[k] = f[k - 1] \o p[k]
      BY <1>4, <2>4, Zenon
    <3>2. p[k] = u[k] \o v[k]
      BY <1>0, <2>4, Zenon
    <3>3. QED
      BY <3>1, <3>2, Zenon
  <2>7. g[2 * k - 1] = g[(2 * k - 1) - 1] \o u[k] /\ g[2 * k] = g[2 * k - 1] \o v[k]
    <3>1. g[2 * k - 1] = g[(2 * k - 1) - 1] \o q[2 * k - 1] /\ g[2 * k] = g[2 * k - 1] \o q[2 * k]
      BY <1>4, <2>4, Zenon
    <3>2. q[2 * k - 1] = u[k] /\ q[2 * k] = v[k]
      BY <1>0, <2>4, Zenon
    <3>3. QED
      BY <3>1, <3>2, Zenon
  <2>8. g[2 * k] = (f[k - 1] \o u[k]) \o v[k]
    BY <2>4, <2>5, <2>7
  <2>9. u[k] \in Seq(C) /\ v[k] \in Seq(C)
    BY <1>0, <2>4
  <2>10. (f[k - 1] \o u[k]) \o v[k] = f[k - 1] \o (u[k] \o v[k])
    <3>1. PICK a, b, c : a = f[k - 1] /\ b = u[k] /\ c = v[k]
      OBVIOUS
    <3>2. a \in Seq(C) /\ b \in Seq(C) /\ c \in Seq(C)
      BY <2>5, <2>9, <3>1
    <3>3. Regrouped(a, b, c)
      BY <3>2, Regroup
    <3>4. QED
      BY <3>1, <3>3 DEF Regrouped
  <2>11. f[k] \in Seq(C)
    BY <2>5, <2>6, <2>9, ConcatProperties
  <2>12. QED
    BY <2>4, <2>6, <2>8, <2>10, <2>11
<1>7. P \in SUBSET Nat
  OBVIOUS
<1> HIDE DEF P
<1>8. m - 1 \in P /\ (m - 1) + 1 = m
  <2>1. P = Nat
    BY <1>5, <1>6, <1>7, NatInd
  <2>2. QED
    BY <2>1
<1>9. f[m] = g[2 * m]
  BY <1>8 DEF P
<1>10. QED
  BY <1>4, <1>9

(* Where the sequence of texts is empty, so is the text.                   *)
LEMMA FlatNone ==
  ASSUME NEW s, Len(s) = 0
  PROVE  Texts!FlattenSeq(s) = s
  BY DEF Texts!FlattenSeq

LEMMA UpToType ==
  ASSUME NEW C, NEW w \in Seq(C), NEW n \in Nat
  PROVE  UpTo(n, w) \in Seq(C) /\ Len(UpTo(n, w)) = IF n < Len(w) THEN n ELSE Len(w)
<1>1. PICK m \in Nat : m = IF n < Len(w) THEN n ELSE Len(w)
  BY LenProperties
<1>2. Len(w) \in Nat /\ m <= Len(w)
  BY <1>1, LenProperties
<1>3. 1 \in Int /\ m \in Int /\ \A i \in 1 .. m : w[i] \in C
  BY <1>2, ElementOfSeq
<1>4. PICK v : v = SubSeq(w, 1, m)
  OBVIOUS
<1>5. v \in Seq(C) /\ Len(v) = IF 1 <= m THEN m - 1 + 1 ELSE 0
  BY <1>3, <1>4, SubSeqProperties
<1>6. Len(v) = m
  BY <1>5
<1>7. UpTo(n, w) = v
  BY <1>1, <1>4 DEF UpTo
<1>8. QED
  BY <1>1, <1>5, <1>6, <1>7

(* The answer is that to the last line.                                    *)
Answered == Entered => out = Answer(Argv(log[Len(log)]), history, count)

LEMMA AnswerKept == LSpec => []Answered
<1>1. LInit => Answered
  BY DEF LInit, Booted, Answered, Entered
<1>2. ASSUME RingInv, Answered, [LNext]_lvars PROVE Answered'
  <2>1. CASE Reboot
    BY <2>1 DEF Reboot, Answered, Entered
  <2>2. CASE \E line \in Lines : ProcessCommand(line)
    <3>1. PICK line \in Lines : ProcessCommand(line)
      BY <2>2
    <3>2. out' = Answer(Argv(line), history', count') /\ log' = Append(log, line)
      BY <3>1 DEF ProcessCommand
    <3>3. log \in Seq(Lines)
      BY <1>2 DEF RingInv
    <3>4. log'[Len(log')] = line
      BY <3>2, <3>3, AppendProperties
    <3>5. QED
      BY <3>2, <3>4 DEF Answered
  <2>3. CASE UNCHANGED lvars
    BY <1>2, <2>3 DEF lvars, Answered, Entered
  <2>4. Reboot \/ (\E line \in Lines : ProcessCommand(line)) \/ UNCHANGED lvars
    BY <1>2 DEF LNext, EnterLine, Lines
  <2>5. QED
    BY <2>1, <2>2, <2>3, <2>4
<1>3. QED
  BY <1>1, <1>2, RingKept, PTL DEF LSpec

(* What echo prints of the words that WordsExact speaks of.                *)
LEMMA EchoIs ==
  ASSUME NEW C, NEW argv \in Seq(Seq(C)), argv # <<>>
  PROVE  LET shown == [i \in 1 .. 2 * (Len(argv) - 1) |->
                         IF i % 2 = 1 THEN UpTo(Limit, argv[i \div 2 + 2])
                         ELSE IF i < 2 * (Len(argv) - 1) THEN <<" ">> ELSE <<>>]
         IN  EchoAnswer(argv) = Texts!FlattenSeq(shown) \o <<"NL">>
<1> DEFINE D == C \cup {" "}
<1>1. PICK m \in Nat : m = Len(argv) - 1
  <2>1. PICK n \in Nat \ {0} : n = Len(argv)
    BY EmptySeq
  <2>2. n - 1 \in Nat /\ n - 1 = Len(argv) - 1
    BY <2>1
  <2>3. QED
    BY <2>2
<1> DEFINE u == [i \in 1 .. m |-> UpTo(Limit, argv[i + 1])]
<1> DEFINE v == [i \in 1 .. m |-> IF i < m THEN <<" ">> ELSE <<>>]
<1> DEFINE p == [i \in 1 .. Len(argv) - 1 |->
                   Printf(<<"%", "s">>, <<String(argv[i + 1])>>)
                     \o (IF i < Len(argv) - 1 THEN <<" ">> ELSE <<>>)]
<1> DEFINE q == [i \in 1 .. 2 * (Len(argv) - 1) |->
                   IF i % 2 = 1 THEN UpTo(Limit, argv[i \div 2 + 2])
                   ELSE IF i < 2 * (Len(argv) - 1) THEN <<" ">> ELSE <<>>]
<1>2. EchoAnswer(argv) = Texts!FlattenSeq(p) \o <<"NL">>
  BY DEF EchoAnswer
<1>3. Limit \in Nat
  BY LimitNat
<1>4. \A i \in 1 .. m : argv[i + 1] \in Seq(C) /\ UpTo(Limit, argv[i + 1]) \in Seq(C)
  <2>1. ASSUME NEW i \in 1 .. m PROVE argv[i + 1] \in Seq(C) /\ UpTo(Limit, argv[i + 1]) \in Seq(C)
    <3>1. PICK j \in 1 .. Len(argv) : j = i + 1
      BY <1>1
    <3>2. argv[j] \in Seq(C)
      BY ElementOfSeq
    <3>3. QED
      BY <1>3, <3>1, <3>2, UpToType
  <2>2. QED
    BY <2>1
<1>5. u \in [1 .. m -> Seq(D)] /\ v \in [1 .. m -> Seq(D)]
  <2>1. \A i \in 1 .. m : UpTo(Limit, argv[i + 1]) \in Seq(D)
    <3>1. C \subseteq D
      OBVIOUS
    <3>2. Seq(C) \subseteq Seq(D)
      BY <3>1, SeqMonotonic
    <3>3. QED
      BY <1>4, <3>2
  <2>2. <<" ">> \in Seq(D) /\ <<>> \in Seq(D)
    BY Single
  <2>3. \A i \in 1 .. m : (IF i < m THEN <<" ">> ELSE <<>>) \in Seq(D)
    BY <2>2
  <2>4. u \in [1 .. m -> Seq(D)]
    BY <2>1
  <2>5. v \in [1 .. m -> Seq(D)]
    BY <2>3
  <2>6. QED
    BY <2>4, <2>5
<1>6. Len(p) = m /\ \A i \in 1 .. m : p[i] = u[i] \o v[i]
  <2>1. \A i \in 1 .. m : Printf(<<"%", "s">>, <<String(argv[i + 1])>>) = UpTo(Limit, argv[i + 1])
    BY <1>4, PrintfWord
  <2>2. p = [i \in 1 .. m |-> u[i] \o v[i]]
    BY <1>1, <2>1
  <2> HIDE DEF p, u, v
  <2>3. \A i \in 1 .. m : p[i] = u[i] \o v[i]
    BY <2>2
  <2>4. DOMAIN p = 1 .. m /\ Len(p) = m
    BY <2>2
  <2>5. QED
    BY <2>3, <2>4
<1>7. Len(q) = 2 * m /\ \A i \in 1 .. m : q[2 * i - 1] = u[i] /\ q[2 * i] = v[i]
  <2>1. Len(q) = 2 * m
    BY <1>1
  <2>2. ASSUME NEW i \in 1 .. m PROVE q[2 * i - 1] = u[i] /\ q[2 * i] = v[i]
    <3>1. PICK a, b : a = 2 * i - 1 /\ b = 2 * i
      OBVIOUS
    <3>2. /\ a \in 1 .. 2 * m /\ b \in 1 .. 2 * m
          /\ a % 2 = 1 /\ b % 2 # 1 /\ a \div 2 + 2 = i + 1
          /\ b < 2 * m <=> i < m
      BY <3>1
    <3>3. q[a] = UpTo(Limit, argv[a \div 2 + 2])
      BY <1>1, <3>2
    <3>4. q[b] = IF b < 2 * m THEN <<" ">> ELSE <<>>
      BY <1>1, <3>2
    <3>5. q[a] = u[i]
      BY <3>2, <3>3
    <3>6. q[b] = v[i]
      BY <3>2, <3>4
    <3>7. QED
      BY <3>1, <3>5, <3>6
  <2>3. QED
    BY <2>1, <2>2
<1> HIDE DEF D, u, v, p, q
<1>8. Texts!FlattenSeq(p) = Texts!FlattenSeq(q)
  <2>1. CASE m = 0
    <3>1. Len(p) = 0 /\ Len(q) = 0
      BY <1>6, <1>7, <2>1
    <3>2. p = q
      <4>1. 1 .. Len(argv) - 1 = {} /\ 1 .. 2 * (Len(argv) - 1) = {}
        <5>1. PICK a, b : a = Len(argv) - 1 /\ b = 2 * (Len(argv) - 1)
          OBVIOUS
        <5>2. a = 0 /\ b = 0
          BY <1>1, <2>1, <5>1
        <5>3. 1 .. a = {} /\ 1 .. b = {}
          BY <5>2
        <5>4. QED
          BY <5>1, <5>3
      <4>2. DOMAIN p = {} /\ DOMAIN q = {}
        BY <4>1 DEF p, q
      <4>3. p = [i \in DOMAIN p |-> p[i]] /\ q = [i \in DOMAIN q |-> q[i]]
        BY DEF p, q
      <4>4. QED
        BY <4>2, <4>3
    <3>3. QED
      BY <3>2
  <2>2. CASE m # 0
    <3>1. m \in Nat \ {0}
      BY <2>2
    <3>2. Pairs(D, m, u, v, p, q)
      BY <1>5, <1>6, <1>7 DEF Pairs
    <3>3. QED
      BY <3>1, <3>2, FlatPairs
  <2>3. QED
    BY <2>1, <2>2
<1>9. QED
  BY <1>2, <1>8 DEF q

(* The words of the last line.                                             *)
LEMMA LastWords ==
  ASSUME RingInv, session \in DOMAIN Sessions, WordsExact, Answered, Entered
  PROVE  /\ Words \in Seq(Seq(STRING))
         /\ Argv(log[Len(log)]) = Words
         /\ out = Answer(Words, history, count)
<1>1. log \in Seq(Lines) /\ Len(log) \in 1 .. Len(log)
  BY EmptySeq, LenProperties DEF RingInv, Entered
<1>2. log[Len(log)] \in Lines
  BY <1>1, ElementOfSeq
<1>3. PICK line : line = log[Len(log)]
  OBVIOUS
<1>4. line \in Seq(STRING)
  BY <1>2, <1>3, CommandLineAssumption DEF Lines
<1>5. Argv(line) = Words
  BY <1>3 DEF WordsExact
<1>6. Argv(line) \in Seq(Seq(STRING))
  BY <1>4, ArgvType
<1>7. QED
  BY <1>3, <1>5, <1>6 DEF Answered

(* Whatever is typed after it, echo prints it as it is (EchoExact).        *)
THEOREM Echoed == LSpec => []EchoExact
<1>1. ASSUME RingInv, session \in DOMAIN Sessions, WordsExact, Answered PROVE EchoExact
  <2>1. SUFFICES ASSUME Entered, Words # <<>>, Words[1] = <<"echo">>
                 PROVE  LET shown == [i \in 1 .. 2 * (Len(Words) - 1) |->
                                        IF i % 2 = 1 THEN UpTo(Limit, Words[i \div 2 + 2])
                                        ELSE IF i < 2 * (Len(Words) - 1) THEN <<" ">> ELSE <<>>]
                        IN  out = Texts!FlattenSeq(shown) \o <<"NL">>
    BY DEF EchoExact
  <2>2. PICK argv : argv = Words
    OBVIOUS
  <2>3. argv \in Seq(Seq(STRING)) /\ out = Answer(argv, history, count) /\ argv # <<>> /\ argv[1] = <<"echo">>
    BY <1>1, <2>1, <2>2, LastWords
  <2>4. <<"echo">> # <<"history">> /\ <<"echo">> # <<"calc">>
    OBVIOUS
  <2>5. Answer(argv, history, count) = EchoAnswer(argv)
    BY <2>3, <2>4 DEF Answer
  <2>6. QED
    BY <2>2, <2>3, <2>5, EchoIs
<1>2. QED
  BY <1>1, RingKept, UserKept, WordsFound, AnswerKept, PTL

-----------------------------------------------------------------------------
(* Powers, as a loop counts them.                                          *)
Powers(p, base, n) == p[0] = 1 /\ \A k \in 1 .. n : p[k] = base * p[k - 1]

LEMMA PowerLoop ==
  ASSUME NEW base \in Nat, NEW n \in Nat
  PROVE  \E p \in [0 .. n -> Nat] : Powers(p, base, n) /\ Power(base, n) = p[n]
<1> DEFINE turn == [k \in 1 .. n |-> [x \in Nat |-> base * x]]
<1> DEFINE S == Nat
<1>1. turn \in [1 .. n -> [S -> S]] /\ 1 \in S
  OBVIOUS
<1> HIDE DEF turn, S
<1>2. CanRun(S, 1, n, turn)
  BY <1>1, Runs
<1>3. PICK f \in [0 .. n -> S] : \A k \in 0 .. n : f[k] = IF k = 0 THEN 1 ELSE turn[k][f[k - 1]]
  BY <1>2 DEF CanRun
<1>4. \A k \in 0 .. n : f[k] = IF k = 0 THEN 1 ELSE base * f[k - 1]
  <2>1. ASSUME NEW k \in 0 .. n, k # 0 PROVE f[k] = base * f[k - 1]
    <3>1. k \in 1 .. n /\ k - 1 \in 0 .. n /\ f[k - 1] \in Nat
      BY <1>3, <2>1 DEF S
    <3>2. f[k] = turn[k][f[k - 1]]
      BY <1>3, <2>1
    <3>3. QED
      BY <3>1, <3>2 DEF turn
  <2>2. QED
    BY <1>3, <2>1
<1>5. f = [k \in 0 .. n |-> f[k]]
  BY <1>3
<1>6. f = [k \in 0 .. n |-> IF k = 0 THEN 1 ELSE base * f[k - 1]]
  BY <1>4, <1>5
<1>7. \E g : g = [k \in 0 .. n |-> IF k = 0 THEN 1 ELSE base * g[k - 1]]
  BY <1>6, Zenon
<1> DEFINE F == CHOOSE g : g = [k \in 0 .. n |-> IF k = 0 THEN 1 ELSE base * g[k - 1]]
<1>8. F = [k \in 0 .. n |-> IF k = 0 THEN 1 ELSE base * F[k - 1]]
  BY <1>7, Zenon
<1>9. Power(base, n) = F[n]
  BY DEF Power
<1> HIDE DEF F
<1>10. F[0] = 1 /\ \A k \in 1 .. n : F[k] = base * F[k - 1]
  <2>1. ASSUME NEW k \in 0 .. n PROVE F[k] = IF k = 0 THEN 1 ELSE base * F[k - 1]
    BY <1>8, Zenon
  <2>2. 0 \in 0 .. n /\ \A k \in 1 .. n : k \in 0 .. n /\ k # 0
    OBVIOUS
  <2>3. QED
    BY <2>1, <2>2, Zenon
<1> DEFINE P == { k \in Nat : k <= n => F[k] = f[k] }
<1>11. 0 \in P
  BY <1>4, <1>10
<1>12. ASSUME NEW k \in P PROVE k + 1 \in P
  <2>1. SUFFICES ASSUME k + 1 <= n PROVE F[k + 1] = f[k + 1]
    OBVIOUS
  <2>2. k + 1 \in 1 .. n /\ k + 1 \in 0 .. n /\ k + 1 # 0 /\ (k + 1) - 1 = k /\ F[k] = f[k]
    BY <2>1
  <2>3. F[k + 1] = base * F[k] /\ f[k + 1] = base * f[k]
    BY <1>4, <1>10, <2>2
  <2>4. QED
    BY <2>2, <2>3
<1>13. P \in SUBSET Nat
  OBVIOUS
<1> HIDE DEF P
<1>14. n \in P
  BY <1>11, <1>12, <1>13, NatInd
<1>15. F[n] = f[n]
  BY <1>14 DEF P
<1>16. f \in [0 .. n -> Nat]
  BY <1>3 DEF S
<1>17. Powers(f, base, n)
  <2>1. ASSUME NEW k \in 1 .. n PROVE f[k] = base * f[k - 1]
    BY <1>4
  <2>2. QED
    BY <1>4, <2>1 DEF Powers
<1>18. QED
  BY <1>9, <1>15, <1>16, <1>17

LEMMA PowerFacts ==
  ASSUME NEW base \in Nat, NEW n \in Nat
  PROVE  /\ Power(base, n) \in Nat
         /\ Power(base, 0) = 1
         /\ Power(base, n + 1) = base * Power(base, n)
<1>1. PICK p \in [0 .. n -> Nat] : Powers(p, base, n) /\ Power(base, n) = p[n]
  BY PowerLoop
<1>2. PICK q \in [0 .. n + 1 -> Nat] : Powers(q, base, n + 1) /\ Power(base, n + 1) = q[n + 1]
  <2>1. n + 1 \in Nat
    OBVIOUS
  <2>2. QED
    BY <2>1, PowerLoop
<1>3. Power(base, 0) = 1
  <2>1. PICK r \in [0 .. 0 -> Nat] : Powers(r, base, 0) /\ Power(base, 0) = r[0]
    BY PowerLoop
  <2>2. QED
    BY <2>1 DEF Powers
<1> DEFINE P == { k \in Nat : k <= n => p[k] = q[k] }
<1>4. 0 \in P
  BY <1>1, <1>2 DEF Powers
<1>5. ASSUME NEW k \in P PROVE k + 1 \in P
  <2>1. SUFFICES ASSUME k + 1 <= n PROVE p[k + 1] = q[k + 1]
    OBVIOUS
  <2>2. k + 1 \in 1 .. n /\ k + 1 \in 1 .. n + 1 /\ (k + 1) - 1 = k /\ p[k] = q[k]
    BY <2>1
  <2>3. p[k + 1] = base * p[k] /\ q[k + 1] = base * q[k]
    BY <1>1, <1>2, <2>2 DEF Powers
  <2>4. QED
    BY <2>2, <2>3
<1>6. P \in SUBSET Nat
  OBVIOUS
<1> HIDE DEF P
<1>7. n \in P
  BY <1>4, <1>5, <1>6, NatInd
<1>8. p[n] = q[n]
  BY <1>7 DEF P
<1>9. q[n + 1] = base * q[n]
  <2>1. n + 1 \in 1 .. n + 1 /\ (n + 1) - 1 = n
    OBVIOUS
  <2>2. QED
    BY <1>2, <2>1 DEF Powers
<1>10. p[n] \in Nat
  <2>1. n \in 0 .. n
    OBVIOUS
  <2>2. QED
    BY <2>1
<1>11. QED
  BY <1>1, <1>2, <1>3, <1>8, <1>9, <1>10

LEMMA PowerPositive ==
  ASSUME NEW base \in Nat \ {0}, NEW n \in Nat
  PROVE  Power(base, n) \in Nat \ {0}
<1> DEFINE P == { k \in Nat : Power(base, k) \in Nat \ {0} }
<1>1. 0 \in P
  BY PowerFacts
<1>2. ASSUME NEW k \in P PROVE k + 1 \in P
  <2>1. PICK x \in Nat \ {0} : x = Power(base, k)
    BY <1>2
  <2>2. base * x \in Nat \ {0}
    BY <2>1
  <2>3. Power(base, k + 1) = base * x
    BY <1>2, <2>1, PowerFacts
  <2>4. QED
    BY <1>2, <2>2, <2>3
<1>3. P \in SUBSET Nat
  OBVIOUS
<1> HIDE DEF P
<1>4. n \in P
  BY <1>1, <1>2, <1>3, NatInd
<1>5. QED
  BY <1>4 DEF P

(* What an int holds, by the half of its size.                             *)
HalfSize(h) == h \in Nat \ {0} /\ IntSize = 2 * h /\ LeastInt = -h /\ Ints = -h .. h - 1

LEMMA IntFacts == \E h : HalfSize(h) /\ h = Power(2, IntBits - 1)
<1>1. PICK m \in Nat : m = IntBits - 1
  BY LimitNat
<1>2. IntBits = m + 1
  BY <1>1, LimitNat
<1>3. PICK h \in Nat \ {0} : h = Power(2, m)
  BY PowerPositive
<1>4. IntSize = 2 * h
  <2>1. Power(2, m + 1) = 2 * Power(2, m)
    BY PowerFacts
  <2>2. QED
    BY <1>2, <1>3, <2>1 DEF IntSize
<1>5. LeastInt = -h
  BY <1>1, <1>3 DEF LeastInt
<1>6. Ints = -h .. h - 1
  <2>1. -(-h) = h
    OBVIOUS
  <2>2. QED
    BY <1>5, <2>1 DEF Ints
<1>7. HalfSize(h)
  BY <1>4, <1>5, <1>6 DEF HalfSize
<1>8. QED
  BY <1>1, <1>3, <1>7

(* Two numbers that an int makes the same.                                 *)
Alike(x, y) == \E q \in Int : x = y + IntSize * q

LEMMA WrapAlike ==
  ASSUME NEW x \in Int
  PROVE  Wrap(x) \in Ints /\ Wrap(x) \in Int /\ Alike(Wrap(x), x)
<1>1. PICK h : HalfSize(h)
  BY IntFacts
<1>2. PICK n \in Nat \ {0} : n = IntSize /\ n = 2 * h
  BY <1>1 DEF HalfSize
<1>3. PICK y \in Int : y = x + h
  BY <1>1 DEF HalfSize
<1>4. PICK r \in 0 .. n - 1, q \in Int : r = y % n /\ y = n * q + r
  <2>1. y % n \in 0 .. n - 1 /\ y \div n \in Int /\ y = n * (y \div n) + (y % n)
    OBVIOUS
  <2>2. QED
    BY <2>1
<1>5. Wrap(x) = r - h
  <2>1. x - LeastInt = y
    BY <1>1, <1>3 DEF HalfSize
  <2>2. QED
    BY <1>1, <1>2, <1>4, <2>1 DEF Wrap, HalfSize
<1>6. Wrap(x) \in -h .. h - 1
  BY <1>1, <1>2, <1>5 DEF HalfSize
<1>7. Wrap(x) = x + n * (-q)
  <2>1. n * (-q) = -(n * q)
    OBVIOUS
  <2>2. QED
    BY <1>1, <1>3, <1>4, <1>5, <2>1 DEF HalfSize
<1>8. -q \in Int
  OBVIOUS
<1>9. QED
  BY <1>1, <1>2, <1>6, <1>7, <1>8 DEF Alike, HalfSize

LEMMA AlikeInts ==
  ASSUME NEW x \in Ints, NEW y \in Ints, Alike(x, y)
  PROVE  x = y
<1>1. PICK h : HalfSize(h)
  BY IntFacts
<1>2. PICK n \in Nat \ {0} : n = IntSize /\ n = 2 * h
  BY <1>1 DEF HalfSize
<1>3. x \in -h .. h - 1 /\ y \in -h .. h - 1 /\ h \in Nat
  BY <1>1 DEF HalfSize
<1>4. PICK q \in Int : x = y + n * q
  BY <1>2 DEF Alike
<1>5. CASE q >= 1
  <2>1. n * q >= n
    BY <1>5
  <2>2. QED
    BY <1>2, <1>3, <1>4, <2>1
<1>6. CASE q <= -1
  <2>1. n * q <= -n
    BY <1>6
  <2>2. QED
    BY <1>2, <1>3, <1>4, <2>1
<1>7. CASE q = 0
  BY <1>3, <1>4, <1>7
<1>8. QED
  BY <1>5, <1>6, <1>7

LEMMA WrapKeeps ==
  ASSUME NEW x \in Ints
  PROVE  Wrap(x) = x
<1>1. x \in Int
  BY IntFacts DEF HalfSize
<1>2. QED
  BY <1>1, WrapAlike, AlikeInts

(* Arithmetic that does not care.                                          *)
LEMMA AlikeArith ==
  ASSUME NEW x \in Int, NEW y \in Int, NEW z \in Int, Alike(x, y), Alike(y, z),
         NEW a \in Int, NEW d \in Int
  PROVE  Alike(x, z) /\ Alike(x * a + d, y * a + d) /\ Alike(a * x, a * y)
<1>1. PICK n \in Nat : n = IntSize
  BY IntFacts DEF HalfSize
<1>2. PICK p \in Int : x = y + n * p
  BY <1>1 DEF Alike
<1>3. PICK q \in Int : y = z + n * q
  BY <1>1 DEF Alike
<1>4. p + q \in Int /\ x = z + n * (p + q)
  BY <1>2, <1>3
<1>5. p * a \in Int /\ x * a + d = (y * a + d) + n * (p * a) /\ a * x = a * y + n * (p * a)
  BY <1>2
<1>6. QED
  BY <1>1, <1>4, <1>5 DEF Alike

LEMMA AlikeSelf ==
  ASSUME NEW x \in Int
  PROVE  Alike(x, x)
<1>1. PICK n \in Nat : n = IntSize
  BY IntFacts DEF HalfSize
<1>2. 0 \in Int /\ x = x + n * 0
  OBVIOUS
<1>3. QED
  BY <1>1, <1>2 DEF Alike

(* The figures are different from one another, and from the signs and the  *)
(* blanks.                                                                 *)
LEMMA FiguresDiffer ==
  /\ Len(Figures) = 36
  /\ \A d, e \in 0 .. 35 : Figures[d + 1] = Figures[e + 1] => d = e
  /\ \A d \in 0 .. 35 : Figures[d + 1] # "-" /\ Figures[d + 1] # "+"
  /\ \A d \in 0 .. 35 : Figures[d + 1] \notin {" ", "HT", "NL"}
<1>1. Len(Figures) = 36
  BY DEF Figures
<1>2. \A d, e \in 1 .. 36 : Figures[d] = Figures[e] => d = e
  BY DEF Figures
<1>3. \A d \in 1 .. 36 : Figures[d] # "-"
  BY DEF Figures
<1>4. \A d \in 1 .. 36 : Figures[d] # "+"
  BY DEF Figures
<1>5. ASSUME NEW d \in 1 .. 36 PROVE Figures[d] # " "
  <2>1. Figures[1] # " " /\ Figures[2] # " " /\ Figures[3] # " " /\
        Figures[4] # " " /\ Figures[5] # " " /\ Figures[6] # " " /\
        Figures[7] # " " /\ Figures[8] # " " /\ Figures[9] # " " /\
        Figures[10] # " " /\ Figures[11] # " " /\ Figures[12] # " " /\
        Figures[13] # " " /\ Figures[14] # " " /\ Figures[15] # " " /\
        Figures[16] # " " /\ Figures[17] # " " /\ Figures[18] # " " /\
        Figures[19] # " " /\ Figures[20] # " " /\ Figures[21] # " " /\
        Figures[22] # " " /\ Figures[23] # " " /\ Figures[24] # " " /\
        Figures[25] # " " /\ Figures[26] # " " /\ Figures[27] # " " /\
        Figures[28] # " " /\ Figures[29] # " " /\ Figures[30] # " " /\
        Figures[31] # " " /\ Figures[32] # " " /\ Figures[33] # " " /\
        Figures[34] # " " /\ Figures[35] # " " /\ Figures[36] # " "
    BY DEF Figures
  <2>2. d = 1 \/ d = 2 \/ d = 3 \/ d = 4 \/ d = 5 \/ d = 6 \/ d = 7 \/
        d = 8 \/ d = 9 \/ d = 10 \/ d = 11 \/ d = 12 \/ d = 13 \/ d = 14 \/
        d = 15 \/ d = 16 \/ d = 17 \/ d = 18 \/ d = 19 \/ d = 20 \/ d = 21 \/
        d = 22 \/ d = 23 \/ d = 24 \/ d = 25 \/ d = 26 \/ d = 27 \/ d = 28 \/
        d = 29 \/ d = 30 \/ d = 31 \/ d = 32 \/ d = 33 \/ d = 34 \/ d = 35 \/
        d = 36
    OBVIOUS
  <2>3. QED
    BY <2>1, <2>2, Zenon
<1>6. \A d \in 1 .. 36 : Figures[d] # "HT"
  BY DEF Figures
<1>7. \A d \in 1 .. 36 : Figures[d] # "NL"
  BY DEF Figures
<1>8. \A d \in 0 .. 35 : d + 1 \in 1 .. 36
  OBVIOUS
<1>9. ASSUME NEW d \in 0 .. 35, NEW e \in 0 .. 35, Figures[d + 1] = Figures[e + 1]
      PROVE  d = e
  <2>1. d + 1 = e + 1
    BY <1>2, <1>8, <1>9, Zenon
  <2>2. QED
    BY <2>1
<1>10. QED
  BY <1>1, <1>3, <1>4, <1>5, <1>6, <1>7, <1>8, <1>9, Zenon

(* The digit that a figure stands for.                                     *)
LEMMA DigitOfFigure ==
  ASSUME NEW d \in 0 .. 35
  PROVE  DigitOf(Figures[d + 1]) = d
<1>1. Len(Figures) - 1 = 35
  <2>1. Len(Figures) = 36
    BY FiguresDiffer
  <2>2. QED
    BY <2>1
<1>2. PICK c : c = Figures[d + 1]
  OBVIOUS
<1> DEFINE e == CHOOSE e \in 0 .. 35 : Figures[e + 1] = c
<1>3. e \in 0 .. 35 /\ Figures[e + 1] = c
  BY <1>2, Zenon
<1>4. DigitOf(c) = e
  BY <1>1 DEF DigitOf
<1> HIDE DEF e
<1>5. e = d
  BY <1>2, <1>3, FiguresDiffer, Zenon
<1>6. QED
  BY <1>2, <1>4, <1>5, Zenon

(* What a decimal digit is: a figure of a number below ten, and neither a  *)
(* sign nor a blank.                                                       *)
LEMMA DigitFacts ==
  ASSUME NEW c
  PROVE  /\ IsDigit(c) =>
              /\ DigitOf(c) \in 0 .. 9
              /\ c # "-" /\ c # "+" /\ c \notin {" ", "HT", "NL"}
         /\ \A d \in 0 .. 9 : c = Figures[d + 1] => IsDigit(c)
<1>1. ASSUME IsDigit(c)
      PROVE  DigitOf(c) \in 0 .. 9 /\ c # "-" /\ c # "+" /\ c \notin {" ", "HT", "NL"}
  <2>1. PICK i \in 1 .. 10 : c = Figures[i]
    BY <1>1, Zenon DEF IsDigit
  <2>2. PICK d \in 0 .. 9 : d + 1 = i
    <3>1. i - 1 \in 0 .. 9 /\ (i - 1) + 1 = i
      OBVIOUS
    <3>2. QED
      BY <3>1
  <2>3. d \in 0 .. 35 /\ c = Figures[d + 1]
    BY <2>1, <2>2
  <2>4. DigitOf(c) = d
    BY <2>3, DigitOfFigure, Zenon
  <2>5. QED
    BY <2>3, <2>4, FiguresDiffer, Zenon
<1>2. ASSUME NEW d \in 0 .. 9, c = Figures[d + 1] PROVE IsDigit(c)
  <2>1. d + 1 \in 1 .. 10
    OBVIOUS
  <2>2. QED
    BY <1>2, <2>1, Zenon DEF IsDigit
<1>3. QED
  BY <1>1, <1>2, Zenon

(* The digits of a numeral are its characters, or those after the sign.    *)
Sign(w) == IF w[1] = "-" THEN -1 ELSE 1

LEMMA UnsignedFacts ==
  ASSUME NEW C, NEW w \in Seq(C), w # <<>>, NEW u, u = Unsigned(w)
  PROVE  \E o \in {0, 1} :
           /\ (o = 1) <=> w[1] \in {"-", "+"}
           /\ Len(w) \in Nat \ {0} /\ Len(u) \in Nat /\ Len(w) = Len(u) + o
           /\ \A i \in 1 .. Len(u) : u[i] = w[i + o]
           /\ \A i \in 1 .. Len(u) : u[i] \in C
<1>1. Len(w) \in Nat \ {0}
  BY EmptySeq
<1>2. CASE w[1] \in {"-", "+"}
  <2>1. u = Tail(w)
    BY <1>2 DEF Unsigned
  <2>2. /\ Len(u) = Len(w) - 1
        /\ \A i \in 1 .. Len(u) : u[i] = w[i + 1]
    BY <1>1, <2>1
  <2>3. Len(w) = Len(u) + 1 /\ Len(u) \in Nat
    BY <1>1, <2>2
  <2>4. \A i \in 1 .. Len(u) : u[i] \in C
    BY <1>1, <2>2
  <2>5. QED
    BY <1>1, <1>2, <2>2, <2>3, <2>4
<1>3. CASE w[1] \notin {"-", "+"}
  <2>1. u = w
    BY <1>3 DEF Unsigned
  <2>2. \A i \in 1 .. Len(u) : u[i] = w[i + 0]
    <3>1. \A i \in 1 .. Len(u) : i + 0 = i
      OBVIOUS
    <3>2. QED
      BY <2>1, <3>1, Zenon
  <2>3. \A i \in 1 .. Len(u) : u[i] \in C
    BY <1>1, <2>1
  <2>4. Len(w) = Len(u) + 0 /\ Len(u) \in Nat
    BY <1>1, <2>1
  <2>5. 0 \in {0, 1} /\ 0 # 1
    OBVIOUS
  <2>6. QED
    BY <1>1, <1>3, <2>2, <2>3, <2>4, <2>5, Zenon
<1>4. QED
  BY <1>2, <1>3

(* The sum that a numeral means, place by place.                           *)
Places(sum, u, base) ==
  /\ sum[0] = 0
  /\ \A i \in 1 .. Len(u) : sum[i] = sum[i - 1] + DigitOf(u[i]) * Power(base, Len(u) - i)

Means(w, u, base) ==
  \E sum : Places(sum, u, base) /\ Value(w, base) = Sign(w) * sum[Len(u)]

LEMMA ValueDef ==
  ASSUME NEW w, NEW base \in Nat, NEW u, u = Unsigned(w), Len(u) \in Nat,
         \A i \in 1 .. Len(u) : DigitOf(u[i]) \in Nat
  PROVE  Means(w, u, base)
<1>1. PICK n \in Nat : n = Len(u)
  OBVIOUS
<1> DEFINE turn == [i \in 1 .. n |-> [x \in Nat |-> x + DigitOf(u[i]) * Power(base, n - i)]]
<1> DEFINE S == Nat
<1>2. turn \in [1 .. n -> [S -> S]] /\ 0 \in S
  <2>1. ASSUME NEW i \in 1 .. n, NEW x \in Nat
        PROVE  x + DigitOf(u[i]) * Power(base, n - i) \in Nat
    <3>1. PICK p \in Nat : p = Power(base, n - i)
      <4>1. n - i \in Nat
        OBVIOUS
      <4>2. QED
        BY <4>1, PowerFacts
    <3>2. PICK d \in Nat : d = DigitOf(u[i])
      BY <1>1
    <3>3. QED
      BY <3>1, <3>2
  <2>2. QED
    BY <2>1
<1> HIDE DEF turn, S
<1>3. CanRun(S, 0, n, turn)
  BY <1>2, Runs
<1>4. PICK f \in [0 .. n -> S] : \A k \in 0 .. n : f[k] = IF k = 0 THEN 0 ELSE turn[k][f[k - 1]]
  BY <1>3 DEF CanRun
<1>5. \A k \in 0 .. n : f[k] = IF k = 0 THEN 0 ELSE f[k - 1] + DigitOf(u[k]) * Power(base, n - k)
  <2>1. ASSUME NEW k \in 0 .. n, k # 0
        PROVE  f[k] = f[k - 1] + DigitOf(u[k]) * Power(base, n - k)
    <3>1. k \in 1 .. n /\ k - 1 \in 0 .. n /\ f[k - 1] \in Nat
      BY <1>4, <2>1 DEF S
    <3>2. f[k] = turn[k][f[k - 1]]
      BY <1>4, <2>1
    <3>3. QED
      BY <3>1, <3>2 DEF turn
  <2>2. QED
    BY <1>4, <2>1
<1>6. f = [k \in 0 .. n |-> f[k]]
  BY <1>4
<1>7. f = [k \in 0 .. n |-> IF k = 0 THEN 0 ELSE f[k - 1] + DigitOf(u[k]) * Power(base, n - k)]
  BY <1>5, <1>6
<1>8. \E g : g = [k \in 0 .. n |-> IF k = 0 THEN 0 ELSE g[k - 1] + DigitOf(u[k]) * Power(base, n - k)]
  BY <1>7, Zenon
<1> DEFINE F == CHOOSE g : g = [k \in 0 .. n |-> IF k = 0 THEN 0 ELSE g[k - 1] + DigitOf(u[k]) * Power(base, n - k)]
<1>9. F = [k \in 0 .. n |-> IF k = 0 THEN 0 ELSE F[k - 1] + DigitOf(u[k]) * Power(base, n - k)]
  BY <1>8, Zenon
<1>10. Value(w, base) = Sign(w) * F[n]
  BY <1>1, Zenon DEF Value, Sign
<1> HIDE DEF F
<1>11. Places(F, u, base)
  <2>1. ASSUME NEW k \in 0 .. n
        PROVE  F[k] = IF k = 0 THEN 0 ELSE F[k - 1] + DigitOf(u[k]) * Power(base, n - k)
    BY <1>9, Zenon
  <2>2. 0 \in 0 .. n /\ \A k \in 1 .. n : k \in 0 .. n /\ k # 0
    OBVIOUS
  <2>3. QED
    BY <1>1, <2>1, <2>2, Zenon DEF Places
<1>12. Value(w, base) = Sign(w) * F[Len(u)]
  BY <1>1, <1>10, Zenon
<1>13. QED
  BY <1>11, <1>12, Zenon DEF Means

(* What atoi computes of a numeral: it reads the digits from the left.     *)
Read(r, u) ==
  /\ r[0] = 0
  /\ \A i \in 1 .. Len(u) : r[i] = Wrap(r[i - 1] * 10 + DigitOf(u[i]))

LEMMA LeastOf ==
  ASSUME NEW S, NEW n \in S, S \subseteq Int, \A k \in S : n <= k
  PROVE  Sets!Min(S) = n
<1> DEFINE m == CHOOSE x \in S : \A y \in S : x <= y
<1>1. m \in S /\ \A y \in S : m <= y
  BY Zenon
<1>2. Sets!Min(S) = m
  BY DEF Sets!Min
<1> HIDE DEF m
<1>3. m <= n /\ n <= m /\ m \in Int /\ n \in Int
  BY <1>1
<1>4. QED
  BY <1>2, <1>3

LEMMA AtoiDef ==
  ASSUME NEW C, NEW w \in Seq(C), NEW u, u = Unsigned(w), Numeral(w)
  PROVE  \E r : Read(r, u) /\ Atoi(w) = Wrap(Sign(w) * r[Len(u)])
<1>1. w # <<>> /\ u # <<>> /\ \A i \in DOMAIN u : IsDigit(u[i])
  <2>1. u # <<>> /\ \A i \in DOMAIN u : IsDigit(u[i])
    BY Zenon DEF Numeral
  <2>2. w = <<>> => u = w
    BY DEF Unsigned
  <2>3. QED
    BY <2>1, <2>2
<1>2. PICK o \in {0, 1} :
        /\ (o = 1) <=> w[1] \in {"-", "+"}
        /\ Len(w) \in Nat \ {0} /\ Len(u) \in Nat /\ Len(w) = Len(u) + o
        /\ \A i \in 1 .. Len(u) : u[i] = w[i + o]
  BY <1>1, UnsignedFacts
<1>3. PICK m \in Nat \ {0} : m = Len(w)
  BY <1>2
<1>4. PICK n \in Nat \ {0} : n = Len(u)
  <2>1. u \in Seq(C)
    BY DEF Unsigned
  <2>2. QED
    BY <1>1, <2>1, EmptySeq
<1>5. m = n + o /\ (o = 0 \/ o = 1)
  BY <1>2, <1>3, <1>4
<1>6. \A i \in 1 .. n : IsDigit(u[i])
  <2>1. DOMAIN u = 1 .. n
    BY <1>4, <1>2 DEF Unsigned
  <2>2. QED
    BY <1>1, <2>1
<1>7. \A i \in o + 1 .. m : IsDigit(w[i])
  <2>1. ASSUME NEW i \in o + 1 .. m PROVE IsDigit(w[i])
    <3>1. PICK j \in 1 .. n : j + o = i
      <4>1. i - o \in 1 .. n /\ (i - o) + o = i
        BY <1>5
      <4>2. QED
        BY <4>1
    <3>2. u[j] = w[j + o]
      BY <1>2, <1>4
    <3>3. QED
      BY <1>6, <3>1, <3>2, Zenon
  <2>2. QED
    BY <2>1
<1>8. w[1] \notin {" ", "HT", "NL"}
  <2>1. CASE o = 1
    <3>1. "-" # " " /\ "-" # "HT" /\ "-" # "NL" /\ "+" # " " /\ "+" # "HT" /\ "+" # "NL"
      OBVIOUS
    <3>2. w[1] = "-" \/ w[1] = "+"
      BY <1>2, <2>1
    <3>3. QED
      BY <3>1, <3>2, Zenon
  <2>2. CASE o = 0
    <3>1. IsDigit(w[1])
      <4>1. 1 \in o + 1 .. m
        BY <1>5, <2>2
      <4>2. QED
        BY <1>7, <4>1
    <3>2. QED
      BY <3>1, DigitFacts
  <2>3. QED
    BY <1>5, <2>1, <2>2
<1> DEFINE start  == Sets!Min({ i \in DOMAIN w : w[i] \notin {" ", "HT", "NL"} } \cup {Len(w) + 1})
<1> DEFINE signed == start <= Len(w) /\ w[start] \in {"-", "+"}
<1> DEFINE first  == IF signed THEN start + 1 ELSE start
<1> DEFINE end    == Sets!Min({ i \in first .. Len(w) : ~IsDigit(w[i]) } \cup {Len(w) + 1})
<1> DEFINE result == CHOOSE g : g = [i \in first - 1 .. end - 1 |->
                       IF i = first - 1 THEN 0 ELSE Wrap(g[i - 1] * 10 + DigitOf(w[i]))]
<1>9. Atoi(w) = Wrap((IF signed /\ w[start] = "-" THEN -1 ELSE 1) * result[end - 1])
  BY Zenon DEF Atoi
<1>10. start = 1
  <2> DEFINE T == { i \in DOMAIN w : w[i] \notin {" ", "HT", "NL"} } \cup {Len(w) + 1}
  <2>1. DOMAIN w = 1 .. m
    BY <1>3
  <2>2. 1 \in T /\ T \subseteq Int /\ \A k \in T : 1 <= k
    <3>1. 1 \in DOMAIN w
      BY <1>3, <2>1
    <3>2. 1 \in T
      BY <1>8, <3>1, Zenon
    <3>3. \A k \in T : k \in 1 .. m \/ k = m + 1
      BY <1>3, <2>1, Zenon
    <3> HIDE DEF T
    <3>4. \A k \in 1 .. m : k \in Int /\ 1 <= k
      OBVIOUS
    <3>5. m + 1 \in Int /\ 1 <= m + 1
      OBVIOUS
    <3>6. QED
      BY <3>2, <3>3, <3>4, <3>5, Zenon
  <2> HIDE DEF T
  <2>3. Sets!Min(T) = 1
    BY <2>2, LeastOf
  <2>4. QED
    BY <2>3, Zenon DEF T
<1> HIDE DEF start
<1>11. signed <=> o = 1
  BY <1>2, <1>3, <1>10
<1>12. first = o + 1
  BY <1>5, <1>10, <1>11
<1> HIDE DEF first
<1>13. end = m + 1
  <2> DEFINE T == { i \in first .. Len(w) : ~IsDigit(w[i]) } \cup {Len(w) + 1}
  <2>1. T = {m + 1}
    BY <1>3, <1>7, <1>12
  <2>2. m + 1 \in T /\ T \subseteq Int /\ \A k \in T : m + 1 <= k
    BY <2>1
  <2> HIDE DEF T
  <2>3. Sets!Min(T) = m + 1
    BY <2>2, LeastOf
  <2>4. QED
    BY <2>3, Zenon DEF T
<1> HIDE DEF end
<1>14. (IF signed /\ w[start] = "-" THEN -1 ELSE 1) = Sign(w)
  BY <1>2, <1>10, <1>11 DEF Sign
<1> HIDE DEF signed
<1>15. first - 1 = o /\ end - 1 = m
  BY <1>5, <1>12, <1>13
<1>16. result = CHOOSE g : g = [i \in o .. m |-> IF i = o THEN 0 ELSE Wrap(g[i - 1] * 10 + DigitOf(w[i]))]
  BY <1>15, Zenon
<1> HIDE DEF result
<1>17. Atoi(w) = Wrap(Sign(w) * result[m])
  BY <1>9, <1>14, <1>15, Zenon
<1> DEFINE turn == [k \in 1 .. n |-> [x \in Int |-> Wrap(x * 10 + DigitOf(u[k]))]]
<1> DEFINE S == Int
<1>18. turn \in [1 .. n -> [S -> S]] /\ 0 \in S
  <2>1. ASSUME NEW k \in 1 .. n, NEW x \in Int PROVE Wrap(x * 10 + DigitOf(u[k])) \in Int
    <3>1. PICK d \in 0 .. 9 : d = DigitOf(u[k])
      BY <1>6, DigitFacts
    <3>2. x * 10 + d \in Int
      OBVIOUS
    <3>3. QED
      BY <3>1, <3>2, WrapAlike
  <2>2. QED
    BY <2>1
<1> HIDE DEF turn, S
<1>19. CanRun(S, 0, n, turn)
  BY <1>18, Runs
<1>20. PICK f \in [0 .. n -> S] : \A k \in 0 .. n : f[k] = IF k = 0 THEN 0 ELSE turn[k][f[k - 1]]
  BY <1>19 DEF CanRun
<1>21. f[0] = 0 /\ \A k \in 1 .. n : f[k] = Wrap(f[k - 1] * 10 + DigitOf(u[k]))
  <2>1. ASSUME NEW k \in 1 .. n PROVE f[k] = Wrap(f[k - 1] * 10 + DigitOf(u[k]))
    <3>1. k \in 0 .. n /\ k # 0 /\ k - 1 \in 0 .. n /\ f[k - 1] \in Int
      BY <1>20 DEF S
    <3>2. f[k] = turn[k][f[k - 1]]
      BY <1>20, <3>1
    <3>3. QED
      BY <3>1, <3>2 DEF turn
  <2>2. QED
    BY <1>20, <2>1
<1> DEFINE g0 == [i \in o .. m |-> f[i - o]]
<1>22. ASSUME NEW i \in o .. m
       PROVE  g0[i] = IF i = o THEN 0 ELSE Wrap(g0[i - 1] * 10 + DigitOf(w[i]))
  <2>1. CASE i = o
    <3>1. i - o = 0
      BY <1>5, <2>1
    <3>2. g0[i] = f[0]
      BY <3>1, Zenon
    <3>3. QED
      BY <1>21, <2>1, <3>2
  <2>2. CASE i # o
    <3>1. PICK k \in 1 .. n : k = i - o /\ k + o = i
      <4>1. i - o \in 1 .. n /\ (i - o) + o = i
        BY <1>5, <2>2
      <4>2. QED
        BY <4>1
    <3>2. g0[i] = f[k]
      BY <3>1, Zenon
    <3>3. i - 1 \in o .. m /\ (i - 1) - o = k - 1
      BY <1>5, <2>2, <3>1
    <3>4. g0[i - 1] = f[k - 1]
      BY <3>3, Zenon
    <3>5. u[k] = w[i]
      BY <1>2, <1>4, <3>1
    <3>6. f[k] = Wrap(f[k - 1] * 10 + DigitOf(u[k]))
      BY <1>21
    <3>7. QED
      BY <2>2, <3>2, <3>4, <3>5, <3>6, Zenon
  <2>3. QED
    BY <2>1, <2>2
<1>23. \E g : g = [i \in o .. m |-> IF i = o THEN 0 ELSE Wrap(g[i - 1] * 10 + DigitOf(w[i]))]
  <2>1. g0 = [i \in o .. m |-> g0[i]]
    OBVIOUS
  <2> HIDE DEF g0
  <2>2. g0 = [i \in o .. m |-> IF i = o THEN 0 ELSE Wrap(g0[i - 1] * 10 + DigitOf(w[i]))]
    BY <1>22, <2>1
  <2>3. QED
    BY <2>2, Zenon
<1>24. result = [i \in o .. m |-> IF i = o THEN 0 ELSE Wrap(result[i - 1] * 10 + DigitOf(w[i]))]
  BY <1>16, <1>23, Zenon
<1>25. \A i \in o .. m : result[i] = IF i = o THEN 0 ELSE Wrap(result[i - 1] * 10 + DigitOf(w[i]))
  BY <1>24, Zenon
<1> DEFINE r == [k \in 0 .. n |-> result[k + o]]
<1>26. Read(r, u)
  <2>1. r[0] = 0
    <3>1. 0 \in 0 .. n /\ 0 + o = o /\ o \in o .. m
      BY <1>5
    <3>2. QED
      BY <1>25, <3>1, Zenon
  <2>2. ASSUME NEW k \in 1 .. n PROVE r[k] = Wrap(r[k - 1] * 10 + DigitOf(u[k]))
    <3>1. PICK i \in o .. m : i = k + o /\ i # o
      BY <1>5
    <3>2. k \in 0 .. n /\ k - 1 \in 0 .. n /\ (k - 1) + o = i - 1
      BY <1>5, <3>1
    <3>3. r[k] = result[i] /\ r[k - 1] = result[i - 1]
      BY <3>1, <3>2, Zenon
    <3>4. u[k] = w[i]
      BY <1>2, <1>4, <3>1
    <3>5. QED
      BY <1>25, <3>1, <3>3, <3>4, Zenon
  <2> HIDE DEF r
  <2>3. QED
    BY <1>4, <2>1, <2>2 DEF Read
<1>27. r[n] = result[m]
  BY <1>5
<1> HIDE DEF r
<1>28. Atoi(w) = Wrap(Sign(w) * r[Len(u)])
  BY <1>4, <1>17, <1>27, Zenon
<1>29. QED
  BY <1>26, <1>28, Zenon

(* atoi is the number that a numeral means, if an int holds it: however    *)
(* the digits before the last wrapped around.                              *)
LEMMA AtoiValue ==
  ASSUME NEW C, NEW w \in Seq(C), Numeral(w), Value(w, 10) \in Ints
  PROVE  Atoi(w) = Value(w, 10)
<1>1. PICK u : u = Unsigned(w)
  OBVIOUS
<1>2. PICK r : Read(r, u) /\ Atoi(w) = Wrap(Sign(w) * r[Len(u)])
  BY <1>1, AtoiDef
<1>3. w # <<>>
  BY DEF Numeral, Unsigned
<1>4. PICK n \in Nat : n = Len(u)
  BY <1>1, <1>3, UnsignedFacts
<1>5. \A i \in 1 .. n : DigitOf(u[i]) \in 0 .. 9
  <2>1. DOMAIN u = 1 .. n
    BY <1>1, <1>4 DEF Unsigned
  <2>2. QED
    BY <1>1, <2>1, DigitFacts DEF Numeral
<1>6. PICK sum : Places(sum, u, 10) /\ Value(w, 10) = Sign(w) * sum[n]
  <2>1. \A i \in 1 .. Len(u) : DigitOf(u[i]) \in Nat
    BY <1>4, <1>5
  <2>2. 10 \in Nat /\ Len(u) \in Nat
    BY <1>4
  <2>3. Means(w, u, 10)
    BY <1>1, <2>1, <2>2, ValueDef
  <2>4. QED
    BY <1>4, <2>3, Zenon DEF Means
<1> DEFINE P == { k \in Nat : k <= n =>
                   \E x \in Int : r[k] \in Int /\ Alike(r[k], x) /\ sum[k] = x * Power(10, n - k) }
<1>7. 0 \in P
  <2>1. r[0] = 0 /\ sum[0] = 0
    BY <1>2, <1>6 DEF Read, Places
  <2>2. Alike(0, 0)
    <3>1. PICK z \in Nat : z = IntSize
      BY IntFacts DEF HalfSize
    <3>2. 0 \in Int /\ 0 = 0 + z * 0
      OBVIOUS
    <3>3. QED
      BY <3>1, <3>2 DEF Alike
  <2>3. PICK p \in Nat : p = Power(10, n - 0)
    <3>1. n - 0 = n
      OBVIOUS
    <3>2. QED
      BY <3>1, PowerFacts
  <2>4. 0 = 0 * p
    OBVIOUS
  <2>5. 0 \in Int /\ 0 \in Nat
    OBVIOUS
  <2>6. QED
    BY <2>1, <2>2, <2>3, <2>4, <2>5, Zenon
<1>8. ASSUME NEW k \in P PROVE k + 1 \in P
  <2>1. SUFFICES ASSUME k + 1 <= n
                 PROVE  \E x \in Int : /\ r[k + 1] \in Int /\ Alike(r[k + 1], x)
                                       /\ sum[k + 1] = x * Power(10, n - (k + 1))
    OBVIOUS
  <2>2. k + 1 \in 1 .. n /\ (k + 1) - 1 = k /\ k <= n
    BY <2>1
  <2>3. PICK x \in Int : r[k] \in Int /\ Alike(r[k], x) /\ sum[k] = x * Power(10, n - k)
    BY <2>2
  <2>4. PICK d \in 0 .. 9 : d = DigitOf(u[k + 1])
    BY <1>5, <2>2
  <2>5. PICK e \in Nat : e = n - (k + 1) /\ n - k = e + 1
    <3>1. n - (k + 1) \in Nat /\ n - k = (n - (k + 1)) + 1
      BY <2>1
    <3>2. QED
      BY <3>1
  <2>6. PICK p \in Nat : p = Power(10, e) /\ Power(10, n - k) = 10 * p
    <3>1. Power(10, e) \in Nat /\ Power(10, e + 1) = 10 * Power(10, e)
      BY PowerFacts
    <3>2. QED
      BY <2>5, <3>1
  <2>7. PICK y \in Int : y = r[k] * 10 + d
    BY <2>3
  <2>8. PICK z \in Int : z = x * 10 + d
    OBVIOUS
  <2>9. r[k + 1] = Wrap(y)
    BY <1>2, <1>4, <2>2, <2>4, <2>7 DEF Read
  <2>10. Wrap(y) \in Int /\ Alike(Wrap(y), y)
    BY WrapAlike
  <2>11. Alike(y, z)
    <3>1. Alike(x, x)
      BY AlikeSelf
    <3>2. Alike(r[k] * 10 + d, x * 10 + d)
      <4>1. 10 \in Int /\ d \in Int /\ r[k] \in Int
        BY <2>3
      <4>2. QED
        BY <2>3, <3>1, <4>1, AlikeArith
    <3>3. QED
      BY <2>7, <2>8, <3>2, Zenon
  <2>12. Alike(Wrap(y), z)
    BY <2>10, <2>11, AlikeArith
  <2>13. sum[k + 1] = sum[k] + d * p
    BY <1>4, <1>6, <2>2, <2>4, <2>5, <2>6 DEF Places
  <2>14. sum[k + 1] = z * p
    <3>1. x * (10 * p) + d * p = (x * 10 + d) * p
      OBVIOUS
    <3>2. QED
      BY <2>3, <2>6, <2>8, <2>13, <3>1
  <2>15. QED
    BY <2>5, <2>6, <2>9, <2>10, <2>12, <2>14
<1>9. P \in SUBSET Nat
  OBVIOUS
<1> HIDE DEF P
<1>10. n \in P
  BY <1>7, <1>8, <1>9, NatInd
<1>11. PICK x \in Int : r[n] \in Int /\ Alike(r[n], x) /\ sum[n] = x
  <2>1. PICK x \in Int : r[n] \in Int /\ Alike(r[n], x) /\ sum[n] = x * Power(10, n - n)
    BY <1>10 DEF P
  <2>2. n - n = 0 /\ Power(10, 0) = 1 /\ x * 1 = x
    BY PowerFacts
  <2>3. QED
    BY <2>1, <2>2
<1>12. PICK s \in Int : s = Sign(w)
  BY DEF Sign
<1>13. Alike(s * r[n], s * x)
  <2>1. Alike(x, x)
    BY AlikeSelf
  <2>2. QED
    BY <1>11, <2>1, AlikeArith
<1>14. PICK y \in Int : y = s * r[n]
  BY <1>11
<1>15. PICK z \in Int : z = s * x
  OBVIOUS
<1>16. Atoi(w) = Wrap(y) /\ Value(w, 10) = z
  BY <1>2, <1>4, <1>6, <1>11, <1>12, <1>14, <1>15
<1>17. Wrap(y) \in Ints /\ Wrap(y) \in Int /\ Alike(Wrap(y), y)
  BY WrapAlike
<1>18. Alike(Wrap(y), z)
  <2>1. Alike(y, z)
    BY <1>13, <1>14, <1>15
  <2>2. QED
    BY <1>17, <2>1, AlikeArith
<1>19. QED
  BY <1>16, <1>17, <1>18, AlikeInts

(* Division as C does it, by magnitudes.                                   *)
LEMMA QuotFacts ==
  ASSUME NEW a \in Int, NEW b \in Nat \ {0}
  PROVE  /\ Quot(a, b) \in Int /\ Rem(a, b) \in Int
         /\ Magnitude(Quot(a, b)) \in Nat /\ Magnitude(Rem(a, b)) \in 0 .. b - 1
         /\ Magnitude(a) = Magnitude(Quot(a, b)) * b + Magnitude(Rem(a, b))
         /\ a >= 0 => Quot(a, b) >= 0
         /\ a <= 0 => Quot(a, b) <= 0
<1>1. PICK x \in Nat : x = Magnitude(a)
  BY DEF Magnitude
<1>2. PICK q \in Nat : q = x \div b
  BY <1>1
<1>3. PICK d \in 0 .. b - 1 : x = q * b + d
  <2>1. x % b \in 0 .. b - 1 /\ x = b * (x \div b) + (x % b)
    OBVIOUS
  <2>2. PICK d \in 0 .. b - 1 : d = x % b
    BY <2>1
  <2>3. x = b * q + d /\ b * q = q * b
    BY <1>2, <2>1, <2>2
  <2>4. QED
    BY <2>3
<1>4. Magnitude(b) = b
  BY DEF Magnitude
<1>5. PICK p \in Nat : p = q * b
  OBVIOUS
<1>6. CASE a < 0
  <2>1. Quot(a, b) = -q
    BY <1>1, <1>2, <1>4, <1>6 DEF Quot
  <2>2. a = -x /\ (-q) * b = -p
    BY <1>1, <1>5, <1>6 DEF Magnitude
  <2>3. Rem(a, b) = -d
    BY <1>3, <1>5, <2>1, <2>2 DEF Rem
  <2>4. Magnitude(-q) = q /\ Magnitude(-d) = d
    BY DEF Magnitude
  <2>5. QED
    BY <1>1, <1>3, <1>6, <2>1, <2>3, <2>4
<1>7. CASE a >= 0
  <2>1. Quot(a, b) = q
    BY <1>1, <1>2, <1>4, <1>7 DEF Quot
  <2>2. a = x
    BY <1>1, <1>7 DEF Magnitude
  <2>3. Rem(a, b) = d
    BY <1>3, <1>5, <2>1, <2>2 DEF Rem
  <2>4. Magnitude(q) = q /\ Magnitude(d) = d
    BY DEF Magnitude
  <2>5. a <= 0 => q <= 0
    <3>1. q >= 1 => q * b >= b
      OBVIOUS
    <3>2. QED
      BY <1>3, <2>2, <3>1
  <2>6. QED
    BY <1>1, <1>3, <1>7, <2>1, <2>3, <2>4, <2>5
<1>8. QED
  BY <1>6, <1>7

(* What is left of a number after each division.                           *)
Left(left, v, base) ==
  /\ left[0] = v
  /\ \A k \in 1 .. IntBits : left[k] = Quot(left[k - 1], base)
  /\ \A k \in 0 .. IntBits : left[k] \in Int

LEMMA DividedDef ==
  ASSUME NEW v \in Int, NEW base \in Nat \ {0}
  PROVE  \E left : Divided(v, base) = left /\ Left(left, v, base)
<1>1. PICK n \in Nat : n = IntBits
  BY LimitNat
<1> DEFINE turn == [i \in 1 .. n |-> [x \in Int |-> Quot(x, base)]]
<1> DEFINE S == Int
<1>2. turn \in [1 .. n -> [S -> S]] /\ v \in S
  <2>1. ASSUME NEW i \in 1 .. n, NEW x \in Int PROVE Quot(x, base) \in Int
    BY QuotFacts
  <2>2. QED
    BY <2>1
<1> HIDE DEF turn, S
<1>3. CanRun(S, v, n, turn)
  BY <1>2, Runs
<1>4. PICK f \in [0 .. n -> S] : \A k \in 0 .. n : f[k] = IF k = 0 THEN v ELSE turn[k][f[k - 1]]
  BY <1>3 DEF CanRun
<1>5. \A k \in 0 .. n : f[k] = IF k = 0 THEN v ELSE Quot(f[k - 1], base)
  <2>1. ASSUME NEW k \in 0 .. n, k # 0 PROVE f[k] = Quot(f[k - 1], base)
    <3>1. k \in 1 .. n /\ k - 1 \in 0 .. n /\ f[k - 1] \in Int
      BY <1>4, <2>1 DEF S
    <3>2. f[k] = turn[k][f[k - 1]]
      BY <1>4, <2>1
    <3>3. QED
      BY <3>1, <3>2 DEF turn
  <2>2. QED
    BY <1>4, <2>1
<1>6. f = [k \in 0 .. n |-> f[k]]
  BY <1>4
<1>7. f = [k \in 0 .. n |-> IF k = 0 THEN v ELSE Quot(f[k - 1], base)]
  BY <1>5, <1>6
<1>8. \E g : g = [k \in 0 .. n |-> IF k = 0 THEN v ELSE Quot(g[k - 1], base)]
  BY <1>7, Zenon
<1> DEFINE F == CHOOSE g : g = [k \in 0 .. n |-> IF k = 0 THEN v ELSE Quot(g[k - 1], base)]
<1>9. F = [k \in 0 .. n |-> IF k = 0 THEN v ELSE Quot(F[k - 1], base)]
  BY <1>8, Zenon
<1>10. Divided(v, base) = F
  BY <1>1, Zenon DEF Divided
<1> HIDE DEF F
<1>11. F[0] = v /\ \A k \in 1 .. n : F[k] = Quot(F[k - 1], base)
  <2>1. ASSUME NEW k \in 0 .. n PROVE F[k] = IF k = 0 THEN v ELSE Quot(F[k - 1], base)
    BY <1>9, Zenon
  <2>2. 0 \in 0 .. n /\ \A k \in 1 .. n : k \in 0 .. n /\ k # 0
    OBVIOUS
  <2>3. QED
    BY <2>1, <2>2, Zenon
<1> DEFINE P == { k \in Nat : k <= n => F[k] \in Int }
<1>12. 0 \in P
  BY <1>11
<1>13. ASSUME NEW k \in P PROVE k + 1 \in P
  <2>1. SUFFICES ASSUME k + 1 <= n PROVE F[k + 1] \in Int
    OBVIOUS
  <2>2. k + 1 \in 1 .. n /\ (k + 1) - 1 = k /\ F[k] \in Int
    BY <2>1
  <2>3. F[k + 1] = Quot(F[k], base)
    BY <1>11, <2>2
  <2>4. QED
    BY <2>2, <2>3, QuotFacts
<1>14. P \in SUBSET Nat
  OBVIOUS
<1> HIDE DEF P
<1>15. P = Nat
  BY <1>12, <1>13, <1>14, NatInd
<1>16. \A k \in 0 .. n : F[k] \in Int
  <2>1. ASSUME NEW k \in 0 .. n PROVE F[k] \in Int
    <3>1. k \in P /\ k <= n
      BY <1>15
    <3>2. QED
      BY <3>1 DEF P
  <2>2. QED
    BY <2>1
<1>17. Left(F, v, base)
  BY <1>1, <1>11, <1>16 DEF Left
<1>18. QED
  BY <1>10, <1>17

LEMMA LeftStep ==
  ASSUME NEW v, NEW base \in Nat \ {0}, NEW left, Left(left, v, base),
         NEW j \in Nat, NEW k, k = j + 1, k <= IntBits
  PROVE  /\ Magnitude(left[j]) \in Nat /\ Magnitude(left[k]) \in Nat
         /\ Magnitude(Rem(left[j], base)) \in 0 .. base - 1
         /\ Magnitude(left[j]) = Magnitude(left[k]) * base + Magnitude(Rem(left[j], base))
<1>1. j \in 0 .. IntBits /\ k \in 1 .. IntBits /\ k - 1 = j
  BY LimitNat
<1>2. PICK a \in Int : a = left[j]
  BY <1>1 DEF Left
<1>3. left[k] = Quot(a, base)
  BY <1>1, <1>2 DEF Left
<1>4. Magnitude(a) \in Nat
  BY DEF Magnitude
<1>5. QED
  BY <1>2, <1>3, <1>4, QuotFacts

LEMMA NoMagnitude ==
  ASSUME NEW a \in Int
  PROVE  Magnitude(a) \in Nat /\ (Magnitude(a) = 0 <=> a = 0)
  BY DEF Magnitude

(* An int has at most IntBits digits, whatever the base.                   *)
LEMMA RunsOut ==
  ASSUME NEW v \in Ints, NEW base \in 2 .. 36, NEW left, Left(left, v, base)
  PROVE  left[IntBits] = 0
<1>1. PICK h : HalfSize(h) /\ h = Power(2, IntBits - 1)
  BY IntFacts
<1>2. PICK m \in Nat : m = IntBits - 1 /\ IntBits = m + 1
  <2>1. IntBits - 1 \in Nat /\ IntBits = (IntBits - 1) + 1
    BY LimitNat
  <2>2. QED
    BY <2>1
<1> DEFINE P == { k \in Nat : k <= m => Magnitude(left[k]) <= Power(2, m - k) }
<1>3. 0 \in P
  <2>1. m - 0 = m /\ Power(2, m) = h
    BY <1>1, <1>2
  <2>2. left[0] = v /\ v \in -h .. h - 1 /\ h \in Nat
    BY <1>1 DEF Left, HalfSize
  <2>3. Magnitude(v) <= h
    BY <2>2 DEF Magnitude
  <2>4. QED
    BY <2>1, <2>2, <2>3
<1>4. ASSUME NEW k \in P PROVE k + 1 \in P
  <2>1. SUFFICES ASSUME k + 1 <= m PROVE Magnitude(left[k + 1]) <= Power(2, m - (k + 1))
    OBVIOUS
  <2>2. k + 1 \in 1 .. IntBits /\ (k + 1) - 1 = k /\ Magnitude(left[k]) <= Power(2, m - k)
    BY <1>2, <2>1
  <2>3. PICK e \in Nat : e = m - (k + 1) /\ m - k = e + 1
    <3>1. m - (k + 1) \in Nat /\ m - k = (m - (k + 1)) + 1
      BY <2>1
    <3>2. QED
      BY <3>1
  <2>4. PICK p \in Nat : p = Power(2, e) /\ Power(2, m - k) = 2 * p
    <3>1. Power(2, e) \in Nat /\ Power(2, e + 1) = 2 * Power(2, e)
      BY PowerFacts
    <3>2. QED
      BY <2>3, <3>1
  <2>5. base \in Nat \ {0}
    OBVIOUS
  <2>6. PICK x \in Nat, y \in Nat, d \in 0 .. base - 1 :
          x = Magnitude(left[k]) /\ y = Magnitude(left[k + 1]) /\ x = y * base + d
    <3>1. k \in Nat /\ k + 1 <= IntBits
      BY <1>2, <2>1
    <3>2. PICK l : l = k + 1
      OBVIOUS
    <3>3. /\ Magnitude(left[k]) \in Nat /\ Magnitude(left[l]) \in Nat
          /\ Magnitude(Rem(left[k], base)) \in 0 .. base - 1
          /\ Magnitude(left[k]) = Magnitude(left[l]) * base + Magnitude(Rem(left[k], base))
      BY <2>5, <3>1, <3>2, LeftStep
    <3>4. QED
      BY <3>2, <3>3
  <2>7. y * base >= y * 2
    OBVIOUS
  <2>8. y <= p
    BY <2>2, <2>4, <2>6, <2>7
  <2>9. QED
    BY <2>3, <2>4, <2>6, <2>8
<1>5. P \in SUBSET Nat
  OBVIOUS
<1> HIDE DEF P
<1>6. m \in P
  BY <1>3, <1>4, <1>5, NatInd
<1>7. Magnitude(left[m]) <= 1
  <2>1. m - m = 0 /\ Power(2, 0) = 1 /\ m <= m
    BY PowerFacts
  <2>2. QED
    BY <1>6, <2>1 DEF P
<1>8. m + 1 <= IntBits
  BY <1>2
<1>9. base \in Nat \ {0}
  OBVIOUS
<1>10. PICK x \in Nat, y \in Nat, d \in 0 .. base - 1 :
          x = Magnitude(left[m]) /\ y = Magnitude(left[m + 1]) /\ x = y * base + d
  <2>1. PICK k : k = m + 1
    OBVIOUS
  <2>2. /\ Magnitude(left[m]) \in Nat /\ Magnitude(left[k]) \in Nat
        /\ Magnitude(Rem(left[m], base)) \in 0 .. base - 1
        /\ Magnitude(left[m]) = Magnitude(left[k]) * base + Magnitude(Rem(left[m], base))
    BY <1>8, <1>9, <2>1, LeftStep
  <2>3. QED
    BY <2>1, <2>2
<1>11. y * base >= y * 2
  OBVIOUS
<1>12. y = 0
  BY <1>7, <1>10, <1>11
<1>13. left[m + 1] \in Int
  BY <1>2 DEF Left
<1>14. QED
  BY <1>2, <1>10, <1>12, <1>13, NoMagnitude

(* The division that leaves 0 for the first time.                          *)
Stops(left, n) ==
  n \in 1 .. IntBits /\ left[n] = 0 /\ \A k \in 1 .. IntBits : left[k] = 0 => n <= k

Figured(left, n, base) == [i \in 1 .. n |-> Figures[Magnitude(Rem(left[n - i], base)) + 1]]

LEMMA DigitsDef ==
  ASSUME NEW v \in Ints, NEW base \in 2 .. 36
  PROVE  \E left, n : /\ Left(left, v, base) /\ Stops(left, n)
                      /\ DigitsOf(v, base) = Figured(left, n, base)
<1>1. v \in Int /\ base \in Nat \ {0}
  BY IntFacts DEF HalfSize
<1>2. PICK left : Divided(v, base) = left /\ Left(left, v, base)
  BY <1>1, DividedDef
<1> DEFINE S == { k \in 1 .. IntBits : left[k] = 0 }
<1>3. IntBits \in S
  <2>1. IntBits \in 1 .. IntBits
    BY LimitNat
  <2>2. QED
    BY <1>2, <2>1, RunsOut
<1>4. S \subseteq Nat
  BY LimitNat
<1>5. PICK n \in S : \A k \in S : n <= k
  <2>1. S # {} /\ S \in SUBSET Nat
    BY <1>3, <1>4
  <2> HIDE DEF S
  <2>2. QED
    BY <2>1, NatMin
<1>6. Stops(left, n)
  BY <1>5 DEF Stops
<1>7. Sets!Min(S) = n
  <2>1. S \subseteq Int
    BY <1>4
  <2> HIDE DEF S
  <2>2. QED
    BY <1>5, <2>1, LeastOf
<1>8. DigitsOf(v, base) = Figured(left, n, base)
  BY <1>2, <1>7, Zenon DEF DigitsOf, Figured
<1>9. QED
  BY <1>2, <1>6, <1>8

(* The text D spells the number m: its figures, read from the left, come   *)
(* to m, and there is no 0 before them.                                    *)
Glyphs == { Figures[d + 1] : d \in 0 .. 35 }

Horner(h, D, m, base) ==
  /\ h[0] = 0 /\ h[Len(D)] = m
  /\ \A i \in 1 .. Len(D) : h[i - 1] \in Nat /\ h[i] \in Nat /\ h[i] = h[i - 1] * base + DigitOf(D[i])

Spells(D, m, base) ==
  /\ D \in Seq(Glyphs) /\ Len(D) \in Nat \ {0}
  /\ \A i \in 1 .. Len(D) : \E d \in 0 .. base - 1 : D[i] = Figures[d + 1]
  /\ D[1] = "0" => D = <<"0">>
  /\ \E h : Horner(h, D, m, base)

LEMMA DigitsSpell ==
  ASSUME NEW v \in Ints, NEW base \in 2 .. 36
  PROVE  Spells(DigitsOf(v, base), Magnitude(v), base)
<1>1. PICK left, n : /\ Left(left, v, base) /\ Stops(left, n)
                     /\ DigitsOf(v, base) = Figured(left, n, base)
  BY DigitsDef
<1>2. n \in Nat \ {0} /\ n <= IntBits /\ left[n] = 0
  BY <1>1, LimitNat DEF Stops
<1>3. PICK D : D = Figured(left, n, base)
  OBVIOUS
<1> DEFINE rem(i) == Magnitude(Rem(left[n - i], base))
<1> DEFINE h == [i \in 0 .. n |-> Magnitude(left[n - i])]
<1>4. ASSUME NEW i \in 1 .. n
      PROVE  /\ rem(i) \in 0 .. base - 1
             /\ h[i - 1] \in Nat /\ h[i] \in Nat
             /\ h[i] = h[i - 1] * base + rem(i)
  <2>1. PICK j \in Nat : j = n - i
    <3>1. n - i \in Nat
      BY <1>2
    <3>2. QED
      BY <3>1
  <2>2. PICK k : k = j + 1
    OBVIOUS
  <2>3. k <= IntBits /\ n - (i - 1) = k /\ i - 1 \in 0 .. n /\ i \in 0 .. n
    BY <1>2, <2>1, <2>2, LimitNat
  <2>4. /\ Magnitude(left[j]) \in Nat /\ Magnitude(left[k]) \in Nat
        /\ Magnitude(Rem(left[j], base)) \in 0 .. base - 1
        /\ Magnitude(left[j]) = Magnitude(left[k]) * base + Magnitude(Rem(left[j], base))
    <3>1. base \in Nat \ {0}
      OBVIOUS
    <3>2. QED
      BY <1>1, <2>2, <2>3, <3>1, LeftStep
  <2>5. h[i - 1] = Magnitude(left[k]) /\ h[i] = Magnitude(left[j])
    BY <2>1, <2>3, Zenon
  <2>6. rem(i) = Magnitude(Rem(left[j], base))
    BY <2>1, Zenon
  <2> HIDE DEF h, rem
  <2>7. QED
    BY <2>4, <2>5, <2>6, Zenon
<1>5. Len(D) = n /\ \A i \in 1 .. n : D[i] = Figures[rem(i) + 1]
  <2>1. D = [i \in 1 .. n |-> Figures[rem(i) + 1]]
    BY <1>3 DEF Figured
  <2> HIDE DEF rem
  <2>2. QED
    BY <1>2, <2>1
<1>6. D \in Seq(Glyphs)
  <2>1. D = [i \in 1 .. n |-> Figures[rem(i) + 1]]
    BY <1>3 DEF Figured
  <2>2. \A i \in 1 .. n : Figures[rem(i) + 1] \in Glyphs
    <3>1. \A i \in 1 .. n : rem(i) \in 0 .. 35
      <4>1. \A d \in 0 .. base - 1 : d \in 0 .. 35
        OBVIOUS
      <4> HIDE DEF rem
      <4>2. QED
        BY <1>4, <4>1, Zenon
    <3> HIDE DEF rem
    <3>2. QED
      BY <3>1, Zenon DEF Glyphs
  <2> HIDE DEF rem
  <2>3. QED
    BY <1>2, <2>1, <2>2
<1>7. h[0] = 0 /\ h[n] = Magnitude(v)
  <2>1. 0 \in 0 .. n /\ n \in 0 .. n /\ n - 0 = n /\ n - n = 0
    BY <1>2
  <2>2. h[0] = Magnitude(left[n]) /\ h[n] = Magnitude(left[0])
    BY <2>1, Zenon
  <2>3. left[0] = v
    BY <1>1 DEF Left
  <2>4. Magnitude(0) = 0
    BY DEF Magnitude
  <2>5. QED
    BY <1>2, <2>2, <2>3, <2>4, Zenon
<1>8. \A i \in 1 .. n : DigitOf(D[i]) = rem(i)
  <2>1. \A d \in 0 .. base - 1 : d \in 0 .. 35
    OBVIOUS
  <2> HIDE DEF rem
  <2>2. QED
    BY <1>4, <1>5, <2>1, DigitOfFigure, Zenon
<1>9. Horner(h, D, Magnitude(v), base)
  <2> HIDE DEF h, rem
  <2>1. QED
    BY <1>4, <1>5, <1>7, <1>8, Zenon DEF Horner
<1>10. ASSUME D[1] = "0" PROVE D = <<"0">>
  <2>1. 1 \in 1 .. n /\ 1 - 1 = 0
    BY <1>2
  <2>2. rem(1) = 0
    <3>1. D[1] = Figures[rem(1) + 1] /\ rem(1) \in 0 .. base - 1
      BY <1>4, <1>5, <2>1, Zenon
    <3>2. PICK d \in 0 .. 35 : d = rem(1) /\ D[1] = Figures[d + 1]
      <4> HIDE DEF rem
      <4>1. QED
        BY <3>1
    <3>3. Figures[0 + 1] = "0" /\ 0 \in 0 .. 35
      BY DEF Figures
    <3>4. d = 0
      <4>1. Figures[d + 1] = Figures[0 + 1]
        BY <1>10, <3>2, <3>3, Zenon
      <4>2. \A c, e \in 0 .. 35 : Figures[c + 1] = Figures[e + 1] => c = e
        BY FiguresDiffer, Zenon
      <4>3. QED
        BY <3>3, <4>1, <4>2, Zenon
    <3>5. QED
      BY <3>2, <3>4, Zenon
  <2>3. h[1] = 0
    <3>1. h[1] = h[0] * base + rem(1)
      BY <1>4, <2>1, Zenon
    <3> HIDE DEF h, rem
    <3>2. QED
      BY <1>7, <2>2, <3>1
  <2>4. n = 1
    <3>1. SUFFICES ASSUME n # 1 PROVE FALSE
      OBVIOUS
    <3>2. n - 1 \in 1 .. IntBits /\ n - 1 \in 0 .. IntBits /\ 1 \in 0 .. n
      BY <1>2, <3>1, LimitNat
    <3>3. h[1] = Magnitude(left[n - 1])
      BY <3>2, Zenon
    <3>4. left[n - 1] \in Int
      BY <1>1, <3>2 DEF Left
    <3>5. left[n - 1] = 0
      <4> HIDE DEF h
      <4>1. QED
        BY <2>3, <3>3, <3>4, NoMagnitude, Zenon
    <3>6. n <= n - 1
      BY <1>1, <3>2, <3>5 DEF Stops
    <3>7. QED
      BY <1>2, <3>6
  <2>5. Len(D) = 1 /\ D \in Seq(Glyphs)
    BY <1>5, <1>6, <2>4, Zenon
  <2>6. QED
    BY <1>10, <2>5
<1>11. \A i \in 1 .. Len(D) : \E d \in 0 .. base - 1 : D[i] = Figures[d + 1]
  <2> HIDE DEF rem
  <2>1. QED
    BY <1>4, <1>5, Zenon
<1>12. Spells(D, Magnitude(v), base)
  <2> HIDE DEF h
  <2>1. \E g : Horner(g, D, Magnitude(v), base)
    BY <1>9, Zenon
  <2>2. Len(D) \in Nat \ {0}
    BY <1>2, <1>5, Zenon
  <2>3. QED
    BY <1>6, <1>10, <1>11, <2>1, <2>2 DEF Spells
<1>13. QED
  BY <1>1, <1>3, <1>12, Zenon

(* What a text that spells a number means, with a sign before it or not,   *)
(* in the terms of the properties.                                         *)
LEMMA SpelledValue ==
  ASSUME NEW m \in Nat, NEW base \in 2 .. 36, NEW D, Spells(D, m, base), NEW neg \in BOOLEAN,
         neg => m # 0,
         NEW w, w = (IF neg THEN <<"-">> ELSE <<>>) \o D
  PROVE  /\ Value(w, base) = (IF neg THEN -1 ELSE 1) * m
         /\ Shortest(w, base)
         /\ base = 10 => Numeral(w)
<1>1. PICK n \in Nat \ {0} : n = Len(D)
  BY DEF Spells
<1>2. D \in Seq(Glyphs) /\ D # <<>>
  <2>1. D \in Seq(Glyphs)
    BY DEF Spells
  <2>2. QED
    BY <1>1, <2>1
<1>3. ASSUME NEW i \in 1 .. n
      PROVE  \E d \in 0 .. base - 1 : D[i] = Figures[d + 1] /\ DigitOf(D[i]) = d /\ d \in 0 .. 35
  <2>1. PICK d \in 0 .. base - 1 : D[i] = Figures[d + 1]
    BY <1>1, Zenon DEF Spells
  <2>2. d \in 0 .. 35
    OBVIOUS
  <2>3. DigitOf(D[i]) = d
    BY <2>1, <2>2, DigitOfFigure, Zenon
  <2>4. QED
    BY <2>1, <2>2, <2>3, Zenon
<1>4. D[1] # "-" /\ D[1] # "+"
  <2>1. 1 \in 1 .. n
    OBVIOUS
  <2>2. PICK d \in 0 .. 35 : D[1] = Figures[d + 1]
    <3>1. PICK d \in 0 .. base - 1 : D[1] = Figures[d + 1] /\ d \in 0 .. 35
      BY <1>3, <2>1
    <3>2. QED
      BY <3>1, Zenon
  <2>3. QED
    BY <2>2, FiguresDiffer, Zenon
<1>5. Unsigned(w) = D /\ w # <<>> /\ (w[1] = "-" <=> neg) /\ w[1] # "+"
  <2>1. CASE neg
    <3>1. PICK C : "-" \in C /\ Glyphs \subseteq C
      <4>1. "-" \in Glyphs \cup {"-"} /\ Glyphs \subseteq Glyphs \cup {"-"}
        OBVIOUS
      <4>2. QED
        BY <4>1
    <3>2. PICK s : s = <<"-">>
      OBVIOUS
    <3>3. s \in Seq(C) /\ Len(s) = 1 /\ s[1] = "-"
      BY <3>1, <3>2, Single
    <3>4. D \in Seq(C)
      BY <1>2, <3>1
    <3>5. w = s \o D
      BY <2>1, <3>2
    <3>6. w[1] = "-" /\ Tail(w) = D /\ w # <<>>
      <4>1. w \in Seq(C) /\ Len(w) = 1 + n /\ \A i \in 1 .. Len(w) : w[i] = IF i <= 1 THEN s[i] ELSE D[i - 1]
        <5>1. /\ s \o D \in Seq(C) /\ Len(s \o D) = Len(s) + Len(D)
              /\ \A i \in 1 .. Len(s) + Len(D) : (s \o D)[i] = IF i <= Len(s) THEN s[i] ELSE D[i - Len(s)]
          BY <3>3, <3>4, ConcatProperties
        <5>2. QED
          BY <1>1, <3>3, <3>5, <5>1
      <4>2. w # <<>> /\ w[1] = "-"
        BY <3>3, <4>1
      <4>3. Tail(w) \in Seq(C) /\ Len(Tail(w)) = n /\ \A i \in 1 .. n : Tail(w)[i] = w[i + 1]
        BY <4>1, <4>2
      <4>4. \A i \in 1 .. n : Tail(w)[i] = D[i]
        <5>1. ASSUME NEW i \in 1 .. n PROVE w[i + 1] = D[i]
          <6>1. i + 1 \in 1 .. Len(w) /\ ~(i + 1 <= 1) /\ (i + 1) - 1 = i
            BY <4>1
          <6>2. QED
            BY <4>1, <6>1
        <5>2. QED
          BY <4>3, <5>1
      <4>5. Tail(w) = D
        BY <1>1, <3>4, <4>3, <4>4, SeqEqual
      <4>6. QED
        BY <4>2, <4>5
    <3>7. Unsigned(w) = D
      BY <3>6, Zenon DEF Unsigned
    <3>8. "-" # "+"
      OBVIOUS
    <3>9. QED
      BY <2>1, <3>6, <3>7, <3>8, Zenon
  <2>2. CASE ~neg
    <3>1. w = D
      BY <1>2, <2>2
    <3>2. Unsigned(w) = D
      BY <1>4, <3>1, Zenon DEF Unsigned
    <3>3. QED
      BY <1>2, <1>4, <2>2, <3>1, <3>2, Zenon
  <2>3. QED
    BY <2>1, <2>2
<1>6. PICK h : Horner(h, D, m, base)
  BY DEF Spells
<1>7. PICK sum : Places(sum, D, base) /\ Value(w, base) = Sign(w) * sum[n]
  <2>1. \A i \in 1 .. Len(D) : DigitOf(D[i]) \in Nat
    <3>1. ASSUME NEW i \in 1 .. n PROVE DigitOf(D[i]) \in Nat
      <4>1. PICK d \in 0 .. base - 1 : DigitOf(D[i]) = d
        BY <1>3
      <4>2. QED
        BY <4>1
    <3>2. QED
      BY <1>1, <3>1
  <2>2. base \in Nat /\ Len(D) \in Nat /\ D = Unsigned(w)
    BY <1>1, <1>5
  <2>3. Means(w, D, base)
    BY <2>1, <2>2, ValueDef
  <2>4. QED
    BY <1>1, <2>3, Zenon DEF Means
<1> DEFINE P == { k \in Nat : k <= n => sum[k] = h[k] * Power(base, n - k) /\ h[k] \in Nat }
<1>8. 0 \in P
  <2>1. sum[0] = 0 /\ h[0] = 0
    BY <1>6, <1>7, Zenon DEF Places, Horner
  <2>2. PICK p \in Nat : p = Power(base, n - 0)
    <3>1. n - 0 = n /\ base \in Nat
      OBVIOUS
    <3>2. QED
      BY <3>1, PowerFacts
  <2>3. 0 = 0 * p /\ 0 \in Nat
    OBVIOUS
  <2>4. QED
    BY <2>1, <2>2, <2>3, Zenon
<1>9. ASSUME NEW k \in P PROVE k + 1 \in P
  <2>1. SUFFICES ASSUME k + 1 <= n
                 PROVE  sum[k + 1] = h[k + 1] * Power(base, n - (k + 1)) /\ h[k + 1] \in Nat
    OBVIOUS
  <2>2. PICK l \in 1 .. n : l = k + 1 /\ l - 1 = k
    BY <2>1
  <2>3. sum[k] = h[k] * Power(base, n - k)
    BY <2>1
  <2>4. PICK x \in Nat, y \in Nat : x = h[k] /\ y = h[l]
    BY <1>1, <1>6, <2>2 DEF Horner
  <2>5. PICK d \in Nat : d = DigitOf(D[l])
    <3>1. PICK d \in 0 .. base - 1 : DigitOf(D[l]) = d
      BY <1>3
    <3>2. QED
      BY <3>1
  <2>6. y = x * base + d
    BY <1>1, <1>6, <2>2, <2>4, <2>5 DEF Horner
  <2>7. PICK e \in Nat : e = n - l /\ n - k = e + 1
    <3>1. n - l \in Nat /\ n - k = (n - l) + 1
      BY <2>2
    <3>2. QED
      BY <3>1
  <2>8. PICK p \in Nat : p = Power(base, e) /\ Power(base, n - k) = base * p
    <3>1. base \in Nat
      OBVIOUS
    <3>2. Power(base, e) \in Nat /\ Power(base, e + 1) = base * Power(base, e)
      BY <3>1, PowerFacts
    <3>3. QED
      BY <2>7, <3>2
  <2>9. sum[l] = sum[k] + d * p
    BY <1>1, <1>7, <2>2, <2>5, <2>7, <2>8 DEF Places
  <2>10. x * (base * p) + d * p = (x * base + d) * p
    OBVIOUS
  <2>11. sum[l] = y * p
    BY <2>3, <2>4, <2>6, <2>8, <2>9, <2>10, Zenon
  <2>12. QED
    BY <2>2, <2>4, <2>7, <2>8, <2>11
<1>10. P \in SUBSET Nat
  OBVIOUS
<1> HIDE DEF P
<1>11. n \in P
  BY <1>8, <1>9, <1>10, NatInd
<1>12. sum[n] = m
  <2>1. sum[n] = h[n] * Power(base, n - n) /\ h[n] = m
    BY <1>1, <1>6, <1>11 DEF P, Horner
  <2>2. n - n = 0 /\ base \in Nat /\ m * 1 = m
    OBVIOUS
  <2>3. Power(base, 0) = 1
    BY <2>2, PowerFacts
  <2>4. QED
    BY <2>1, <2>2, <2>3, Zenon
<1>13. Value(w, base) = (IF neg THEN -1 ELSE 1) * m
  BY <1>5, <1>7, <1>12, Zenon DEF Sign
<1>14. Shortest(w, base)
  <2>1. DOMAIN D = 1 .. n
    BY <1>1, <1>2
  <2>2. ASSUME NEW i \in 1 .. n PROVE DigitOf(D[i]) < base
    <3>1. PICK d \in 0 .. base - 1 : DigitOf(D[i]) = d
      BY <1>3
    <3>2. QED
      BY <3>1
  <2>3. ASSUME D[1] = "0" PROVE w = <<"0">>
    <3>1. D = <<"0">>
      BY <2>3 DEF Spells
    <3>2. D[1] = Figures[0 + 1] /\ 0 \in 0 .. 35
      BY <2>3 DEF Figures
    <3>3. DigitOf(D[1]) = 0
      BY <3>2, DigitOfFigure, Zenon
    <3>4. n = 1
      BY <1>1, <3>1
    <3>5. m = 0
      <4>1. h[1] = h[0] * base + DigitOf(D[1]) /\ h[0] = 0 /\ h[1] = m
        <5>1. 1 \in 1 .. 1 /\ 1 - 1 = 0
          OBVIOUS
        <5>2. QED
          BY <1>1, <1>6, <3>4, <5>1 DEF Horner
      <4>2. QED
        BY <3>3, <4>1
    <3>6. w = D
      BY <1>2, <3>5
    <3>7. QED
      BY <3>1, <3>6
  <2>4. QED
    BY <1>5, <2>1, <2>2, <2>3, Zenon DEF Shortest
<1>15. ASSUME base = 10 PROVE Numeral(w)
  <2>1. DOMAIN D = 1 .. n
    BY <1>1, <1>2
  <2>2. ASSUME NEW i \in 1 .. n PROVE IsDigit(D[i])
    <3>1. PICK d \in 0 .. base - 1 : D[i] = Figures[d + 1]
      BY <1>3
    <3>2. d \in 0 .. 9
      BY <1>15
    <3>3. QED
      BY <3>1, <3>2, DigitFacts, Zenon
  <2>3. QED
    BY <1>2, <1>5, <2>1, <2>2, Zenon DEF Numeral
<1>16. QED
  BY <1>13, <1>14, <1>15

(* What itoa writes.                                                       *)
LEMMA ItoaSpells ==
  ASSUME NEW v \in Ints, NEW base \in 2 .. 36
  PROVE  Value(Itoa(v, base), base) = v /\ Shortest(Itoa(v, base), base)
<1>1. PICK D : D = DigitsOf(v, base)
  OBVIOUS
<1>2. v \in Int /\ Magnitude(v) \in Nat
  BY IntFacts, NoMagnitude DEF HalfSize
<1>3. PICK m \in Nat : m = Magnitude(v)
  BY <1>2
<1>4. Spells(D, m, base)
  BY <1>1, <1>3, DigitsSpell
<1>5. PICK neg \in BOOLEAN : neg <=> v < 0
  OBVIOUS
<1>6. Itoa(v, base) = (IF neg THEN <<"-">> ELSE <<>>) \o D
  BY <1>1, <1>5 DEF Itoa
<1>7. neg => m # 0
  BY <1>2, <1>3, <1>5 DEF Magnitude
<1>8. (IF neg THEN -1 ELSE 1) * m = v
  BY <1>2, <1>3, <1>5 DEF Magnitude
<1>9. PICK w : w = Itoa(v, base)
  OBVIOUS
<1>10. Value(w, base) = (IF neg THEN -1 ELSE 1) * m /\ Shortest(w, base)
  <2>1. w = (IF neg THEN <<"-">> ELSE <<>>) \o D
    BY <1>6, <1>9
  <2>2. QED
    BY <1>4, <1>7, <2>1, SpelledValue
<1>11. QED
  BY <1>8, <1>9, <1>10, Zenon

(* atoi and itoa, of every word of a line.                                 *)
THEOREM ReadBackExactly == LSpec => []NumbersReadBack
<1>1. ASSUME RingInv, session \in DOMAIN Sessions, WordsExact, Answered
      PROVE  NumbersReadBack
  <2>1. SUFFICES ASSUME Entered, NEW k \in DOMAIN Words, Numeral(Words[k]), Value(Words[k], 10) \in Ints
                 PROVE  /\ Atoi(Words[k]) = Value(Words[k], 10)
                        /\ \A base \in Bases :
                             LET w == Itoa(Atoi(Words[k]), base)
                             IN  Value(w, base) = Value(Words[k], 10) /\ Shortest(w, base)
    BY Zenon DEF NumbersReadBack
  <2>2. Words \in Seq(Seq(STRING))
    BY <1>1, <2>1, LastWords
  <2>3. Words[k] \in Seq(STRING)
    BY <2>1, <2>2
  <2>4. Atoi(Words[k]) = Value(Words[k], 10)
    BY <2>1, <2>3, AtoiValue
  <2>5. ASSUME NEW base \in Bases
        PROVE  LET w == Itoa(Atoi(Words[k]), base)
               IN  Value(w, base) = Value(Words[k], 10) /\ Shortest(w, base)
    <3>1. base \in 2 .. 36
      BY CommandLineAssumption, Zenon
    <3>2. PICK v \in Ints : v = Value(Words[k], 10)
      BY <2>1
    <3>3. Value(Itoa(v, base), base) = v /\ Shortest(Itoa(v, base), base)
      BY <3>1, ItoaSpells
    <3>4. QED
      BY <2>4, <3>2, <3>3, Zenon
  <2>6. QED
    BY <2>4, <2>5, Zenon
<1>2. QED
  BY <1>1, RingKept, UserKept, WordsFound, AnswerKept, PTL

-----------------------------------------------------------------------------
(* A smaller number has no more digits.                                    *)
LEMMA Shrinks ==
  ASSUME NEW b \in Nat \ {0}, NEW x \in Nat, NEW y \in Nat, NEW k \in Nat, NEW l \in Nat,
         NEW d \in 0 .. b - 1, NEW e \in 0 .. b - 1, x = k * b + d, y = l * b + e, x <= y
  PROVE  k <= l
<1>1. SUFFICES ASSUME k >= l + 1 PROVE FALSE
  OBVIOUS
<1>2. PICK c \in Nat : k = l + 1 + c
  <2>1. k - (l + 1) \in Nat /\ k = l + 1 + (k - (l + 1))
    BY <1>1
  <2>2. QED
    BY <2>1
<1>3. k * b = l * b + b + c * b /\ c * b >= 0
  BY <1>2
<1>4. PICK p \in Nat, q \in Nat : p = l * b /\ q = c * b
  OBVIOUS
<1>5. x = p + b + q + d /\ y = p + e
  BY <1>3, <1>4
<1>6. QED
  BY <1>5

(* What a division takes off the magnitude of what is left.                *)
Falls(a, b, c, base) == a \in Nat /\ b \in Nat /\ c \in 0 .. base - 1 /\ a = b * base + c

LEMMA LeftFalls ==
  ASSUME NEW v, NEW base \in Nat \ {0}, NEW left, Left(left, v, base),
         NEW j \in Nat, NEW k, k = j + 1, k <= IntBits
  PROVE  Falls(Magnitude(left[j]), Magnitude(left[k]), Magnitude(Rem(left[j], base)), base)
BY LeftStep DEF Falls

LEMMA FewerDigits ==
  ASSUME NEW u \in Ints, NEW v \in Ints, NEW base \in 2 .. 36, Magnitude(u) <= Magnitude(v)
  PROVE  Len(DigitsOf(u, base)) <= Len(DigitsOf(v, base))
<1>1. PICK x, m : Left(x, u, base) /\ Stops(x, m) /\ DigitsOf(u, base) = Figured(x, m, base)
  BY DigitsDef
<1>2. PICK y, n : Left(y, v, base) /\ Stops(y, n) /\ DigitsOf(v, base) = Figured(y, n, base)
  BY DigitsDef
<1>3. m \in Nat /\ n \in Nat /\ m <= IntBits /\ n <= IntBits /\ base \in Nat \ {0}
  BY <1>1, <1>2, LimitNat DEF Stops
<1> DEFINE P == { k \in Nat : k <= IntBits => Magnitude(x[k]) <= Magnitude(y[k]) }
<1>4. 0 \in P
  <2>1. x[0] = u /\ y[0] = v
    BY <1>1, <1>2 DEF Left
  <2>2. QED
    BY <2>1
<1>5. ASSUME NEW k \in P PROVE k + 1 \in P
  <2>1. SUFFICES ASSUME k + 1 <= IntBits PROVE Magnitude(x[k + 1]) <= Magnitude(y[k + 1])
    OBVIOUS
  <2>2. PICK l \in Nat : l = k + 1
    OBVIOUS
  <2>3. Magnitude(x[k]) <= Magnitude(y[k]) /\ k \in Nat
    BY <2>1, LimitNat
  <2>4. PICK a \in Nat, b \in Nat, c \in 0 .. base - 1 :
          a = Magnitude(x[k]) /\ b = Magnitude(x[l]) /\ a = b * base + c
    <3>1. Falls(Magnitude(x[k]), Magnitude(x[l]), Magnitude(Rem(x[k], base)), base)
      <4>1. base \in Nat \ {0} /\ k \in Nat /\ l = k + 1 /\ l <= IntBits
        BY <1>3, <2>1, <2>2, <2>3
      <4>2. Left(x, u, base)
        BY <1>1
      <4>3. QED
        BY <4>1, <4>2, LeftFalls
    <3>2. QED
      BY <3>1 DEF Falls
  <2>5. PICK p \in Nat, q \in Nat, r \in 0 .. base - 1 :
          p = Magnitude(y[k]) /\ q = Magnitude(y[l]) /\ p = q * base + r
    <3>1. Falls(Magnitude(y[k]), Magnitude(y[l]), Magnitude(Rem(y[k], base)), base)
      <4>1. base \in Nat \ {0} /\ k \in Nat /\ l = k + 1 /\ l <= IntBits
        BY <1>3, <2>1, <2>2, <2>3
      <4>2. Left(y, v, base)
        BY <1>2
      <4>3. QED
        BY <4>1, <4>2, LeftFalls
    <3>2. QED
      BY <3>1 DEF Falls
  <2>6. b <= q
    <3>1. a <= p
      BY <2>3, <2>4, <2>5
    <3>2. QED
      BY <1>3, <2>4, <2>5, <3>1, Shrinks
  <2>7. QED
    BY <2>2, <2>4, <2>5, <2>6
<1>6. P \in SUBSET Nat
  OBVIOUS
<1> HIDE DEF P
<1>7. n \in P
  BY <1>3, <1>4, <1>5, <1>6, NatInd
<1>8. x[n] = 0
  <2>1. y[n] = 0 /\ n \in 0 .. IntBits
    BY <1>2, <1>3, LimitNat DEF Stops
  <2>2. x[n] \in Int
    BY <1>1, <2>1 DEF Left
  <2>3. Magnitude(x[n]) <= 0
    <3>1. Magnitude(0) = 0
      BY DEF Magnitude
    <3>2. QED
      BY <1>3, <1>7, <2>1, <3>1 DEF P
  <2>4. QED
    BY <2>2, <2>3 DEF Magnitude
<1>9. m <= n
  BY <1>1, <1>2, <1>8 DEF Stops
<1>10. Len(DigitsOf(u, base)) = m /\ Len(DigitsOf(v, base)) = n
  <2>1. Len(Figured(x, m, base)) = m
    BY <1>3 DEF Figured
  <2>2. Len(Figured(y, n, base)) = n
    BY <1>3 DEF Figured
  <2>3. QED
    BY <1>1, <1>2, <2>1, <2>2, Zenon
<1>11. QED
  BY <1>9, <1>10

(* What %d writes of a number, the least int aside: its numeral, which is  *)
(* no longer than that of the least int.                                   *)
Numerals == Glyphs \cup {"-"}

Shown(w, n) == Numeral(w) /\ Shortest(w, 10) /\ Value(w, 10) = n

LEMMA DecimalShown ==
  ASSUME NEW n \in Ints \ {LeastInt}
  PROVE  \E w \in Seq(Numerals) :
           /\ Converted("d", Number(n)) = w /\ Shown(w, n)
           /\ Len(w) \in Nat \ {0} /\ Len(w) <= Len(Itoa(LeastInt, 10))
           /\ Len(Itoa(LeastInt, 10)) \in Nat
<1>1. PICK h : HalfSize(h)
  BY IntFacts
<1>2. n \in -h .. h - 1 /\ n # -h /\ h \in Nat \ {0} /\ LeastInt = -h /\ Ints = -h .. h - 1
  BY <1>1 DEF HalfSize
<1>3. PICK m \in Nat : m = Magnitude(n) /\ m < h /\ (n < 0 => n = -m) /\ (~(n < 0) => n = m)
  BY <1>2 DEF Magnitude
<1>4. m \in Ints /\ LeastInt \in Ints /\ Magnitude(m) = m /\ Magnitude(LeastInt) = h
  BY <1>2, <1>3 DEF Magnitude
<1>5. PICK D : D = DigitsOf(m, 10)
  OBVIOUS
<1>6. PICK L : L = DigitsOf(LeastInt, 10)
  OBVIOUS
<1>7. 10 \in 2 .. 36
  OBVIOUS
<1>8. Spells(D, m, 10) /\ Spells(L, h, 10)
  <2>1. Spells(DigitsOf(m, 10), Magnitude(m), 10)
    BY <1>4, <1>7, DigitsSpell
  <2>2. Spells(DigitsOf(LeastInt, 10), Magnitude(LeastInt), 10)
    BY <1>4, <1>7, DigitsSpell
  <2>3. QED
    BY <1>4, <1>5, <1>6, <2>1, <2>2
<1>9. Len(D) <= Len(L)
  BY <1>2, <1>3, <1>4, <1>5, <1>6, <1>7, FewerDigits
<1>10. D \in Seq(Numerals) /\ L \in Seq(Numerals) /\ Len(D) \in Nat \ {0} /\ Len(L) \in Nat \ {0}
  <2>1. D \in Seq(Glyphs) /\ L \in Seq(Glyphs) /\ Len(D) \in Nat \ {0} /\ Len(L) \in Nat \ {0}
    BY <1>8 DEF Spells
  <2>2. Seq(Glyphs) \subseteq Seq(Numerals)
    <3>1. Glyphs \subseteq Numerals
      BY DEF Numerals
    <3>2. QED
      BY <3>1, SeqMonotonic
  <2>3. QED
    BY <2>1, <2>2
<1>11. PICK s : s = <<"-">> /\ s \in Seq(Numerals) /\ Len(s) = 1
  <2>1. "-" \in Numerals
    BY DEF Numerals
  <2>2. QED
    BY <2>1, Single
<1>12. s \o L \in Seq(Numerals) /\ Len(s \o L) = 1 + Len(L)
  BY <1>10, <1>11, ConcatProperties
<1>13. Itoa(LeastInt, 10) = s \o L
  <2>1. LeastInt < 0
    BY <1>2
  <2>2. QED
    BY <1>6, <1>7, <1>11, <2>1, Zenon DEF Itoa
<1>14. PICK neg \in BOOLEAN : neg <=> n < 0
  OBVIOUS
<1>15. PICK w : w = (IF neg THEN <<"-">> ELSE <<>>) \o D
  OBVIOUS
<1>16. Converted("d", Number(n)) = w
  <2>1. PICK arg : arg = Number(n)
    OBVIOUS
  <2>2. "number" \in DOMAIN arg /\ arg.number = n
    BY <2>1 DEF Number
  <2>3. n # LeastInt
    OBVIOUS
  <2>4. Converted("d", arg) = (IF n < 0 THEN <<"-">> ELSE <<>>) \o DigitsOf(Magnitude(n), 10)
    BY <2>2, <2>3 DEF Converted
  <2>5. QED
    BY <1>3, <1>5, <1>14, <1>15, <2>1, <2>4
<1>17. Shown(w, n)
  <2>1. neg => m # 0
    BY <1>3, <1>14
  <2>2. /\ Value(w, 10) = (IF neg THEN -1 ELSE 1) * m
        /\ Shortest(w, 10)
        /\ Numeral(w)
    <3>1. PICK base \in 2 .. 36 : base = 10
      BY <1>7
    <3>2. Spells(D, m, base)
      BY <1>8, <3>1
    <3>3. /\ Value(w, base) = (IF neg THEN -1 ELSE 1) * m
          /\ Shortest(w, base)
          /\ base = 10 => Numeral(w)
      BY <1>15, <2>1, <3>2, SpelledValue
    <3>4. QED
      BY <3>1, <3>3
  <2>3. (IF neg THEN -1 ELSE 1) * m = n
    BY <1>3, <1>14
  <2>4. QED
    BY <2>2, <2>3, Zenon DEF Shown
<1>18. w \in Seq(Numerals) /\ Len(w) \in Nat \ {0} /\ Len(w) <= 1 + Len(L)
  <2>1. CASE neg
    <3>1. w = s \o D
      BY <1>11, <1>15, <2>1
    <3>2. s \o D \in Seq(Numerals) /\ Len(s \o D) = 1 + Len(D)
      BY <1>10, <1>11, ConcatProperties
    <3>3. QED
      BY <1>9, <1>10, <3>1, <3>2
  <2>2. CASE ~neg
    <3>1. w = D
      BY <1>10, <1>15, <2>2
    <3>2. QED
      BY <1>9, <1>10, <3>1
  <2>3. QED
    BY <2>1, <2>2
<1>19. Len(Itoa(LeastInt, 10)) = 1 + Len(L)
  BY <1>12, <1>13, Zenon
<1>20. QED
  BY <1>10, <1>16, <1>17, <1>18, <1>19

(* cmd_calc's division is the one that CalcRight speaks of, and no other.  *)
LEMMA MagnitudeTimes ==
  ASSUME NEW k \in Nat, NEW b \in Int, NEW q \in {k, -k}
  PROVE  Magnitude(q * b) = k * Magnitude(b)
<1>1. PICK y \in Nat : y = Magnitude(b) /\ (b = y \/ b = -y)
  BY DEF Magnitude
<1>2. k * y \in Nat /\ k * (-y) = -(k * y) /\ (-k) * y = -(k * y) /\ (-k) * (-y) = k * y
  OBVIOUS
<1>3. PICK p \in Nat : p = k * y
  BY <1>2
<1>4. q * b = p \/ q * b = -p
  BY <1>1, <1>2, <1>3
<1>5. Magnitude(p) = p /\ Magnitude(-p) = p
  BY DEF Magnitude
<1>6. QED
  BY <1>1, <1>3, <1>4, <1>5

LEMMA OneQuotient ==
  ASSUME NEW x \in Nat, NEW y \in Nat \ {0}, NEW k \in Nat, NEW l \in Nat,
         k * y <= x, x < k * y + y, l * y <= x, x < l * y + y
  PROVE  k = l
<1>1. PICK d \in 0 .. y - 1, e \in 0 .. y - 1 : x = k * y + d /\ x = l * y + e
  <2>1. PICK p \in Nat, q \in Nat : p = k * y /\ q = l * y
    OBVIOUS
  <2>2. x - p \in 0 .. y - 1 /\ x = p + (x - p) /\ x - q \in 0 .. y - 1 /\ x = q + (x - q)
    BY <2>1
  <2>3. QED
    BY <2>1, <2>2
<1>2. k <= l
  BY <1>1, Shrinks
<1>3. l <= k
  BY <1>1, Shrinks
<1>4. QED
  BY <1>2, <1>3

Divides(q, a, b) ==
  /\ Magnitude(q * b) <= Magnitude(a) /\ Magnitude(a) < Magnitude(q * b) + Magnitude(b)
  /\ q * b * a >= 0

(* The sign of a product of three, the middle two of them known by size.   *)
LEMMA SignOfThree ==
  ASSUME NEW k \in Nat, NEW x \in Nat, NEW y \in Nat, NEW a \in {x, -x}, NEW b \in {y, -y}, NEW q \in {k, -k},
         y # 0, x # 0, k # 0
  PROVE  q * b * a >= 0 <=> ((a < 0) = (b < 0) <=> q > 0)
<1>1. PICK p \in Nat : p = k * y /\ p # 0
  <2>1. k * y \in Nat /\ k * y # 0
    OBVIOUS
  <2>2. QED
    BY <2>1
<1>2. PICK r \in Nat : r = p * x /\ r # 0
  <2>1. p * x \in Nat /\ p * x # 0
    BY <1>1
  <2>2. QED
    BY <2>1
<1>3. /\ k * y = p /\ k * (-y) = -p /\ (-k) * y = -p /\ (-k) * (-y) = p
      /\ p * x = r /\ p * (-x) = -r /\ (-p) * x = -r /\ (-p) * (-x) = r
  BY <1>1, <1>2
<1>4. PICK s : s = q * b
  OBVIOUS
<1>5. /\ q = k /\ b = y => s = p
      /\ q = k /\ b = -y => s = -p
      /\ q = -k /\ b = y => s = -p
      /\ q = -k /\ b = -y => s = p
  BY <1>3, <1>4
<1>6. /\ s = p /\ a = x => s * a = r
      /\ s = p /\ a = -x => s * a = -r
      /\ s = -p /\ a = x => s * a = -r
      /\ s = -p /\ a = -x => s * a = r
  BY <1>3
<1>7. PICK z : z = s * a
  OBVIOUS
<1>8. (a = x \/ a = -x) /\ (b = y \/ b = -y) /\ (q = k \/ q = -k)
  OBVIOUS
<1>9. z >= 0 <=> ((a < 0) = (b < 0) <=> q > 0)
  BY <1>2, <1>5, <1>6, <1>7, <1>8
<1>10. QED
  BY <1>4, <1>7, <1>9

LEMMA QuotDivides ==
  ASSUME NEW a \in Ints \ {LeastInt}, NEW b \in Int \ {0}
  PROVE  /\ Quot(a, b) \in Ints \ {LeastInt} /\ Divides(Quot(a, b), a, b)
         /\ \A q \in Ints : Divides(q, a, b) => q = Quot(a, b)
<1>1. PICK h : HalfSize(h)
  BY IntFacts
<1>2. a \in -h .. h - 1 /\ a # -h /\ h \in Nat \ {0} /\ LeastInt = -h /\ Ints = -h .. h - 1
  BY <1>1 DEF HalfSize
<1>3. PICK x \in Nat : x = Magnitude(a) /\ x < h /\ (a = x \/ a = -x)
  BY <1>2 DEF Magnitude
<1>4. PICK y \in Nat \ {0} : y = Magnitude(b) /\ (b = y \/ b = -y)
  BY DEF Magnitude
<1>5. PICK k \in Nat : k = x \div y /\ k * y <= x /\ x < k * y + y
  <2>1. x \div y \in Nat /\ x % y \in 0 .. y - 1 /\ x = y * (x \div y) + (x % y)
    OBVIOUS
  <2>2. PICK k \in Nat, d \in 0 .. y - 1 : k = x \div y /\ d = x % y /\ x = y * k + d
    BY <2>1
  <2>3. y * k = k * y
    OBVIOUS
  <2>4. QED
    BY <2>2, <2>3
<1>6. PICK q : q = Quot(a, b)
  OBVIOUS
<1>7. q = IF (a < 0) = (b < 0) THEN k ELSE -k
  BY <1>3, <1>4, <1>5, <1>6 DEF Quot
<1>8. q \in {k, -k}
  BY <1>7
<1>9. k <= x
  <2>1. k * y >= k
    OBVIOUS
  <2>2. QED
    BY <1>5, <2>1
<1>10. q \in Ints \ {LeastInt}
  BY <1>2, <1>3, <1>8, <1>9
<1>11. Magnitude(q * b) = k * y
  BY <1>4, <1>8, MagnitudeTimes
<1>12. k # 0 => x # 0
  BY <1>9
<1>13. a \in {x, -x} /\ b \in {y, -y} /\ y \in Nat /\ y # 0
  BY <1>3, <1>4
<1>14. q * b * a >= 0
  <2>1. CASE k = 0
    <3>1. q = 0 /\ a \in Int
      BY <1>2, <1>8, <2>1
    <3>2. 0 * b = 0 /\ 0 * a = 0
      BY <3>1
    <3>3. QED
      BY <3>1, <3>2
  <2>2. CASE k # 0
    <3>1. q * b * a >= 0 <=> ((a < 0) = (b < 0) <=> q > 0)
      BY <1>8, <1>12, <1>13, <2>2, SignOfThree
    <3>2. (a < 0) = (b < 0) <=> q > 0
      BY <1>7, <2>2
    <3>3. QED
      BY <3>1, <3>2
  <2>3. QED
    BY <2>1, <2>2
<1>15. Divides(q, a, b)
  <2>1. PICK p \in Nat : p = k * y
    OBVIOUS
  <2>2. Magnitude(q * b) = p /\ p <= x /\ x < p + y
    BY <1>5, <1>11, <2>1
  <2>3. QED
    BY <1>3, <1>4, <1>14, <2>2 DEF Divides
<1>16. ASSUME NEW r \in Ints, Divides(r, a, b) PROVE r = q
  <2>1. PICK l \in Nat : r \in {l, -l}
    <3>1. r \in Int
      BY <1>2
    <3>2. Magnitude(r) \in Nat /\ r \in {Magnitude(r), -Magnitude(r)}
      BY <3>1 DEF Magnitude
    <3>3. QED
      BY <3>2
  <2>2. Magnitude(r * b) = l * y
    BY <1>4, <2>1, MagnitudeTimes
  <2>3. l * y <= x /\ x < l * y + y /\ r * b * a >= 0
    BY <1>3, <1>4, <1>16, <2>2 DEF Divides
  <2>4. k = l
    BY <1>5, <2>3, OneQuotient
  <2>5. CASE k = 0
    BY <1>8, <2>1, <2>4, <2>5
  <2>6. CASE k # 0
    <3>1. r * b * a >= 0 <=> ((a < 0) = (b < 0) <=> r > 0)
      BY <1>12, <1>13, <2>1, <2>4, <2>6, SignOfThree
    <3>2. (a < 0) = (b < 0) <=> r > 0
      BY <2>3, <3>1
    <3>3. QED
      BY <1>7, <2>1, <2>4, <2>6, <3>2
  <2>7. QED
    BY <2>5, <2>6
<1>17. QED
  BY <1>6, <1>10, <1>15, <1>16

(* What calc computes is exact whenever the exact result is an int.        *)
LEMMA CalculatedExact ==
  ASSUME NEW a \in Ints \ {LeastInt}, NEW b \in Ints \ {LeastInt}, NEW op \in {"+", "-", "*", "/"},
         ~(op = "/" /\ b = 0), Exact(a, op, b) \in Ints \ {LeastInt}
  PROVE  Calculated(a, op, b) = Exact(a, op, b)
<1>1. a \in Int /\ b \in Int
  BY IntFacts DEF HalfSize
<1>2. CASE op = "+"
  <2>1. Exact(a, op, b) = a + b /\ Calculated(a, op, b) = Wrap(a + b)
    BY <1>2 DEF Exact, Calculated
  <2>2. PICK x \in Ints : x = a + b
    BY <2>1
  <2>3. Wrap(x) = x
    BY WrapKeeps
  <2>4. QED
    BY <2>1, <2>2, <2>3
<1>3. CASE op = "-"
  <2>1. Exact(a, op, b) = a - b /\ Calculated(a, op, b) = Wrap(a - b)
    BY <1>3 DEF Exact, Calculated
  <2>2. PICK x \in Ints : x = a - b
    BY <2>1
  <2>3. Wrap(x) = x
    BY WrapKeeps
  <2>4. QED
    BY <2>1, <2>2, <2>3
<1>4. CASE op = "*"
  <2>1. Exact(a, op, b) = a * b /\ Calculated(a, op, b) = Wrap(a * b)
    BY <1>4 DEF Exact, Calculated
  <2>2. PICK x \in Ints : x = a * b
    BY <2>1
  <2>3. Wrap(x) = x
    BY WrapKeeps
  <2>4. QED
    BY <2>1, <2>2, <2>3
<1>5. CASE op = "/"
  <2>1. b \in Int \ {0}
    BY <1>1, <1>5
  <2>2. Calculated(a, op, b) = Quot(a, b)
    BY <1>5 DEF Calculated
  <2>3. Exact(a, op, b) = CHOOSE q \in Ints : Divides(q, a, b)
    <3>1. Exact(a, op, b) = CHOOSE q \in Ints :
                              /\ Magnitude(q * b) <= Magnitude(a) /\ Magnitude(a) < Magnitude(q * b) + Magnitude(b)
                              /\ q * b * a >= 0
      BY <1>5 DEF Exact
    <3>2. QED
      BY <3>1, Zenon DEF Divides
  <2>4. Quot(a, b) \in Ints /\ Divides(Quot(a, b), a, b) /\ \A q \in Ints : Divides(q, a, b) => q = Quot(a, b)
    BY <2>1, QuotDivides
  <2>5. QED
    BY <2>2, <2>3, <2>4, Zenon
<1>6. QED
  BY <1>2, <1>3, <1>4, <1>5

(* What calc prints, turn by turn: each argument fits.                     *)
LEMMA Whole ==
  ASSUME NEW C, NEW w \in Seq(C), Len(w) <= Limit
  PROVE  UpTo(Limit, w) = w
<1>1. PICK v : v = UpTo(Limit, w)
  OBVIOUS
<1>2. PICK m \in Nat : m = Len(w)
  OBVIOUS
<1>3. v = SubSeq(w, 1, m)
  <2>1. (IF Limit < Len(w) THEN Limit ELSE Len(w)) = m
    BY <1>2, LimitNat
  <2>2. QED
    BY <1>1, <2>1 DEF UpTo
<1>4. v \in Seq(C) /\ Len(v) = m /\ \A i \in 1 .. m : v[i] = w[i]
  <2>1. 1 \in Int /\ m \in Int /\ \A i \in 1 .. m : w[i] \in C
    BY <1>2, ElementOfSeq
  <2>2. v \in Seq(C) /\ Len(v) = IF 1 <= m THEN m - 1 + 1 ELSE 0
    BY <1>3, <2>1, SubSeqProperties
  <2>3. Len(v) = m
    BY <2>2
  <2>4. \A i \in 1 .. m : v[i] = w[i]
    BY <1>2, <1>3, <2>3
  <2>5. QED
    BY <2>2, <2>3, <2>4
<1>5. v = w
  BY <1>2, <1>4, SeqEqual
<1>6. QED
  BY <1>1, <1>5

(* Where printf stands: what it has written, and the arguments to come.    *)
Stands(C, st, x, a, n) == st = At(x, a, FALSE) /\ x \in Seq(C) /\ Len(x) = n /\ n \in Nat

Directive(st, ch, r) == ch \in {"c", "s", "d"} /\ r = Turn(Turn(st, "%"), ch)
Plainly(st, ch, r)   == ch # "%" /\ r = Turn(st, ch)

LEMMA Convert ==
  ASSUME NEW C, NEW st, NEW x, NEW a, NEW n, Stands(C, st, x, a, n),
         NEW ch, NEW r, Directive(st, ch, r),
         NEW w \in Seq(C), Converted(ch, Head(a)) = w, n + Len(w) <= Limit, n < Limit
  PROVE  Stands(C, r, x \o w, Tail(a), n + Len(w))
<1>0. st = At(x, a, FALSE)
  BY Zenon DEF Stands
<1>1. x \in Seq(C) /\ Len(x) = n /\ n \in Nat
  BY Zenon DEF Stands
<1>2. PICK y : y = x \o w
  OBVIOUS
<1>3. ch \in {"c", "s", "d"} /\ r = Turn(Turn(st, "%"), ch)
  BY Zenon DEF Directive
<1>4. Turn(At(x, a, FALSE), "%") = At(x, a, TRUE)
  BY <1>1, TurnOpens
<1>5. Turn(At(x, a, TRUE), ch) = At(UpTo(Limit, x \o Converted(ch, Head(a))), Tail(a), FALSE)
  BY <1>3, TurnConverts
<1>6. y \in Seq(C) /\ Len(y) = n + Len(w) /\ Len(w) \in Nat
  BY <1>1, <1>2, ConcatProperties
<1>7. UpTo(Limit, y) = y
  BY <1>6, Whole
<1>8. r = At(y, Tail(a), FALSE)
  BY <1>0, <1>2, <1>3, <1>4, <1>5, <1>7, Zenon
<1>9. n + Len(w) \in Nat
  BY <1>1, <1>6
<1>10. QED
  BY <1>2, <1>6, <1>8, <1>9, Zenon DEF Stands

LEMMA Copy ==
  ASSUME NEW C, NEW st, NEW x, NEW a, NEW n, Stands(C, st, x, a, n),
         NEW ch \in C, NEW r, Plainly(st, ch, r), n < Limit
  PROVE  Stands(C, r, x \o <<ch>>, a, n + 1)
<1>0. st = At(x, a, FALSE)
  BY Zenon DEF Stands
<1>1. x \in Seq(C) /\ Len(x) = n /\ n \in Nat
  BY Zenon DEF Stands
<1>2. ch # "%" /\ r = Turn(st, ch)
  BY Zenon DEF Plainly
<1>3. Turn(At(x, a, FALSE), ch) = At(Append(x, ch), a, FALSE)
  BY <1>1, <1>2, TurnCopies
<1>4. PICK s : s = <<ch>>
  OBVIOUS
<1>5. s \in Seq(C) /\ Len(s) = 1 /\ s[1] = ch
  BY <1>4, Single
<1>6. /\ x \o s \in Seq(C) /\ Len(x \o s) = n + 1
      /\ \A i \in 1 .. n + 1 : (x \o s)[i] = IF i <= n THEN x[i] ELSE s[i - n]
  <2>1. x \in Seq(C) /\ s \in Seq(C)
    BY <1>1, <1>5
  <2>2. /\ x \o s \in Seq(C) /\ Len(x \o s) = Len(x) + Len(s)
        /\ \A i \in 1 .. Len(x) + Len(s) : (x \o s)[i] = IF i <= Len(x) THEN x[i] ELSE s[i - Len(x)]
    BY <2>1, ConcatProperties
  <2>3. QED
    BY <1>1, <1>5, <2>2
<1>7. PICK z : z = Append(x, ch)
  OBVIOUS
<1>8. z \in Seq(C) /\ Len(z) = n + 1 /\ \A i \in 1 .. n + 1 : z[i] = IF i <= n THEN x[i] ELSE ch
  BY <1>1, <1>7
<1>9. PICK y : y = x \o s
  OBVIOUS
<1>10. \A i \in 1 .. n + 1 : z[i] = y[i]
  <2>1. ASSUME NEW i \in 1 .. n + 1 PROVE z[i] = y[i]
    <3>1. CASE i <= n
      BY <1>6, <1>8, <1>9, <3>1
    <3>2. CASE i = n + 1
      <4>1. i - n = 1 /\ ~(i <= n)
        BY <1>1, <3>2
      <4>2. y[i] = s[1]
        BY <1>6, <1>9, <4>1
      <4>3. QED
        BY <1>5, <1>8, <4>1, <4>2
    <3>3. QED
      BY <1>1, <3>1, <3>2
  <2>2. QED
    BY <2>1
<1>11. z = y
  BY <1>6, <1>8, <1>9, <1>10, SeqEqual
<1>12. n + 1 \in Nat
  BY <1>1
<1>13. QED
  BY <1>0, <1>2, <1>3, <1>4, <1>6, <1>7, <1>9, <1>11, <1>12, Zenon DEF Stands

(* The answer that is put together, piece by piece from the left.          *)
Sum(x, y, z, op) ==
  ((((((((x \o <<" ">>) \o <<op>>) \o <<" ">>) \o y) \o <<" ">>) \o <<"=">>) \o <<" ">>) \o z) \o <<"NL">>

(* The turns of the loop over calc's format.                               *)
Format == <<"%", "d", " ", "%", "c", " ", "%", "d", " ", "=", " ", "%", "d", "NL">>

CalcTurns(t) ==
  /\ Directive(t[0], "d", t[2]) /\ Plainly(t[2], " ", t[3]) /\ Directive(t[3], "c", t[5])
  /\ Plainly(t[5], " ", t[6]) /\ Directive(t[6], "d", t[8]) /\ Plainly(t[8], " ", t[9])
  /\ Plainly(t[9], "=", t[10]) /\ Plainly(t[10], " ", t[11]) /\ Directive(t[11], "d", t[13])
  /\ Plainly(t[13], "NL", t[14])

LEMMA FormatTurns ==
  ASSUME NEW a
  PROVE  \E t : t[0] = At(<<>>, a, FALSE) /\ Printf(Format, a) = t[14].text /\ CalcTurns(t)
<1>1. PICK f : f = Format
  OBVIOUS
<1>2. PICK pc, d, sp, c, eq, nl : pc = "%" /\ d = "d" /\ sp = " " /\ c = "c" /\ eq = "=" /\ nl = "NL"
  OBVIOUS
<1>3. f = <<pc, d, sp, pc, c, sp, pc, d, sp, eq, sp, pc, d, nl>>
  BY <1>1, <1>2, Zenon DEF Format
<1>4. /\ Len(f) = 14
      /\ f[1] = pc /\ f[2] = d /\ f[3] = sp /\ f[4] = pc /\ f[5] = c /\ f[6] = sp /\ f[7] = pc
      /\ f[8] = d /\ f[9] = sp /\ f[10] = eq /\ f[11] = sp /\ f[12] = pc /\ f[13] = d /\ f[14] = nl
  BY <1>3
<1>5. PICK t : PrintfTurns(t, f, a)
  <2>1. Len(f) \in Nat
    BY <1>4
  <2>2. QED
    BY <2>1, PrintfDef, Zenon
<1>6. \A k \in 1 .. Len(f) : t[k] = Turn(t[k - 1], f[k])
  BY <1>5, Zenon DEF PrintfTurns
<1>7. ASSUME NEW i \in 0 .. 13 PROVE t[i + 1] = Turn(t[i], f[i + 1])
  <2>1. PICK k : k = i + 1
    OBVIOUS
  <2>2. k \in 1 .. Len(f) /\ k - 1 = i
    BY <1>4, <2>1
  <2>3. t[k] = Turn(t[k - 1], f[k])
    BY <1>6, <2>2
  <2>4. QED
    BY <2>1, <2>2, <2>3, Zenon
<1>8. /\ t[1] = Turn(t[0], pc) /\ t[2] = Turn(t[1], d) /\ t[3] = Turn(t[2], sp)
      /\ t[4] = Turn(t[3], pc) /\ t[5] = Turn(t[4], c) /\ t[6] = Turn(t[5], sp)
      /\ t[7] = Turn(t[6], pc) /\ t[8] = Turn(t[7], d) /\ t[9] = Turn(t[8], sp)
      /\ t[10] = Turn(t[9], eq) /\ t[11] = Turn(t[10], sp)
      /\ t[12] = Turn(t[11], pc) /\ t[13] = Turn(t[12], d) /\ t[14] = Turn(t[13], nl)
  BY <1>4, <1>7
<1>9. /\ t[1] = Turn(t[0], "%") /\ t[2] = Turn(t[1], "d") /\ t[3] = Turn(t[2], " ")
      /\ t[4] = Turn(t[3], "%") /\ t[5] = Turn(t[4], "c") /\ t[6] = Turn(t[5], " ")
      /\ t[7] = Turn(t[6], "%") /\ t[8] = Turn(t[7], "d") /\ t[9] = Turn(t[8], " ")
      /\ t[10] = Turn(t[9], "=") /\ t[11] = Turn(t[10], " ")
      /\ t[12] = Turn(t[11], "%") /\ t[13] = Turn(t[12], "d") /\ t[14] = Turn(t[13], "NL")
  BY <1>2, <1>8, Zenon
<1>10. "d" \in {"c", "s", "d"} /\ "c" \in {"c", "s", "d"} /\ " " # "%" /\ "=" # "%" /\ "NL" # "%"
  OBVIOUS
<1>11. CalcTurns(t)
  BY <1>9, <1>10, Zenon DEF CalcTurns, Directive, Plainly
<1>12. t[0] = At(<<>>, a, FALSE)
  BY <1>5 DEF PrintfTurns, Fresh, At
<1>13. Printf(f, a) = t[14].text
  BY <1>4, <1>5, Zenon DEF PrintfTurns
<1>14. QED
  BY <1>1, <1>11, <1>12, <1>13, Zenon

Has(C, op) == op \in C /\ \A c \in {" ", "=", "NL"} : c \in C

LEMMA PrintfCalc ==
  ASSUME NEW C, NEW x \in Seq(C), NEW y \in Seq(C), NEW z \in Seq(C), NEW op, Has(C, op),
         Len(x) + Len(y) + Len(z) + 7 <= Limit,
         NEW n1, Converted("d", n1) = x, NEW n2, Converted("d", n2) = y, NEW n3, Converted("d", n3) = z
  PROVE  Printf(Format, <<n1, Character(op), n2, n3>>) = Sum(x, y, z, op)
<1>1. PICK o : o = Character(op)
  OBVIOUS
<1>2. PICK a0 : a0 = <<n1, o, n2, n3>>
  OBVIOUS
<1>3. PICK a1, a2, a3, a4 : a1 = Tail(a0) /\ a2 = Tail(a1) /\ a3 = Tail(a2) /\ a4 = Tail(a3)
  OBVIOUS
<1>4. Head(a0) = n1 /\ Head(a1) = o /\ Head(a2) = n2 /\ Head(a3) = n3
  BY <1>2, <1>3
<1>5. PICK t : t[0] = At(<<>>, a0, FALSE) /\ Printf(Format, a0) = t[14].text /\ CalcTurns(t)
  BY FormatTurns, Zenon
<1>6. PICK sp, eq, nl : sp = " " /\ eq = "=" /\ nl = "NL"
  OBVIOUS
<1>7. PICK d, c : d = "d" /\ c = "c"
  OBVIOUS
<1>8. sp \in C /\ eq \in C /\ nl \in C /\ op \in C
  BY <1>6, Zenon DEF Has
<1>9. /\ Directive(t[0], d, t[2]) /\ Plainly(t[2], sp, t[3]) /\ Directive(t[3], c, t[5])
      /\ Plainly(t[5], sp, t[6]) /\ Directive(t[6], d, t[8]) /\ Plainly(t[8], sp, t[9])
      /\ Plainly(t[9], eq, t[10]) /\ Plainly(t[10], sp, t[11]) /\ Directive(t[11], d, t[13])
      /\ Plainly(t[13], nl, t[14])
  BY <1>5, <1>6, <1>7, Zenon DEF CalcTurns
<1>10. PICK i \in Nat, j \in Nat, k \in Nat, m \in Nat :
         i = Len(x) /\ j = Len(y) /\ k = Len(z) /\ m = Limit /\ i + j + k + 7 <= m
  BY LimitNat
<1>11. PICK w : w = <<op>> /\ w \in Seq(C) /\ Len(w) = 1
  <2>1. op \in C
    BY <1>8
  <2>2. QED
    BY <2>1, Single
<1>12. Converted(c, Head(a1)) = w
  <2>1. "character" \in DOMAIN o /\ o.character = op
    BY <1>1 DEF Character
  <2>2. Converted("c", o) = <<o.character>>
    BY <2>1 DEF Converted
  <2>3. QED
    BY <1>4, <1>7, <1>11, <2>1, <2>2, Zenon
<1>13. Converted(d, Head(a0)) = x /\ Converted(d, Head(a2)) = y /\ Converted(d, Head(a3)) = z
  BY <1>4, <1>7, Zenon
<1>14. Stands(C, t[0], <<>>, a0, 0)
  <2>1. <<>> \in Seq(C) /\ Len(<<>>) = 0 /\ 0 \in Nat
    OBVIOUS
  <2>2. QED
    BY <1>5, <2>1, Zenon DEF Stands
<1>15. PICK x1 : x1 = <<>> \o x
  OBVIOUS
<1>16. Stands(C, t[2], x1, a1, i)
  <2>1. 0 + Len(x) <= Limit /\ 0 < Limit
    BY <1>10, <1>11
  <2>2. Stands(C, t[2], <<>> \o x, Tail(a0), 0 + Len(x))
    BY <1>9, <1>11, <1>12, <1>13, <1>14, <2>1, Convert
  <2>3. 0 + Len(x) = i
    BY <1>10, <1>11
  <2>4. QED
    BY <1>3, <1>15, <2>2, <2>3, Zenon
<1>17. PICK x2 : x2 = x1 \o <<sp>>
  OBVIOUS
<1>18. Stands(C, t[3], x2, a1, i + 1)
  <2>1. i < Limit
    BY <1>10
  <2>2. Stands(C, t[3], x1 \o <<sp>>, a1, (i) + 1)
    BY <1>8, <1>9, <1>16, <2>1, Copy
  <2>3. (i) + 1 = i + 1
    BY <1>10
  <2>4. QED
    BY <1>17, <2>2, <2>3, Zenon
<1>19. PICK x3 : x3 = x2 \o w
  OBVIOUS
<1>20. Stands(C, t[5], x3, a2, i + 2)
  <2>1. i + 1 + Len(w) <= Limit /\ i + 1 < Limit
    BY <1>10, <1>11
  <2>2. Stands(C, t[5], x2 \o w, Tail(a1), i + 1 + Len(w))
    BY <1>9, <1>11, <1>12, <1>13, <1>18, <2>1, Convert
  <2>3. i + 1 + Len(w) = i + 2
    BY <1>10, <1>11
  <2>4. QED
    BY <1>3, <1>19, <2>2, <2>3, Zenon
<1>21. PICK x4 : x4 = x3 \o <<sp>>
  OBVIOUS
<1>22. Stands(C, t[6], x4, a2, i + 3)
  <2>1. i + 2 < Limit
    BY <1>10
  <2>2. Stands(C, t[6], x3 \o <<sp>>, a2, (i + 2) + 1)
    BY <1>8, <1>9, <1>20, <2>1, Copy
  <2>3. (i + 2) + 1 = i + 3
    BY <1>10
  <2>4. QED
    BY <1>21, <2>2, <2>3, Zenon
<1>23. PICK x5 : x5 = x4 \o y
  OBVIOUS
<1>24. Stands(C, t[8], x5, a3, i + j + 3)
  <2>1. i + 3 + Len(y) <= Limit /\ i + 3 < Limit
    BY <1>10, <1>11
  <2>2. Stands(C, t[8], x4 \o y, Tail(a2), i + 3 + Len(y))
    BY <1>9, <1>11, <1>12, <1>13, <1>22, <2>1, Convert
  <2>3. i + 3 + Len(y) = i + j + 3
    BY <1>10, <1>11
  <2>4. QED
    BY <1>3, <1>23, <2>2, <2>3, Zenon
<1>25. PICK x6 : x6 = x5 \o <<sp>>
  OBVIOUS
<1>26. Stands(C, t[9], x6, a3, i + j + 4)
  <2>1. i + j + 3 < Limit
    BY <1>10
  <2>2. Stands(C, t[9], x5 \o <<sp>>, a3, (i + j + 3) + 1)
    BY <1>8, <1>9, <1>24, <2>1, Copy
  <2>3. (i + j + 3) + 1 = i + j + 4
    BY <1>10
  <2>4. QED
    BY <1>25, <2>2, <2>3, Zenon
<1>27. PICK x7 : x7 = x6 \o <<eq>>
  OBVIOUS
<1>28. Stands(C, t[10], x7, a3, i + j + 5)
  <2>1. i + j + 4 < Limit
    BY <1>10
  <2>2. Stands(C, t[10], x6 \o <<eq>>, a3, (i + j + 4) + 1)
    BY <1>8, <1>9, <1>26, <2>1, Copy
  <2>3. (i + j + 4) + 1 = i + j + 5
    BY <1>10
  <2>4. QED
    BY <1>27, <2>2, <2>3, Zenon
<1>29. PICK x8 : x8 = x7 \o <<sp>>
  OBVIOUS
<1>30. Stands(C, t[11], x8, a3, i + j + 6)
  <2>1. i + j + 5 < Limit
    BY <1>10
  <2>2. Stands(C, t[11], x7 \o <<sp>>, a3, (i + j + 5) + 1)
    BY <1>8, <1>9, <1>28, <2>1, Copy
  <2>3. (i + j + 5) + 1 = i + j + 6
    BY <1>10
  <2>4. QED
    BY <1>29, <2>2, <2>3, Zenon
<1>31. PICK x9 : x9 = x8 \o z
  OBVIOUS
<1>32. Stands(C, t[13], x9, a4, i + j + k + 6)
  <2>1. i + j + 6 + Len(z) <= Limit /\ i + j + 6 < Limit
    BY <1>10, <1>11
  <2>2. Stands(C, t[13], x8 \o z, Tail(a3), i + j + 6 + Len(z))
    BY <1>9, <1>11, <1>12, <1>13, <1>30, <2>1, Convert
  <2>3. i + j + 6 + Len(z) = i + j + k + 6
    BY <1>10, <1>11
  <2>4. QED
    BY <1>3, <1>31, <2>2, <2>3, Zenon
<1>33. PICK x10 : x10 = x9 \o <<nl>>
  OBVIOUS
<1>34. Stands(C, t[14], x10, a4, i + j + k + 7)
  <2>1. i + j + k + 6 < Limit
    BY <1>10
  <2>2. Stands(C, t[14], x9 \o <<nl>>, a4, (i + j + k + 6) + 1)
    BY <1>8, <1>9, <1>32, <2>1, Copy
  <2>3. (i + j + k + 6) + 1 = i + j + k + 7
    BY <1>10
  <2>4. QED
    BY <1>33, <2>2, <2>3, Zenon
<1>35. Printf(Format, a0) = x10
  <2>1. t[14] = At(x10, a4, FALSE)
    BY <1>34, Zenon DEF Stands
  <2>2. t[14].text = x10
    BY <2>1 DEF At
  <2>3. QED
    BY <1>5, <2>2, Zenon
<1>36. x1 = x
  BY <1>15, ConcatEmptySeq
<1>37. x10 = Sum(x, y, z, op)
  BY <1>6, <1>11, <1>36, <1>17, <1>19, <1>21, <1>23, <1>25, <1>27, <1>29, <1>31, <1>33, Zenon DEF Sum
<1>38. QED
  BY <1>1, <1>2, <1>35, <1>37, Zenon

(* The same text with its middle parts in one piece each.                  *)
InOne(s, p, q, r) == ((s \o <<p>>) \o <<q>>) \o <<r>> = s \o <<p, q, r>>

LEMMA Three ==
  ASSUME NEW C, NEW s \in Seq(C), NEW p \in C, NEW q \in C, NEW r \in C
  PROVE  InOne(s, p, q, r) /\ s \o <<p, q, r>> \in Seq(C)
<1>1. PICK a, b, c, t : a = <<p>> /\ b = <<q>> /\ c = <<r>> /\ t = <<p, q, r>>
  OBVIOUS
<1>2. /\ a \in Seq(C) /\ Len(a) = 1 /\ a[1] = p
      /\ b \in Seq(C) /\ Len(b) = 1 /\ b[1] = q
      /\ c \in Seq(C) /\ Len(c) = 1 /\ c[1] = r
  BY <1>1, Single
<1>3. t \in Seq(C) /\ Len(t) = 3 /\ t[1] = p /\ t[2] = q /\ t[3] = r
  BY <1>1
<1>4. PICK ab : ab = a \o b
  OBVIOUS
<1>5. ab \in Seq(C) /\ Len(ab) = 2 /\ ab[1] = p /\ ab[2] = q
  <2>1. /\ a \o b \in Seq(C) /\ Len(a \o b) = Len(a) + Len(b)
        /\ \A i \in 1 .. Len(a) + Len(b) : (a \o b)[i] = IF i <= Len(a) THEN a[i] ELSE b[i - Len(a)]
    BY <1>2, ConcatProperties
  <2>2. QED
    BY <1>2, <1>4, <2>1
<1>6. PICK abc : abc = ab \o c
  OBVIOUS
<1>7. abc \in Seq(C) /\ Len(abc) = 3 /\ abc[1] = p /\ abc[2] = q /\ abc[3] = r
  <2>1. /\ ab \o c \in Seq(C) /\ Len(ab \o c) = Len(ab) + Len(c)
        /\ \A i \in 1 .. Len(ab) + Len(c) : (ab \o c)[i] = IF i <= Len(ab) THEN ab[i] ELSE c[i - Len(ab)]
    BY <1>2, <1>5, ConcatProperties
  <2>2. QED
    BY <1>2, <1>5, <1>6, <2>1
<1>8. abc = t
  <2>1. \A i \in 1 .. 3 : abc[i] = t[i]
    BY <1>3, <1>7
  <2>2. QED
    BY <1>3, <1>7, <2>1, SeqEqual
<1>9. (s \o a) \o b = s \o ab
  <2>1. s \in Seq(C) /\ a \in Seq(C) /\ b \in Seq(C)
    BY <1>2
  <2>2. Regrouped(s, a, b)
    BY <2>1, Regroup
  <2>3. QED
    BY <1>4, <2>2, Zenon DEF Regrouped
<1>10. (s \o ab) \o c = s \o abc
  <2>1. s \in Seq(C) /\ ab \in Seq(C) /\ c \in Seq(C)
    BY <1>2, <1>5
  <2>2. Regrouped(s, ab, c)
    BY <2>1, Regroup
  <2>3. QED
    BY <1>6, <2>2, Zenon DEF Regrouped
<1>11. ((s \o a) \o b) \o c = s \o t
  BY <1>8, <1>9, <1>10, Zenon
<1>12. s \o t \in Seq(C)
  BY <1>3, ConcatProperties
<1>13. QED
  BY <1>1, <1>11, <1>12, Zenon DEF InOne

Said(x, y, z, op) == x \o <<" ", op, " ">> \o y \o <<" ", "=", " ">> \o z \o <<"NL">>

LEMMA SumSaid ==
  ASSUME NEW C, NEW x \in Seq(C), NEW y \in Seq(C), NEW z \in Seq(C), NEW op, Has(C, op)
  PROVE  Sum(x, y, z, op) = Said(x, y, z, op)
<1>1. PICK sp, eq, nl : sp = " " /\ eq = "=" /\ nl = "NL"
  OBVIOUS
<1>2. sp \in C /\ eq \in C /\ nl \in C /\ op \in C
  BY <1>1, Zenon DEF Has
<1>3. PICK a : a = x \o <<sp, op, sp>>
  OBVIOUS
<1>4. ((x \o <<sp>>) \o <<op>>) \o <<sp>> = a /\ a \in Seq(C)
  <2>1. InOne(x, sp, op, sp) /\ x \o <<sp, op, sp>> \in Seq(C)
    BY <1>2, Three
  <2>2. QED
    BY <1>3, <2>1, Zenon DEF InOne
<1>5. PICK b : b = a \o y
  OBVIOUS
<1>6. b \in Seq(C)
  BY <1>4, <1>5, ConcatProperties
<1>7. PICK c : c = b \o <<sp, eq, sp>>
  OBVIOUS
<1>8. ((b \o <<sp>>) \o <<eq>>) \o <<sp>> = c
  <2>1. InOne(b, sp, eq, sp)
    BY <1>2, <1>6, Three
  <2>2. QED
    BY <1>7, <2>1, Zenon DEF InOne
<1>9. Sum(x, y, z, op) = (c \o z) \o <<nl>>
  BY <1>1, <1>4, <1>5, <1>8, Zenon DEF Sum
<1>10. Said(x, y, z, op) = (c \o z) \o <<nl>>
  BY <1>1, <1>3, <1>5, <1>7, Zenon DEF Said
<1>11. QED
  BY <1>9, <1>10

(* A text is found in what it was put into.                                *)
Within(v, s) == \E i, j \in DOMAIN s : v = SubSeq(s, i, j)

LEMMA WithinIts ==
  ASSUME NEW C, NEW u \in Seq(C), NEW v \in Seq(C), NEW s \in Seq(C), Len(v) \in Nat \ {0},
         NEW m \in Nat, m + Len(v) <= Len(s), \A i \in 1 .. Len(v) : s[m + i] = v[i]
  PROVE  Within(v, s)
<1>1. PICK n \in Nat \ {0} : n = Len(v)
  OBVIOUS
<1>2. PICK i, j : i = m + 1 /\ j = m + n
  OBVIOUS
<1>3. i \in 1 .. Len(s) /\ j \in 1 .. Len(s) /\ i <= j /\ j - i + 1 = n /\ i \in Int /\ j \in Int
  BY <1>1, <1>2
<1>4. PICK r : r = SubSeq(s, i, j)
  OBVIOUS
<1>5. r \in Seq(C) /\ Len(r) = n /\ \A k \in 1 .. n : r[k] = v[k]
  <2>1. \A k \in i .. j : s[k] \in C
    BY <1>3, ElementOfSeq
  <2>2. r \in Seq(C) /\ Len(r) = n /\ \A k \in 1 .. n : r[k] = s[i + k - 1]
    <3>1. /\ SubSeq(s, i, j) \in Seq(C)
          /\ Len(SubSeq(s, i, j)) = IF i <= j THEN j - i + 1 ELSE 0
          /\ \A k \in 1 .. j - i + 1 : SubSeq(s, i, j)[k] = s[i + k - 1]
      BY <1>3, <2>1, SubSeqProperties
    <3>2. QED
      BY <1>3, <1>4, <3>1
  <2>3. ASSUME NEW k \in 1 .. n PROVE r[k] = v[k]
    <3>1. i + k - 1 = m + k
      BY <1>2
    <3>2. QED
      BY <1>1, <2>2, <3>1
  <2>4. QED
    BY <2>2, <2>3
<1>6. r = v
  BY <1>1, <1>5, SeqEqual
<1>7. i \in DOMAIN s /\ j \in DOMAIN s
  BY <1>3
<1>8. QED
  BY <1>4, <1>6, <1>7, Zenon DEF Within

LEMMA WithinLast ==
  ASSUME NEW C, NEW u \in Seq(C), NEW v \in Seq(C), Len(v) \in Nat \ {0}
  PROVE  Within(v, u \o v) /\ u \o v \in Seq(C)
<1>1. PICK m \in Nat : m = Len(u)
  OBVIOUS
<1>2. PICK s : s = u \o v
  OBVIOUS
<1>3. /\ s \in Seq(C) /\ Len(s) = m + Len(v)
      /\ \A i \in 1 .. m + Len(v) : s[i] = IF i <= m THEN u[i] ELSE v[i - m]
  BY <1>1, <1>2, ConcatProperties
<1>4. ASSUME NEW i \in 1 .. Len(v) PROVE s[m + i] = v[i]
  <2>1. m + i \in 1 .. m + Len(v) /\ ~(m + i <= m) /\ (m + i) - m = i
    BY <1>1
  <2>2. QED
    BY <1>3, <2>1
<1>5. Within(v, s)
  <2>1. m + Len(v) <= Len(s)
    BY <1>3
  <2>2. QED
    BY <1>3, <1>4, <2>1, WithinIts
<1>6. QED
  BY <1>2, <1>3, <1>5

(* What a piece of a text is, as the library states it of SubSeq.          *)
SliceLength(i, j) == IF i <= j THEN j - i + 1 ELSE 0

IsSlice(C, x, s, i, l) ==
  /\ x \in Seq(C) /\ Len(x) = l /\ l \in Nat
  /\ \A k \in 1 .. l : i + k - 1 \in 1 .. Len(s) /\ x[k] = s[i + k - 1]

LEMMA Slice ==
  ASSUME NEW C, NEW s \in Seq(C), NEW i \in 1 .. Len(s), NEW j \in 1 .. Len(s)
  PROVE  IsSlice(C, SubSeq(s, i, j), s, i, SliceLength(i, j))
<1>0. PICK l : l = SliceLength(i, j)
  OBVIOUS
<1>1. PICK n \in Nat : n = Len(s)
  OBVIOUS
<1>2. i \in 1 .. n /\ j \in 1 .. n /\ i \in Int /\ j \in Int /\ \A k \in i .. j : k \in 1 .. n
  BY <1>1
<1>3. \A k \in i .. j : s[k] \in C
  BY <1>1, <1>2, ElementOfSeq
<1>4. PICK x : x = SubSeq(s, i, j)
  OBVIOUS
<1>5. /\ x \in Seq(C) /\ Len(x) = l
      /\ \A k \in 1 .. j - i + 1 : x[k] = s[i + k - 1]
  <2>1. i \in Int /\ j \in Int
    BY <1>2
  <2>2. /\ SubSeq(s, i, j) \in Seq(C)
        /\ Len(SubSeq(s, i, j)) = IF i <= j THEN j - i + 1 ELSE 0
        /\ \A k \in 1 .. j - i + 1 : SubSeq(s, i, j)[k] = s[i + k - 1]
    BY <1>3, <2>1, SubSeqProperties
  <2>3. QED
    BY <1>0, <1>4, <2>2 DEF SliceLength
<1>6. l \in Nat
  BY <1>0, <1>2 DEF SliceLength
<1>7. ASSUME NEW k \in 1 .. l PROVE k \in 1 .. j - i + 1 /\ i + k - 1 \in 1 .. n
  <2>1. i <= j /\ l = j - i + 1
    BY <1>0, <1>2 DEF SliceLength
  <2>2. QED
    BY <1>2, <2>1
<1>8. IsSlice(C, x, s, i, l)
  BY <1>1, <1>5, <1>6, <1>7 DEF IsSlice
<1>9. QED
  BY <1>0, <1>4, <1>8, Zenon

LEMMA WithinMore ==
  ASSUME NEW C, NEW s \in Seq(C), NEW t \in Seq(C), NEW v, Within(v, s)
  PROVE  Within(v, s \o t) /\ s \o t \in Seq(C)
<1>1. PICK i \in DOMAIN s, j \in DOMAIN s : v = SubSeq(s, i, j)
  BY DEF Within
<1>2. PICK n \in Nat : n = Len(s)
  OBVIOUS
<1>3. i \in 1 .. n /\ j \in 1 .. n
  BY <1>2
<1>4. PICK r : r = s \o t
  OBVIOUS
<1>5. /\ r \in Seq(C) /\ Len(r) = n + Len(t) /\ Len(t) \in Nat
      /\ \A k \in 1 .. n + Len(t) : r[k] = IF k <= n THEN s[k] ELSE t[k - n]
  BY <1>2, <1>4, ConcatProperties
<1>6. i \in DOMAIN r /\ j \in DOMAIN r
  BY <1>3, <1>5
<1>7. \A k \in 1 .. n : r[k] = s[k]
  BY <1>5
<1>8. SubSeq(r, i, j) = SubSeq(s, i, j)
  <2>1. PICK x, y : x = SubSeq(r, i, j) /\ y = SubSeq(s, i, j)
    OBVIOUS
  <2>2. PICK l : l = SliceLength(i, j)
    OBVIOUS
  <2>3. IsSlice(C, x, r, i, l)
    <3>1. r \in Seq(C) /\ i \in 1 .. Len(r) /\ j \in 1 .. Len(r)
      BY <1>3, <1>5
    <3>2. IsSlice(C, SubSeq(r, i, j), r, i, SliceLength(i, j))
      BY <3>1, Slice
    <3>3. QED
      BY <2>1, <2>2, <3>2
  <2>4. IsSlice(C, y, s, i, l)
    <3>1. i \in 1 .. Len(s) /\ j \in 1 .. Len(s)
      BY <1>2, <1>3
    <3>2. IsSlice(C, SubSeq(s, i, j), s, i, SliceLength(i, j))
      BY <3>1, Slice
    <3>3. QED
      BY <2>1, <2>2, <3>2
  <2>5. /\ x \in Seq(C) /\ y \in Seq(C) /\ Len(x) = l /\ Len(y) = l
        /\ \A k \in 1 .. l : x[k] = y[k]
    BY <1>2, <1>7, <2>3, <2>4 DEF IsSlice
  <2>6. x = y
    BY <2>5, SeqEqual
  <2>7. QED
    BY <2>1, <2>6
<1>9. QED
  BY <1>1, <1>4, <1>5, <1>6, <1>8 DEF Within

LEMMA SaidParts ==
  ASSUME NEW C, NEW x \in Seq(C), NEW y \in Seq(C), NEW z \in Seq(C), NEW op, Has(C, op),
         Len(x) \in Nat \ {0}, Len(y) \in Nat \ {0}, Len(z) \in Nat \ {0}
  PROVE  LET s == Said(x, y, z, op) IN s \in Seq(C) /\ Within(x, s) /\ Within(y, s) /\ Within(z, s)
<1>1. PICK sp, eq, nl : sp = " " /\ eq = "=" /\ nl = "NL"
  OBVIOUS
<1>2. sp \in C /\ eq \in C /\ nl \in C /\ op \in C
  BY <1>1, Zenon DEF Has
<1>3. PICK m1, m2, m3 : m1 = <<sp, op, sp>> /\ m2 = <<sp, eq, sp>> /\ m3 = <<nl>>
  OBVIOUS
<1>4. m1 \in Seq(C) /\ m2 \in Seq(C) /\ m3 \in Seq(C)
  BY <1>2, <1>3
<1>5. PICK a, b, c, d, e : a = x \o m1 /\ b = a \o y /\ c = b \o m2 /\ d = c \o z /\ e = d \o m3
  OBVIOUS
<1>6. Said(x, y, z, op) = e
  BY <1>1, <1>3, <1>5, Zenon DEF Said
<1>7. Within(x, x)
  <2>1. 0 \in Nat /\ 0 + Len(x) <= Len(x) /\ \A i \in 1 .. Len(x) : x[0 + i] = x[i]
    OBVIOUS
  <2>2. QED
    BY <2>1, WithinIts
<1>8. a \in Seq(C) /\ Within(x, a)
  BY <1>4, <1>5, <1>7, WithinMore
<1>9. b \in Seq(C) /\ Within(x, b) /\ Within(y, b)
  BY <1>5, <1>8, WithinMore, WithinLast
<1>10. c \in Seq(C) /\ Within(x, c) /\ Within(y, c)
  BY <1>4, <1>5, <1>9, WithinMore
<1>11. d \in Seq(C) /\ Within(x, d) /\ Within(y, d) /\ Within(z, d)
  BY <1>5, <1>10, WithinMore, WithinLast
<1>12. e \in Seq(C) /\ Within(x, e) /\ Within(y, e) /\ Within(z, e)
  BY <1>4, <1>5, <1>11, WithinMore
<1>13. QED
  BY <1>6, <1>12, Zenon

(* The answer of calc to two numbers, for a result that %d prints.         *)
Says(a, op, b, r) ==
  \E x, y, z :
    /\ Shown(x, a) /\ Shown(y, b) /\ Shown(z, r)
    /\ \E C : Said(x, y, z, op) \in Seq(C)
    /\ Within(x, Said(x, y, z, op)) /\ Within(y, Said(x, y, z, op)) /\ Within(z, Said(x, y, z, op))
    /\ Printf(Format, <<Number(a), Character(op), Number(b), Number(r)>>) = Said(x, y, z, op)

LEMMA CalcSays ==
  ASSUME NEW a \in Ints \ {LeastInt}, NEW b \in Ints \ {LeastInt}, NEW r \in Ints \ {LeastInt}, NEW op
  PROVE  Says(a, op, b, r)
<1>1. PICK C : Numerals \subseteq C /\ Has(C, op)
  <2> DEFINE C == Numerals \cup {" ", "=", "NL", op}
  <2>1. Numerals \subseteq C
    OBVIOUS
  <2>2. Has(C, op)
    BY Zenon DEF Has
  <2> HIDE DEF C
  <2>3. QED
    BY <2>1, <2>2
<1>2. Seq(Numerals) \subseteq Seq(C)
  BY <1>1, SeqMonotonic
<1>3. PICK n : n = Len(Itoa(LeastInt, 10))
  OBVIOUS
<1>4. n \in Nat /\ 3 * n + 7 <= Limit
  <2>1. n \in Nat
    BY <1>3, DecimalShown
  <2>2. 3 * Len(Itoa(LeastInt, 10)) + 7 <= Limit
    BY CommandLineAssumption, Zenon
  <2>3. QED
    BY <1>3, <2>1, <2>2
<1>5. PICK x \in Seq(C) :
        Converted("d", Number(a)) = x /\ Shown(x, a) /\ Len(x) \in Nat \ {0} /\ Len(x) <= n
  BY <1>2, <1>3, DecimalShown
<1>6. PICK y \in Seq(C) :
        Converted("d", Number(b)) = y /\ Shown(y, b) /\ Len(y) \in Nat \ {0} /\ Len(y) <= n
  BY <1>2, <1>3, DecimalShown
<1>7. PICK z \in Seq(C) :
        Converted("d", Number(r)) = z /\ Shown(z, r) /\ Len(z) \in Nat \ {0} /\ Len(z) <= n
  BY <1>2, <1>3, DecimalShown
<1>8. Len(x) + Len(y) + Len(z) + 7 <= Limit
  BY <1>4, <1>5, <1>6, <1>7, LimitNat
<1>9. PICK n1, n2, n3 : n1 = Number(a) /\ n2 = Number(b) /\ n3 = Number(r)
  OBVIOUS
<1>10. Printf(Format, <<n1, Character(op), n2, n3>>) = Sum(x, y, z, op)
  <2>1. Converted("d", n1) = x /\ Converted("d", n2) = y /\ Converted("d", n3) = z
    BY <1>5, <1>6, <1>7, <1>9, Zenon
  <2>2. QED
    BY <1>1, <1>8, <2>1, PrintfCalc
<1>11. PICK s : s = Said(x, y, z, op)
  OBVIOUS
<1>12. Sum(x, y, z, op) = s
  BY <1>1, <1>11, SumSaid
<1>13. s \in Seq(C) /\ Within(x, s) /\ Within(y, s) /\ Within(z, s)
  BY <1>1, <1>5, <1>6, <1>7, <1>11, SaidParts
<1>14. QED
  BY <1>5, <1>6, <1>7, <1>9, <1>10, <1>11, <1>12, <1>13, Zenon DEF Says

Wrote(n) == { w \in Texts!SubSeqs(out) : Numeral(w) /\ Shortest(w, 10) /\ Value(w, 10) = n }

From(s, i, j) == SubSeq(s, i + 1, j)

LEMMA ShownWritten ==
  ASSUME NEW w, NEW n, Shown(w, n), Within(w, out), Len(out) \in Nat, DOMAIN out = 1 .. Len(out)
  PROVE  w \in Wrote(n)
<1>1. PICK i \in 1 .. Len(out), j \in 1 .. Len(out) : w = SubSeq(out, i, j)
  BY Zenon DEF Within
<1>2. PICK k \in 0 .. Len(out) : k + 1 = i
  <2>1. i - 1 \in 0 .. Len(out) /\ (i - 1) + 1 = i
    OBVIOUS
  <2>2. QED
    BY <2>1
<1>3. j \in 0 .. Len(out) /\ w = From(out, k, j)
  <2>1. w = From(out, k, j)
    BY <1>1, <1>2, Zenon DEF From
  <2>2. QED
    BY <2>1
<1>4. w \in { From(out, p, q) : p, q \in 0 .. Len(out) }
  BY <1>3
<1>5. w \in Texts!SubSeqs(out)
  BY <1>4, SMT DEF Texts!SubSeqs, From
<1>6. Numeral(w) /\ Shortest(w, 10) /\ Value(w, 10) = n
  BY Zenon DEF Shown
<1>7. QED
  BY <1>5, <1>6, Zenon DEF Wrote

(* From the line to the screen: calc's answer is right whenever an int can *)
(* hold it and its words (CalcRight).                                      *)
THEOREM CalculatesRight == LSpec => []CalcRight
<1>1. ASSUME RingInv, session \in DOMAIN Sessions, WordsExact, Answered PROVE CalcRight
  <2>1. PICK W : W = Words
    OBVIOUS
  <2>2. PICK a, op, b : a = Value(W[2], 10) /\ op = W[3][1] /\ b = Value(W[4], 10)
    OBVIOUS
  <2>3. ASSUME Entered, Len(W) >= 4, W[1] = <<"calc">>, Numeral(W[2]), Numeral(W[4]),
               W[3] \in {<<"+">>, <<"-">>, <<"*">>, <<"/">>}, ~(op = "/" /\ b = 0),
               {a, b} \subseteq Ints \ {LeastInt}, Exact(a, op, b) \in Ints \ {LeastInt}
        PROVE  \E x \in Wrote(a), y \in Wrote(b), z \in Wrote(Exact(a, op, b)) :
                 out = x \o <<" ", op, " ">> \o y \o <<" ", "=", " ">> \o z \o <<"NL">>
    <3>1. W \in Seq(Seq(STRING)) /\ out = Answer(W, history, count)
      BY <1>1, <2>1, <2>3, LastWords
    <3>2. a \in Ints \ {LeastInt} /\ b \in Ints \ {LeastInt}
      BY <2>3, Zenon
    <3>3. Atoi(W[2]) = a /\ Atoi(W[4]) = b
      <4>1. W[2] \in Seq(STRING) /\ W[4] \in Seq(STRING)
        <5>1. 2 \in 1 .. Len(W) /\ 4 \in 1 .. Len(W)
          <6>1. Len(W) \in Nat /\ Len(W) >= 4
            BY <2>3, <3>1
          <6>2. QED
            BY <6>1
        <5>2. QED
          BY <3>1, <5>1, ElementOfSeq
      <4>2. Numeral(W[2]) /\ Value(W[2], 10) \in Ints /\ Numeral(W[4]) /\ Value(W[4], 10) \in Ints
        BY <2>2, <2>3, <3>2, Zenon
      <4>3. QED
        BY <2>2, <4>1, <4>2, AtoiValue
    <3>4. op \in {"+", "-", "*", "/"}
      BY <2>2, <2>3
    <3>5. PICK r \in Ints \ {LeastInt} : r = Exact(a, op, b) /\ r = Calculated(a, op, b)
      <4>1. Calculated(a, op, b) = Exact(a, op, b)
        BY <2>3, <3>2, <3>4, CalculatedExact, Zenon
      <4>2. QED
        BY <2>3, <4>1, Zenon
    <3>6. out = CalcAnswer(W)
      <4>1. <<"calc">> # <<"history">> /\ W # <<>>
        <5>1. <<"calc">> # <<"history">>
          OBVIOUS
        <5>2. W # <<>>
          BY <2>3, <3>1, EmptySeq
        <5>3. QED
          BY <5>1, <5>2
      <4>2. Answer(W, history, count) = CalcAnswer(W)
        BY <2>3, <4>1 DEF Answer
      <4>3. QED
        BY <3>1, <4>2, Zenon
    <3>7. CalcAnswer(W) = Printf(Format, <<Number(a), Character(op), Number(b), Number(Calculated(a, op, b))>>)
      <4>1. ~(Len(W) < 2) /\ ~(Len(W) < 4)
        <5>1. Len(W) \in Nat /\ Len(W) >= 4
          BY <2>3, <3>1
        <5>2. QED
          BY <5>1
      <4>2. ~(op \notin {"+", "-", "*", "/"}) /\ ~(op = "/" /\ b = 0)
        BY <2>3, <3>4, Zenon
      <4>3. QED
        BY <2>2, <3>3, <4>1, <4>2, Zenon DEF CalcAnswer, Format
    <3>8. PICK x, y, z :
            /\ Shown(x, a) /\ Shown(y, b) /\ Shown(z, r)
            /\ \E C : Said(x, y, z, op) \in Seq(C)
            /\ Within(x, Said(x, y, z, op)) /\ Within(y, Said(x, y, z, op)) /\ Within(z, Said(x, y, z, op))
            /\ Printf(Format, <<Number(a), Character(op), Number(b), Number(r)>>) = Said(x, y, z, op)
      <4>1. Says(a, op, b, r)
        BY <3>2, CalcSays
      <4>2. QED
        BY <4>1, Zenon DEF Says
    <3>9. out = Said(x, y, z, op)
      BY <3>5, <3>6, <3>7, <3>8, Zenon
    <3>10. x \in Wrote(a) /\ y \in Wrote(b) /\ z \in Wrote(r)
      <4>1. Len(out) \in Nat /\ DOMAIN out = 1 .. Len(out)
        <5>1. PICK C : Said(x, y, z, op) \in Seq(C)
          BY <3>8, Zenon
        <5>2. out \in Seq(C)
          BY <3>9, <5>1, Zenon
        <5>3. QED
          BY <5>2
      <4>2. Within(x, out) /\ Within(y, out) /\ Within(z, out)
        BY <3>8, <3>9, Zenon
      <4>3. QED
        BY <3>8, <4>1, <4>2, ShownWritten
    <3>11. QED
      BY <3>5, <3>9, <3>10, Zenon DEF Said
  <2>4. SUFFICES ASSUME ~CalcRight PROVE FALSE
    OBVIOUS
  <2>5. /\ Entered /\ Len(W) >= 4 /\ W[1] = <<"calc">> /\ Numeral(W[2]) /\ Numeral(W[4])
        /\ W[3] \in {<<"+">>, <<"-">>, <<"*">>, <<"/">>} /\ ~(op = "/" /\ b = 0)
        /\ {a, b} \subseteq Ints \ {LeastInt} /\ Exact(a, op, b) \in Ints \ {LeastInt}
    BY <2>1, <2>2, <2>4, Zenon DEF CalcRight
  <2>6. PICK x \in Wrote(a), y \in Wrote(b), z \in Wrote(Exact(a, op, b)) :
          out = x \o <<" ", op, " ">> \o y \o <<" ", "=", " ">> \o z \o <<"NL">>
    BY <2>3, <2>5, Zenon
  <2>7. CalcRight
    BY <2>1, <2>2, <2>6, Zenon DEF CalcRight, Wrote
  <2>8. QED
    BY <2>4, <2>7
<1>2. QED
  BY <1>1, RingKept, UserKept, WordsFound, AnswerKept, PTL
=============================================================================
