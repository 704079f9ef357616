---------------------------- MODULE NatInduction ----------------------------
(***************************************************************************)
(* Least elements and induction over sets of natural numbers: what the     *)
(* proofs about lookup loops and list walks rest on.                       *)
(***************************************************************************)
EXTENDS Integers, WellFoundedInduction, TLAPS

(* A nonempty set of natural numbers has a least element.                  *)
LEMMA NatMin ==
  ASSUME NEW S \in SUBSET Nat, S # {}
  PROVE  \E x \in S : \A y \in S : x <= y
<1>1. \E R : /\ IsWellFoundedOn(R, Nat)
             /\ \A x, y \in Nat : x < y => <<x, y>> \in R
  <2>1. IsWellFoundedOn(OpToRel(<, Nat), Nat)
    BY NatLessThanWellFounded
  <2>2. \A x, y \in Nat : x < y => <<x, y>> \in OpToRel(<, Nat)
    BY DEF OpToRel
  <2>3. QED
    BY <2>1, <2>2, Zenon
<1>2. PICK R : /\ IsWellFoundedOn(R, Nat)
               /\ \A x, y \in Nat : x < y => <<x, y>> \in R
  BY <1>1
<1>3. PICK x \in S : \A y \in S : ~ (<<y, x>> \in R)
  <2>1. IsWellFoundedOn(R, Nat) /\ S \subseteq Nat /\ S # {}
    BY <1>2
  <2>2. \E x \in S : \A y \in S : ~ (<<y, x>> \in R)
    BY ONLY <2>1, WFMin, Zenon
  <2>3. QED
    BY <2>2
<1>4. \A y \in S : ~(y < x)
  BY <1>2, <1>3
<1>5. QED
  BY <1>3, <1>4

(* A set of natural numbers that has 0, and n + 1 with every n, has all.   *)
LEMMA NatInd ==
  ASSUME NEW P \in SUBSET Nat, 0 \in P, \A n \in P : n + 1 \in P
  PROVE  P = Nat
<1>1. SUFFICES ASSUME Nat \ P # {} PROVE FALSE
  OBVIOUS
<1>2. PICK x \in Nat \ P : \A y \in Nat \ P : x <= y
  BY <1>1, NatMin
<1>3. x - 1 \in P
  BY <1>2
<1>4. (x - 1) + 1 = x
  BY <1>2
<1>5. QED
  BY <1>2, <1>3, <1>4

(* A loop of N turns from a value of S that stays in S can be run.         *)
CanRun(S, a, N, turn) ==
  \E f \in [0 .. N -> S] : \A n \in 0 .. N : f[n] = IF n = 0 THEN a ELSE turn[n][f[n - 1]]

LEMMA Runs ==
  ASSUME NEW S, NEW a \in S, NEW N \in Nat, NEW turn \in [1 .. N -> [S -> S]]
  PROVE  CanRun(S, a, N, turn)
<1> DEFINE P == { m \in Nat : m <= N => CanRun(S, a, m, turn) }
<1>1. 0 \in P
  <2> DEFINE f == [n \in 0 .. 0 |-> a]
  <2>1. f \in [0 .. 0 -> S] /\ \A n \in 0 .. 0 : f[n] = IF n = 0 THEN a ELSE turn[n][f[n - 1]]
    OBVIOUS
  <2> HIDE DEF f
  <2>2. CanRun(S, a, 0, turn)
    BY <2>1, Zenon DEF CanRun
  <2>3. QED
    BY <2>2
<1>2. ASSUME NEW m \in P PROVE m + 1 \in P
  <2>1. SUFFICES ASSUME m + 1 <= N
                 PROVE  CanRun(S, a, m + 1, turn)
    OBVIOUS
  <2>2. m \in Nat /\ m <= N /\ m + 1 \in 1 .. N
    BY <2>1
  <2>3. PICK f \in [0 .. m -> S] :
          \A n \in 0 .. m : f[n] = IF n = 0 THEN a ELSE turn[n][f[n - 1]]
    <3>1. CanRun(S, a, m, turn)
      BY <2>2
    <3>2. QED
      BY <3>1 DEF CanRun
  <2>4. PICK x \in S : x = turn[m + 1][f[m]]
    <3>1. f[m] \in S /\ turn[m + 1] \in [S -> S]
      BY <2>2
    <3>2. turn[m + 1][f[m]] \in S
      BY <3>1
    <3>3. QED
      BY <3>2
  <2> DEFINE g == [n \in 0 .. m + 1 |-> IF n = m + 1 THEN x ELSE f[n]]
  <2>5. g \in [0 .. m + 1 -> S]
    BY <2>2
  <2>6. ASSUME NEW n \in 0 .. m + 1
        PROVE  g[n] = IF n = 0 THEN a ELSE turn[n][g[n - 1]]
    <3>1. CASE n = m + 1
      <4>1. g[n] = x /\ g[n - 1] = f[m] /\ n # 0
        BY <2>2, <3>1
      <4>2. QED
        BY <2>4, <3>1, <4>1
    <3>2. CASE n = 0
      BY <2>2, <2>3, <3>2
    <3>3. CASE n # m + 1 /\ n # 0
      <4>1. g[n] = f[n] /\ g[n - 1] = f[n - 1] /\ n \in 0 .. m
        BY <2>2, <3>3
      <4>2. QED
        BY <2>3, <3>3, <4>1
    <3>4. QED
      BY <3>1, <3>2, <3>3
  <2> HIDE DEF g
  <2>7. QED
    BY <2>5, <2>6, Zenon DEF CanRun
<1>3. P \in SUBSET Nat
  OBVIOUS
<1> HIDE DEF P
<1>4. N \in P
  BY <1>1, <1>2, <1>3, NatInd
<1>5. N <= N
  OBVIOUS
<1>6. QED
  BY <1>4, <1>5 DEF P
=============================================================================
