-------------------------- MODULE RecursiveFunctions -------------------------
(***************************************************************************)
(* The least and the greatest of some numbers, and recursive functions.    *)
(*                                                                         *)
(* Loops over the elements of a sequence are functions that give, for each *)
(* n, what has been computed after n rounds.  They are well defined, and   *)
(* have the type that a round keeps.                                       *)
(***************************************************************************)
EXTENDS Integers, WellFoundedInduction, TLAPS

LEMMA LeastNumber ==
    ASSUME NEW S \in SUBSET Nat, S # {}
    PROVE  \E n \in S : \A m \in S : n <= m
<1>. DEFINE Less == {p \in Nat \X Nat : p[1] < p[2]}
<1>1. IsWellFoundedOn(Less, Nat)
  BY NatLessThanWellFounded DEF OpToRel
<1>2. \E n \in S : \A m \in S : <<m, n>> \notin Less
  <2>. HIDE DEF Less
  <2>. QED BY <1>1, WFMin
<1>3. \A m, n \in Nat : <<m, n>> \notin Less => n <= m
  OBVIOUS
<1>. HIDE DEF Less
<1>. QED BY <1>2, <1>3

LEMMA GreatestNumber ==
    ASSUME NEW n \in Nat, NEW S \in SUBSET (0..n), S # {}
    PROVE  \E m \in S : \A k \in S : k <= m
<1>. DEFINE Above == {u \in Nat : \A k \in S : k <= u}
<1>1. n \in Above
  OBVIOUS
<1>2. PICK u \in Above : \A v \in Above : u <= v
  <2>1. Above \in SUBSET Nat /\ Above # {}
    BY <1>1
  <2>. HIDE DEF Above
  <2>. QED BY <2>1, LeastNumber
<1>3. CASE u \in S
  BY <1>2, <1>3
<1>4. CASE u \notin S
  <2>1. PICK k \in S : k <= u /\ k # u
    BY <1>2, <1>4
  <2>2. u - 1 \in Nat /\ ~(u <= u - 1)
    BY <1>2, <2>1
  <2>3. \A i \in S : i <= u - 1
    BY <1>2, <1>4
  <2>. QED BY <1>2, <2>2, <2>3
<1>. QED BY <1>3, <1>4

(* Induction over a set of numbers.                                        *)
LEMMA StepByStep ==
    ASSUME NEW n \in Nat, NEW S \in SUBSET (0..n), 0 \in S,
           \A i \in 1..n : i - 1 \in S => i \in S
    PROVE  S = 0..n
<1>. DEFINE Missing == (0..n) \ S
<1>1. SUFFICES ASSUME Missing # {} PROVE FALSE
  OBVIOUS
<1>2. PICK i \in Missing : \A k \in Missing : i <= k
  <2>1. Missing \in SUBSET Nat
    OBVIOUS
  <2>. HIDE DEF Missing
  <2>. QED BY <1>1, <2>1, LeastNumber
<1>3. i \in 1..n /\ i - 1 \in 0..n /\ ~(i <= i - 1)
  BY <1>2
<1>. QED BY <1>2, <1>3

(* h[n] is what n rounds make of start.                                    *)
Rounds(h, start, round, n) ==
    h[0] = start /\ \A i \in 1..n : h[i] = round[<<h[i - 1], i>>]

(* Some function satisfies the equation, for any number of rounds.         *)
LEMMA RoundsExist ==
    ASSUME NEW S, NEW start \in S, NEW n \in Nat, NEW round \in [S \X (1..n) -> S]
    PROVE  \E h \in [0..n -> S] : Rounds(h, start, round, n)
<1>. DEFINE Bad == {m \in 0..n : ~\E h \in [0..m -> S] : Rounds(h, start, round, m)}
<1>1. SUFFICES ASSUME Bad # {} PROVE FALSE
  OBVIOUS
<1>2. PICK m \in Bad : \A k \in Bad : m <= k
  <2>1. Bad \in SUBSET Nat
    OBVIOUS
  <2>. HIDE DEF Bad
  <2>. QED BY <1>1, <2>1, LeastNumber
<1>3. CASE m = 0
  <2>1. [i \in 0..0 |-> start] \in [0..0 -> S] /\ Rounds([i \in 0..0 |-> start], start, round, 0)
    BY DEF Rounds
  <2>. QED BY <1>2, <1>3, <2>1
<1>4. CASE m # 0
  <2>1. m \in 1..n /\ m - 1 \in 0..n /\ ~(m <= m - 1)
    BY <1>2, <1>4
  <2>2. PICK f \in [0..(m - 1) -> S] : Rounds(f, start, round, m - 1)
    BY <1>2, <2>1
  <2>3. f[m - 1] \in S /\ f[0] = start
    BY <2>1, <2>2 DEF Rounds
  <2>4. round[<<f[m - 1], m>>] \in S
    BY <2>1, <2>3
  <2>. DEFINE g == [i \in 0..m |-> IF i = m THEN round[<<f[m - 1], m>>] ELSE f[i]]
  <2>5. g \in [0..m -> S]
    BY <2>1, <2>2, <2>4
  <2>6. \A i \in 0..(m - 1) : g[i] = f[i]
    BY <2>1
  <2>7. g[m] = round[<<g[m - 1], m>>]
    <3>1. m \in 0..m /\ m - 1 \in 0..(m - 1)
      BY <2>1
    <3>2. g[m] = round[<<f[m - 1], m>>]
      BY <3>1
    <3>3. g[m - 1] = f[m - 1]
      BY <2>6, <3>1
    <3>. QED BY <3>2, <3>3
  <2>. HIDE DEF g
  <2>8. g[0] = start
    BY <2>1, <2>3, <2>6
  <2>9. ASSUME NEW i \in 1..m
        PROVE  g[i] = round[<<g[i - 1], i>>]
    <3>1. CASE i = m
      BY <2>7, <3>1
    <3>2. CASE i # m
      <4>1. i \in 1..(m - 1) /\ i \in 0..(m - 1) /\ i - 1 \in 0..(m - 1)
        BY <2>1, <3>2
      <4>2. f[i] = round[<<f[i - 1], i>>]
        BY <2>2, <4>1 DEF Rounds
      <4>. QED BY <2>6, <4>1, <4>2
    <3>. QED BY <3>1, <3>2
  <2>10. Rounds(g, start, round, m)
    BY <2>8, <2>9 DEF Rounds
  <2>. QED BY <1>2, <2>5, <2>10
<1>. QED BY <1>3, <1>4

=============================================================================
