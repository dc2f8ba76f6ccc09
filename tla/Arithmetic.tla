----------------------------- MODULE Arithmetic -----------------------------
(***************************************************************************)
(* What the proofs need to know of the natural numbers beyond what the     *)
(* provers' arithmetic gives: least elements, and with them induction over *)
(* a set, for there is no rule of induction whose predicate is a parameter *)
(* that the provers can use.                                               *)
(***************************************************************************)
EXTENDS Integers, Powers, TLAPS, WellFoundedInduction, NaturalsInduction

\* A set of natural numbers that is not empty has a least element.
LEMMA NatMin ==
  ASSUME NEW T, T \subseteq Nat, T # {}
  PROVE  \E x \in T : \A y \in T : x <= y
<1>1. \E x \in T : \A y \in T : <<y, x>> \notin OpToRel(<, Nat)
  BY NatLessThanWellFounded, WFMin
<1>2. PICK x \in T : \A y \in T : <<y, x>> \notin OpToRel(<, Nat)
  BY <1>1
<1>3. ASSUME NEW y \in T PROVE x <= y
  <2>1. <<y, x>> \notin OpToRel(<, Nat) /\ <<y, x>> \in Nat \X Nat
    BY <1>2
  <2>2. ~ (y < x)
    BY <2>1 DEF OpToRel
  <2> QED BY <2>2
<1> QED BY <1>2, <1>3

\* A set that has 0, and n + 1 whenever it has n, has every natural number.
LEMMA NatInd ==
  ASSUME NEW S, 0 \in S, \A n \in Nat : n \in S => n + 1 \in S
  PROVE  Nat \subseteq S
<1> SUFFICES ASSUME NEW m \in Nat, m \notin S PROVE FALSE
  OBVIOUS
<1> DEFINE T == {n \in Nat : n \notin S}
<1>1. PICK x \in T : \A y \in T : x <= y
  BY NatMin
<1>2. x \in Nat /\ x # 0
  BY <1>1
<1>3. x - 1 \in Nat /\ x - 1 \notin T
  BY <1>1, <1>2
<1> QED BY <1>2, <1>3
-----------------------------------------------------------------------------
(* Recursion over the natural numbers: that there is a function which is as *)
(* a recursive definition says, each of its values a function of the one    *)
(* before.                                                                  *)

Follows(h, n, first, step) == h[0] = first /\ \A i \in 1 .. n : h[i] = step[i][h[i - 1]]
FollowsOn(f, first, step) == f[0] = first /\ \A k \in Nat \ {0} : f[k] = step[k][f[k - 1]]

LEMMA FollowingExists ==
  ASSUME NEW D, NEW first \in D, NEW step \in [Nat -> [D -> D]], NEW n \in Nat
  PROVE  \E h \in [0 .. n -> D] : Follows(h, n, first, step)
<1> DEFINE S == {k \in Nat : \E h \in [0 .. k -> D] : Follows(h, k, first, step)}
<1>1. 0 \in S
  <2>1. [i \in 0 .. 0 |-> first] \in [0 .. 0 -> D] /\ Follows([i \in 0 .. 0 |-> first], 0, first, step)
    BY DEF Follows
  <2> QED BY <2>1
<1>2. ASSUME NEW k \in Nat, k \in S PROVE k + 1 \in S
  <2>1. PICK h \in [0 .. k -> D] : Follows(h, k, first, step)
    BY <1>2
  <2> DEFINE x == step[k + 1][h[k]]
             g == [i \in 0 .. k + 1 |-> IF i = k + 1 THEN x ELSE h[i]]
  <2>2. x \in D
    <3>1. h[k] \in D /\ step[k + 1] \in [D -> D]
      OBVIOUS
    <3> QED BY <3>1
  <2> HIDE DEF x
  <2>3. g \in [0 .. k + 1 -> D]
    BY <2>2
  <2>4. \A i \in 0 .. k : g[i] = h[i]
    OBVIOUS
  <2>5. g[k + 1] = x
    OBVIOUS
  <2> HIDE DEF g
  <2>6. ASSUME NEW i \in 1 .. k + 1 PROVE g[i] = step[i][g[i - 1]]
    <3>1. CASE i = k + 1
      <4>1. g[i - 1] = h[k]
        BY <2>4, <3>1
      <4> QED BY <2>5, <3>1, <4>1 DEF x
    <3>2. CASE i \in 1 .. k
      <4>1. h[i] = step[i][h[i - 1]] /\ g[i] = h[i] /\ g[i - 1] = h[i - 1]
        BY <2>1, <2>4, <3>2 DEF Follows
      <4> QED BY <4>1
    <3> QED BY <3>1, <3>2
  <2>7. g[0] = first
    BY <2>1, <2>4 DEF Follows
  <2>8. Follows(g, k + 1, first, step)
    BY <2>6, <2>7 DEF Follows
  <2> QED BY <2>3, <2>8
<1> HIDE DEF S
<1>3. Nat \subseteq S
  BY <1>1, <1>2, NatInd
<1> QED BY <1>3 DEF S

LEMMA FollowingIsOne ==
  ASSUME NEW first, NEW step, NEW n \in Nat, NEW m \in Nat, n <= m,
         NEW g, NEW h, Follows(g, n, first, step), Follows(h, m, first, step)
  PROVE  g[n] = h[n]
<1> DEFINE S == {k \in Nat : k <= n => g[k] = h[k]}
<1>1. 0 \in S
  BY DEF Follows
<1>2. ASSUME NEW k \in Nat, k \in S PROVE k + 1 \in S
  <2>1. CASE k + 1 <= n
     <3>1. k + 1 \in 1 .. n /\ k + 1 \in 1 .. m /\ (k + 1) - 1 = k
       BY <2>1
     <3>2. g[k + 1] = step[k + 1][g[k]] /\ h[k + 1] = step[k + 1][h[k]]
       BY <3>1 DEF Follows
     <3>3. g[k] = h[k]
       BY <1>2, <2>1
     <3> QED BY <3>2, <3>3
  <2> QED BY <2>1
<1> HIDE DEF S
<1>3. n \in S
  BY <1>1, <1>2, NatInd
<1> QED BY <1>3 DEF S

LEMMA Recursion ==
  ASSUME NEW D, NEW first \in D, NEW step \in [Nat -> [D -> D]]
  PROVE  \E f \in [Nat -> D] : FollowsOn(f, first, step)
<1> DEFINE H(n) == CHOOSE h \in [0 .. n -> D] : Follows(h, n, first, step)
           f == [n \in Nat |-> H(n)[n]]
<1>1. ASSUME NEW n \in Nat PROVE H(n) \in [0 .. n -> D] /\ Follows(H(n), n, first, step)
  BY FollowingExists
<1> HIDE DEF H
<1>2. ASSUME NEW n \in Nat PROVE f[n] = IF n = 0 THEN first ELSE step[n][f[n - 1]]
  <2>0. f[n] = H(n)[n]
    OBVIOUS
  <2>1. CASE n = 0
    <3>1. H(0)[0] = first
      BY <1>1 DEF Follows
    <3> QED BY <2>0, <2>1, <3>1
  <2>2. CASE n # 0
    <3>1. n - 1 \in Nat /\ n - 1 <= n /\ n \in 1 .. n
      BY <2>2
    <3>2. H(n)[n] = step[n][H(n)[n - 1]]
      BY <1>1, <3>1 DEF Follows
    <3>3. H(n - 1)[n - 1] = H(n)[n - 1]
      BY <3>1, <1>1, FollowingIsOne
    <3>4. f[n - 1] = H(n - 1)[n - 1]
      BY <3>1
    <3> HIDE DEF f
    <3> QED BY <2>0, <2>2, <3>2, <3>3, <3>4
  <2> QED BY <2>1, <2>2
<1>3. f \in [Nat -> D]
  <2>1. ASSUME NEW n \in Nat PROVE H(n)[n] \in D
    BY <1>1
  <2> QED BY <2>1
<1>4. FollowsOn(f, first, step)
  BY <1>2 DEF FollowsOn
<1> HIDE DEF f
<1> QED BY <1>3, <1>4

-----------------------------------------------------------------------------
(* Powers of two. *)

LEMMA Pow2Unfold == Pow2 = [n \in Nat |-> IF n = 0 THEN 1 ELSE 2 * Pow2[n - 1]]
<1> DEFINE step == [k \in Nat |-> [x \in Nat |-> 2 * x]]
<1>1. step \in [Nat -> [Nat -> Nat]] /\ 1 \in Nat
  OBVIOUS
<1>2. \A k, x \in Nat : step[k][x] = 2 * x
  OBVIOUS
<1> HIDE DEF step
<1>3. PICK f \in [Nat -> Nat] : FollowsOn(f, 1, step)
  BY <1>1, Recursion
<1>4. ASSUME NEW n \in Nat PROVE f[n] = IF n = 0 THEN 1 ELSE 2 * f[n - 1]
  <2>1. CASE n # 0
    <3>1. n - 1 \in Nat /\ f[n - 1] \in Nat
      BY <2>1
    <3> QED BY <1>3, <2>1, <3>1, <1>2 DEF FollowsOn
  <2> QED BY <1>3, <2>1 DEF FollowsOn
<1>5. f = [n \in Nat |-> IF n = 0 THEN 1 ELSE 2 * f[n - 1]]
  BY <1>4
<1>6. \E g : g = [n \in Nat |-> IF n = 0 THEN 1 ELSE 2 * g[n - 1]]
  BY <1>5
<1> QED BY <1>6 DEF Pow2

LEMMA Pow2Facts ==
  /\ Pow2[0] = 1
  /\ \A k \in Nat : Pow2[k] \in Nat /\ Pow2[k] >= 1 /\ Pow2[k + 1] = 2 * Pow2[k]
<1>1. Pow2[0] = 1
  BY Pow2Unfold
<1>2. \A k \in Nat : Pow2[k + 1] = 2 * Pow2[k]
  <2> TAKE k \in Nat
  <2>1. k + 1 \in Nat /\ k + 1 # 0 /\ (k + 1) - 1 = k
    OBVIOUS
  <2> QED BY Pow2Unfold, <2>1
<1> DEFINE S == {k \in Nat : Pow2[k] \in Nat /\ Pow2[k] >= 1}
<1>3. 0 \in S
  BY <1>1
<1>4. ASSUME NEW k \in Nat, k \in S PROVE k + 1 \in S
  BY <1>2, <1>4
<1> HIDE DEF S
<1>5. Nat \subseteq S
  BY <1>3, <1>4, NatInd
<1> QED BY <1>1, <1>2, <1>5 DEF S

-----------------------------------------------------------------------------
(* Quotients and remainders. *)

LEMMA DivMod ==
  ASSUME NEW a \in Nat, NEW m \in Nat, m > 0
  PROVE  /\ a \div m \in Nat /\ a % m \in Nat /\ (a % m) < m
         /\ a = m * (a \div m) + (a % m) /\ m * (a \div m) \in Nat
OBVIOUS

LEMMA ModSmall == ASSUME NEW a \in Nat, NEW m \in Nat, a < m PROVE a % m = a
OBVIOUS

LEMMA MultipleMod == ASSUME NEW q \in Nat, NEW m \in Nat, m > 0 PROVE (m * q) % m = 0
OBVIOUS

\* Two numbers are equal without their remainders when their quotients are.
LEMMA SameQuotient ==
  ASSUME NEW a \in Nat, NEW b \in Nat, NEW m \in Nat, m > 0
  PROVE  a - (a % m) = b - (b % m) <=> a \div m = b \div m
<1>1. \A q, p \in Nat : m * q = m * p => q = p
  <2>1. \A q \in Nat : (m * q) \div m = q
    OBVIOUS
  <2> QED BY <2>1
<1>2. a - (a % m) = m * (a \div m) /\ b - (b % m) = m * (b \div m)
  BY DivMod
<1> QED BY <1>1, <1>2, DivMod

\* Without its remainder a number has none.
LEMMA WithoutRemainder ==
  ASSUME NEW a \in Nat, NEW m \in Nat, m > 0
  PROVE  a - (a % m) \in Nat /\ (a - (a % m)) % m = 0
<1>1. a - (a % m) = m * (a \div m) /\ m * (a \div m) \in Nat /\ a \div m \in Nat
  BY DivMod
<1> QED BY <1>1, MultipleMod

\* A number by its quotient and its remainder.
LEMMA DivSplits ==
  ASSUME NEW a \in Nat, NEW m \in Nat, m > 0
  PROVE  a \div m \in Nat /\ a % m \in 0 .. m - 1 /\ a = (a \div m) * m + (a % m)
BY DivMod

\* A larger number has no smaller quotient.
LEMMA DivGrows ==
  ASSUME NEW a \in Nat, NEW b \in Nat, NEW m \in Nat, m > 0, a <= b
  PROVE  a \div m <= b \div m
<1> DEFINE p == a \div m
           q == b \div m
<1>1. p \in Nat /\ m * p <= a /\ q \in Nat /\ b < m * q + m
  BY DivMod
<1> HIDE DEF p, q
<1>2. ~(p > q)
  <2> SUFFICES ASSUME p > q PROVE FALSE
    OBVIOUS
  <2> DEFINE d == p - q
  <2>1. d \in Nat /\ d >= 1 /\ p = q + d
    BY <1>1
  <2> HIDE DEF d
  <2>2. m * p = m * q + m * d /\ m * d >= m
    BY <2>1, <1>1
  <2> QED BY <1>1, <2>2
<1> QED BY <1>1, <1>2 DEF p, q
=============================================================================
