------------------------------- MODULE Induction -------------------------------
(* Induction and recursion over the natural numbers, with sets and functions   *)
(* in the place of predicates and operators, and the division of numbers, for   *)
(* the proofs of this project.                                                 *)
EXTENDS Integers, TLAPS, WellFoundedInduction

\* Numbers have a least one.
LEMMA NatLeast ==
    ASSUME NEW T, T \subseteq Nat, T # {}
    PROVE  \E x \in T : \A y \in T : x <= y
<1>1. IsWellFoundedOn(OpToRel(<, Nat), Nat)
  BY NatLessThanWellFounded
<1>2. PICK x \in T : \A y \in T : ~(<<y, x>> \in OpToRel(<, Nat))
  BY <1>1, WFMin
<1>3. \A y \in T : ~(y < x)
  BY <1>2 DEF OpToRel
<1>4. \A y \in T : x \in Int /\ y \in Int
  OBVIOUS
<1>5. \A y \in T : x <= y
  BY <1>3, <1>4
<1> QED BY <1>5

\* What holds of 0 and of n + 1 if it holds of n holds of all.
LEMMA SetInduction ==
    ASSUME NEW S, 0 \in S, \A n \in Nat : n \in S => n + 1 \in S
    PROVE  Nat \subseteq S
<1> SUFFICES ASSUME Nat \ S # {} PROVE FALSE
  OBVIOUS
<1>1. PICK x \in Nat \ S : \A y \in Nat \ S : x <= y
  BY NatLeast
<1>2. x - 1 \in Nat /\ x - 1 + 1 = x
  BY <1>1
<1>3. x - 1 \in S
  BY <1>1, <1>2
<1> QED BY <1>1, <1>2, <1>3

\* The function with a first value and the steps from each value to the next
StepsIn(F, V) == F \in [Nat -> [V -> V]]
FollowsSteps(f, V, z, F) ==
    f \in [Nat -> V] /\ f[0] = z /\ \A n \in Nat : f[n + 1] = F[n][f[n]]

\* A function on the numbers may be defined by its first value and its steps.
LEMMA Recursion ==
    ASSUME NEW V, NEW z \in V, NEW F, StepsIn(F, V)
    PROVE  \E f : FollowsSteps(f, V, z, F)
<1> USE DEF StepsIn
<1> DEFINE Upto(n) == {h \in [0 .. n -> V] :
                          h[0] = z /\ \A i \in 0 .. n - 1 : h[i + 1] = F[i][h[i]]}
<1>1. \A n \in Nat : Upto(n) # {}
  <2> DEFINE S == {n \in Nat : Upto(n) # {}}
  <2>1. 0 \in S
    <3>1. [i \in 0 .. 0 |-> z] \in Upto(0)
      OBVIOUS
    <3> QED BY <3>1
  <2>2. ASSUME NEW n \in Nat, n \in S PROVE n + 1 \in S
    <3>1. PICK h : h \in Upto(n)
      BY <2>2
    <3> DEFINE g == [i \in 0 .. n + 1 |-> IF i = n + 1 THEN F[n][h[n]] ELSE h[i]]
    <3>2. h \in [0 .. n -> V] /\ h[0] = z /\ \A i \in 0 .. n - 1 : h[i + 1] = F[i][h[i]]
      BY <3>1
    <3>3. g \in [0 .. n + 1 -> V]
      <4>1. F[n][h[n]] \in V
        BY <3>2
      <4>2. \A i \in 0 .. n + 1 : i # n + 1 => i \in 0 .. n
        OBVIOUS
      <4> QED BY <3>2, <4>1, <4>2
    <3>4. g[0] = z
      BY <3>2
    <3>5. ASSUME NEW i \in 0 .. n PROVE g[i + 1] = F[i][g[i]]
      <4>1. CASE i = n
        BY <4>1
      <4>2. CASE i # n
        <5>1. i \in 0 .. n - 1 /\ i + 1 # n + 1 /\ i + 1 \in 0 .. n + 1 /\ i \in 0 .. n + 1
              /\ i # n + 1
          BY <4>2
        <5> QED BY <3>2, <5>1
      <4> QED BY <4>1, <4>2
    <3> HIDE DEF g
    <3>6. g \in Upto(n + 1)
      BY <3>3, <3>4, <3>5
    <3> QED BY <3>6
  <2> HIDE DEF Upto
  <2>3. Nat \subseteq S
    BY <2>1, <2>2, SetInduction
  <2> QED BY <2>3
<1>2. ASSUME NEW m \in Nat, NEW n \in Nat, NEW g \in Upto(m), NEW h \in Upto(n),
             NEW i \in Nat, i <= m, i <= n
      PROVE  g[i] = h[i]
  <2> DEFINE S == {j \in Nat : j <= m /\ j <= n => g[j] = h[j]}
  <2>1. 0 \in S
    OBVIOUS
  <2>2. ASSUME NEW j \in Nat, j \in S PROVE j + 1 \in S
    <3> SUFFICES ASSUME j + 1 <= m, j + 1 <= n PROVE g[j + 1] = h[j + 1]
      OBVIOUS
    <3>1. j \in 0 .. m - 1 /\ j \in 0 .. n - 1 /\ j <= m /\ j <= n
      OBVIOUS
    <3>2. g[j + 1] = F[j][g[j]] /\ h[j + 1] = F[j][h[j]]
      BY <3>1
    <3> QED BY <2>2, <3>1, <3>2
  <2>3. Nat \subseteq S
    BY <2>1, <2>2, SetInduction
  <2> QED BY <1>2, <2>3
<1> DEFINE f == [n \in Nat |-> (CHOOSE h : h \in Upto(n))[n]]
<1>3. ASSUME NEW n \in Nat PROVE \E h \in Upto(n) : f[n] = h[n]
  <2>1. (CHOOSE h : h \in Upto(n)) \in Upto(n)
    BY <1>1
  <2> QED BY <2>1
<1>4. f \in [Nat -> V]
  <2>1. ASSUME NEW n \in Nat PROVE f[n] \in V
    <3>1. PICK h \in Upto(n) : f[n] = h[n]
      BY <1>3
    <3> QED BY <3>1
  <2> QED BY <2>1
<1>5. f[0] = z
  <2>1. PICK h \in Upto(0) : f[0] = h[0]
    BY <1>3
  <2> QED BY <2>1
<1>6. ASSUME NEW n \in Nat PROVE f[n + 1] = F[n][f[n]]
  <2> HIDE DEF f
  <2>0. n + 1 \in Nat /\ n <= n /\ n <= n + 1
    OBVIOUS
  <2>1. PICK g : g \in Upto(n) /\ f[n] = g[n]
    <3> HIDE DEF Upto
    <3> QED BY <1>3
  <2>2. PICK h : h \in Upto(n + 1) /\ f[n + 1] = h[n + 1]
    <3> HIDE DEF Upto
    <3> QED BY <1>3, <2>0
  <2>3. g[n] = h[n]
    <3> HIDE DEF Upto
    <3> QED BY <1>2, <2>0, <2>1, <2>2
  <2>4. h[n + 1] = F[n][h[n]]
    <3>1. n \in 0 .. (n + 1) - 1
      OBVIOUS
    <3> QED BY <2>2, <3>1
  <2> QED BY <2>1, <2>2, <2>3, <2>4
<1> HIDE DEF f
<1> QED BY <1>4, <1>5, <1>6 DEF FollowsSteps

-----------------------------------------------------------------------------
(* Quotients and remainders.                                                   *)

\* A positive number times another is not below it.
LEMMA Multiple ==
    ASSUME NEW b \in Nat \ {0}, NEW k \in Int, k >= 1
    PROVE  b * k >= b
<1>1. b * k = b * (k - 1) + b
  OBVIOUS
<1>2. b * (k - 1) >= 0
  OBVIOUS
<1> QED BY <1>1, <1>2

\* What quotient and remainder are.
LEMMA Division ==
    ASSUME NEW a \in Nat, NEW b \in Nat \ {0}
    PROVE  /\ a \div b \in Nat /\ a % b \in 0 .. b - 1
           /\ a = b * (a \div b) + (a % b)
  OBVIOUS

\* There is one quotient and one remainder.
LEMMA OneDivision ==
    ASSUME NEW b \in Nat \ {0}, NEW q1 \in Int, NEW q2 \in Int,
           NEW r1 \in 0 .. b - 1, NEW r2 \in 0 .. b - 1, b * q1 + r1 = b * q2 + r2
    PROVE  q1 = q2 /\ r1 = r2
<1>1. b * (q1 - q2) = r2 - r1 /\ b * (q2 - q1) = r1 - r2
  OBVIOUS
<1>2. ~(q1 - q2 >= 1)
  BY <1>1, Multiple
<1>3. ~(q2 - q1 >= 1)
  BY <1>1, Multiple
<1>4. q1 = q2
  BY <1>2, <1>3
<1> QED BY <1>4

\* Two numbers with the same remainder, less than the divisor apart, are equal.
LEMMA SamePlace ==
    ASSUME NEW b \in Nat \ {0}, NEW p \in Nat,
           NEW x \in p .. p + b - 1, NEW y \in p .. p + b - 1, x % b = y % b
    PROVE  x = y
<1> DEFINE qx == x \div b
           qy == y \div b
           r == x % b
<1>0. x \in Nat /\ y \in Nat
  OBVIOUS
<1>1. qx \in Nat /\ qy \in Nat /\ r \in Nat /\ x = b * qx + r /\ y = b * qy + r
  <2>1. x \div b \in Nat /\ x % b \in 0 .. b - 1 /\ x = b * (x \div b) + (x % b)
    BY <1>0, Division
  <2>2. y \div b \in Nat /\ y = b * (y \div b) + (y % b)
    BY <1>0, Division
  <2> QED BY <2>1, <2>2
<1> HIDE DEF qx, qy, r
<1>2. x - y = b * (qx - qy) /\ y - x = b * (qy - qx)
  BY <1>1
<1>3. ~(qx - qy >= 1)
  BY <1>1, <1>2, Multiple
<1>4. ~(qy - qx >= 1)
  BY <1>1, <1>2, Multiple
<1>5. qx = qy
  BY <1>1, <1>3, <1>4
<1> QED BY <1>1, <1>5

\* A number lies between its quotient's multiple and the next.
LEMMA QuotientBounds ==
    ASSUME NEW a \in Nat, NEW b \in Nat \ {0}
    PROVE  a \div b \in Nat /\ b * (a \div b) <= a /\ a < b * (a \div b) + b
<1> DEFINE q == a \div b
           r == a % b
<1>1. q \in Nat /\ r \in 0 .. b - 1 /\ a = b * q + r
  BY Division
<1> HIDE DEF q, r
<1>2. b * q \in Int
  BY <1>1
<1>3. q \in Nat /\ b * q <= a /\ a < b * q + b
  BY <1>1, <1>2
<1> QED BY <1>3 DEF q

\* The quotient is the number whose multiples lie around.
LEMMA QuotientIs ==
    ASSUME NEW b \in Nat \ {0}, NEW a \in Nat, NEW q \in Int, b * q <= a, a < b * q + b
    PROVE  a \div b = q /\ a % b = a - b * q
<1>1. a \div b \in Nat /\ a % b \in 0 .. b - 1 /\ a = b * (a \div b) + (a % b)
  BY Division
<1>2. a - b * q \in 0 .. b - 1 /\ b * q + (a - b * q) = b * (a \div b) + (a % b)
  BY <1>1
<1> QED BY <1>1, <1>2, OneDivision

\* A number that is less than the divisor is the remainder.
LEMMA SmallQuotient ==
    ASSUME NEW b \in Nat \ {0}, NEW a \in Nat, a < b
    PROVE  a \div b = 0 /\ a % b = a
<1>1. b * 0 = 0
  OBVIOUS
<1>2. b * 0 <= a /\ a < b * 0 + b
  BY <1>1
<1>3. a \div b = 0 /\ a % b = a - b * 0
  BY <1>2, QuotientIs
<1> QED BY <1>1, <1>3

\* The quotient of a number that is a multiple larger.
LEMMA QuotientPlus ==
    ASSUME NEW b \in Nat \ {0}, NEW a \in Nat, NEW k \in Int, b * k + a \in Nat
    PROVE  (b * k + a) \div b = k + (a \div b) /\ (b * k + a) % b = a % b
<1> DEFINE q == a \div b
           r == a % b
<1>1. q \in Nat /\ r \in 0 .. b - 1 /\ a = b * q + r
  BY Division
<1> HIDE DEF q, r
<1>2. b * (k + q) = b * k + b * q
  BY <1>1
<1>3. b * (k + q) <= b * k + a /\ b * k + a < b * (k + q) + b /\ (b * k + a) - b * (k + q) = r
  BY <1>1, <1>2
<1>4. k + q \in Int
  BY <1>1
<1>5. (b * k + a) \div b = k + q /\ (b * k + a) % b = r
  BY <1>3, <1>4, QuotientIs
<1> QED BY <1>5 DEF q, r

\* A larger number has no smaller quotient.
LEMMA QuotientGrows ==
    ASSUME NEW b \in Nat \ {0}, NEW a \in Nat, NEW c \in Nat, a <= c
    PROVE  a \div b <= c \div b
<1> DEFINE q == a \div b
           p == c \div b
<1>1. q \in Nat /\ b * q <= a
  BY Division
<1>2. p \in Nat /\ c < b * p + b
  BY Division
<1> HIDE DEF q, p
<1> SUFFICES ASSUME ~(q <= p) PROVE FALSE
  BY DEF q, p
<1>3. q - p - 1 >= 0
  BY <1>1, <1>2
<1>4. b * (q - p - 1) >= 0
  BY <1>1, <1>2, <1>3
<1>5. b * (q - p - 1) = b * q - b * p - b
  BY <1>1, <1>2
<1> QED BY <1>1, <1>2, <1>4, <1>5
===============================================================================
