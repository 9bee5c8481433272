---------------------------- MODULE NumberFacts ----------------------------
(***************************************************************************)
(* Facts about numbers the proofs of the sample path rest on: remainders,  *)
(* which every ring is indexed by, and induction over the naturals, stated *)
(* with a set where the library has an operator.                           *)
(***************************************************************************)
EXTENDS Integers, WellFoundedInduction, TLAPS

-----------------------------------------------------------------------------
(* Remainders. *)

LEMMA Division ==
  ASSUME NEW m \in Nat \ {0}, NEW x \in Int
  PROVE  x % m \in 0..m-1 /\ x \div m \in Int /\ x = m * (x \div m) + (x % m)
OBVIOUS

LEMMA AtLeastOnce ==
  ASSUME NEW m \in Nat \ {0}, NEW d \in Int, d >= 1
  PROVE  m * d >= m
OBVIOUS

\* Quotient and remainder are unique.
LEMMA OneQuotient ==
  ASSUME NEW m \in Nat \ {0}, NEW q1 \in Int, NEW r1 \in 0..m-1,
         NEW q2 \in Int, NEW r2 \in 0..m-1, m * q1 + r1 = m * q2 + r2
  PROVE  q1 = q2 /\ r1 = r2
<1>1. ~(q1 > q2)
  <2> SUFFICES ASSUME q1 > q2 PROVE FALSE
    OBVIOUS
  <2>1. m * (q1 - q2) >= m
    BY AtLeastOnce
  <2>2. m * (q1 - q2) = m * q1 - m * q2
    OBVIOUS
  <2> QED
    BY <2>1, <2>2
<1>2. ~(q2 > q1)
  <2> SUFFICES ASSUME q2 > q1 PROVE FALSE
    OBVIOUS
  <2>1. m * (q2 - q1) >= m
    BY AtLeastOnce
  <2>2. m * (q2 - q1) = m * q2 - m * q1
    OBVIOUS
  <2> QED
    BY <2>1, <2>2
<1> QED
  BY <1>1, <1>2

LEMMA RemainderIs ==
  ASSUME NEW m \in Nat \ {0}, NEW q \in Int, NEW r \in 0..m-1, NEW x \in Int,
         x = m * q + r
  PROVE  x % m = r
<1>1. x % m \in 0..m-1 /\ x \div m \in Int /\ x = m * (x \div m) + (x % m)
  BY Division
<1> QED
  BY <1>1, OneQuotient

LEMMA QuotientIs ==
  ASSUME NEW m \in Nat \ {0}, NEW q \in Int, NEW r \in 0..m-1, NEW x \in Int,
         x = m * q + r
  PROVE  x \div m = q
<1>1. x % m \in 0..m-1 /\ x \div m \in Int /\ x = m * (x \div m) + (x % m)
  BY Division
<1> QED
  BY <1>1, OneQuotient

\* A multiple of the modulus is lost in the remainder.
LEMMA RemainderOfShift ==
  ASSUME NEW m \in Nat \ {0}, NEW x \in Int, NEW q \in Int
  PROVE  (x + m * q) % m = x % m
<1>1. PICK p \in Int, r \in 0..m-1 : r = x % m /\ x = m * p + r
  BY Division
<1>2. PICK y \in Int, s \in Int : y = x + m * q /\ s = p + q
  OBVIOUS
<1>3. m * s = m * p + m * q
  BY <1>2
<1>4. y = m * s + r
  BY <1>1, <1>2, <1>3
<1>5. y % m = r
  BY <1>4, RemainderIs
<1> QED
  BY <1>1, <1>2, <1>5

\* A remainder may be taken before an addition as well as after it.
LEMMA RemainderOfSum ==
  ASSUME NEW m \in Nat \ {0}, NEW x \in Int, NEW y \in Int
  PROVE  ((x % m) + y) % m = (x + y) % m
<1>1. x % m \in 0..m-1 /\ x \div m \in Int /\ x = m * (x \div m) + (x % m)
  BY Division
<1> DEFINE q == x \div m
           r == x % m
<1>2. r + y \in Int /\ q \in Int /\ x + y = (r + y) + m * q
  BY <1>1
<1> HIDE DEF q, r
<1>3. ((r + y) + m * q) % m = (r + y) % m
  BY <1>2, RemainderOfShift
<1> QED
  BY <1>2, <1>3 DEF r

\* A modulus that divides another can be applied after it.
LEMMA RemainderOfRemainder ==
  ASSUME NEW m \in Nat \ {0}, NEW n \in Nat \ {0}, n % m = 0, NEW x \in Int
  PROVE  (x % n) % m = x % m
<1>1. x % n \in 0..n-1 /\ x \div n \in Int /\ x = n * (x \div n) + (x % n)
  BY Division
<1>2. n \div m \in Int /\ n = m * (n \div m)
  BY Division
<1> DEFINE q == x \div n
           r == x % n
           p == n \div m
<1>3. r \in Int /\ q \in Int /\ p \in Int /\ x = n * q + r /\ n = m * p
  BY <1>1, <1>2
<1> HIDE DEF q, r, p
<1>4. n * q = m * (p * q) /\ p * q \in Int
  BY <1>3
<1>5. x = r + m * (p * q)
  BY <1>3, <1>4
<1>6. (r + m * (p * q)) % m = r % m
  BY <1>3, <1>4, RemainderOfShift
<1> QED
  BY <1>5, <1>6 DEF r

\* Two numbers less than a modulus apart with the same remainder are equal.
LEMMA NearAndCongruent ==
  ASSUME NEW m \in Nat \ {0}, NEW x \in Int, NEW y \in Int,
         x % m = y % m, x - y < m, y - x < m
  PROVE  x = y
<1>1. x % m \in 0..m-1 /\ x \div m \in Int /\ x = m * (x \div m) + (x % m)
  BY Division
<1>2. y % m \in 0..m-1 /\ y \div m \in Int /\ y = m * (y \div m) + (y % m)
  BY Division
<1> DEFINE p == x \div m
           q == y \div m
           r == x % m
<1>3. p \in Int /\ q \in Int /\ r \in Int /\ x = m * p + r /\ y = m * q + r
  BY <1>1, <1>2
<1> HIDE DEF p, q, r
<1>4. ~(p - q >= 1)
  <2> SUFFICES ASSUME p - q >= 1 PROVE FALSE
    OBVIOUS
  <2>1. m * (p - q) >= m /\ m * (p - q) = m * p - m * q
    BY <1>3, AtLeastOnce
  <2> QED
    BY <1>3, <2>1
<1>5. ~(q - p >= 1)
  <2> SUFFICES ASSUME q - p >= 1 PROVE FALSE
    OBVIOUS
  <2>1. m * (q - p) >= m /\ m * (q - p) = m * q - m * p
    BY <1>3, AtLeastOnce
  <2> QED
    BY <1>3, <2>1
<1> QED
  BY <1>3, <1>4, <1>5

\* Among any m numbers in a row one has the remainder of a given number.
LEMMA OneInEveryLap ==
  ASSUME NEW m \in Nat \ {0}, NEW x \in Int, NEW top \in Int
  PROVE  \E y \in Int : top - m < y /\ y <= top /\ y % m = x % m /\ (y - x) % m = 0
<1>1. PICK d \in Int : d = top - x
  OBVIOUS
<1>2. d % m \in 0..m-1 /\ d \div m \in Int /\ d = m * (d \div m) + (d % m)
  BY Division
<1>3. PICK q \in Int, r \in 0..m-1, y \in Int :
        d = m * q + r /\ y = x + m * q
  BY <1>2
<1>4. y % m = x % m
  BY <1>3, RemainderOfShift
<1>5. (y - x) % m = 0
  <2>1. PICK e \in Int : e = y - x
    OBVIOUS
  <2>2. e = m * q + 0 /\ 0 \in 0..m-1
    BY <1>3, <2>1
  <2>3. e % m = 0
    BY <2>2, RemainderIs
  <2> QED
    BY <2>1, <2>3
<1>6. y = top - r
  BY <1>1, <1>3
<1>7. top - m < y /\ y <= top
  BY <1>6
<1> QED
  BY <1>4, <1>5, <1>7

-----------------------------------------------------------------------------
(* Induction. *)

Less == {ss \in Nat \X Nat : ss[1] < ss[2]}

LEMMA LessIsWellFounded == IsWellFoundedOn(Less, Nat)
BY NatLessThanWellFounded DEF OpToRel, Less

\* A set of naturals that is not empty has a least member.
LEMMA Least ==
  ASSUME NEW S \in SUBSET Nat, S # {}
  PROVE  \E m \in S : \A k \in S : ~(k < m)
<1>1. \E m \in S : \A k \in S : <<k, m>> \notin Less
  BY LessIsWellFounded, WFMin
<1> QED
  BY <1>1 DEF Less

\* A set with 0 and the successor of every natural in it has every natural.
LEMMA Induction ==
  ASSUME NEW S, 0 \in S, \A n \in Nat : n \in S => n + 1 \in S
  PROVE  Nat \subseteq S
<1> SUFFICES ASSUME Nat \ S # {} PROVE FALSE
  OBVIOUS
<1>1. PICK m \in Nat \ S : \A k \in Nat \ S : ~(k < m)
  BY Least
<1>2. m # 0 /\ m \in Nat /\ m - 1 \in Nat
  BY <1>1
<1>3. m - 1 \in S
  BY <1>1, <1>2
<1> QED
  BY <1>1, <1>2, <1>3

\* Induction up to a bound.
LEMMA InductionUpTo ==
  ASSUME NEW n \in Nat, NEW S, 0 \in S, \A i \in 1..n : i - 1 \in S => i \in S
  PROVE  0..n \subseteq S
<1> DEFINE T == {m \in Nat : m <= n => m \in S}
<1>1. 0 \in T
  OBVIOUS
<1>2. ASSUME NEW m \in Nat, m \in T
      PROVE  m + 1 \in T
  <2>1. m + 1 <= n => m + 1 \in 1..n /\ (m + 1) - 1 \in S
    BY <1>2
  <2> QED
    BY <2>1
<1>3. Nat \subseteq T
  <2> HIDE DEF T
  <2> QED
    BY <1>1, <1>2, Induction
<1> QED
  BY <1>3

\* g takes each value of a recursion in S to the next, f is the recursion.
Steps(g, n, S) == \A i \in 1..n, s \in S : g[i][s] \in S
Recurs(f, base, g, n, S) ==
  f \in [0..n -> S] /\ f[0] = base /\ \A i \in 1..n : f[i] = g[i][f[i - 1]]

\* A function may be defined by recursion: each value from the one before.
LEMMA Recursion ==
  ASSUME NEW S, NEW base \in S, NEW n \in Nat, NEW g, Steps(g, n, S)
  PROVE  \E f : Recurs(f, base, g, n, S)
<1> USE DEF Steps, Recurs
<1> DEFINE Upto(m) == {f \in [0..m -> S] :
             f[0] = base /\ \A i \in 1..m : f[i] = g[i][f[i - 1]]}
           Good == {m \in Nat : m <= n => Upto(m) # {}}
<1>1. 0 \in Good
  <2>1. [i \in 0..0 |-> base] \in Upto(0)
    OBVIOUS
  <2> QED
    BY <2>1
<1>2. ASSUME NEW m \in Nat, m \in Good
      PROVE  m + 1 \in Good
  <2> SUFFICES ASSUME m + 1 <= n PROVE Upto(m + 1) # {}
    OBVIOUS
  <2>1. PICK f : f \in Upto(m)
    BY <1>2
  <2> DEFINE h == [i \in 0..m+1 |-> IF i = m + 1 THEN g[m + 1][f[m]] ELSE f[i]]
  <2>2. f[m] \in S /\ m + 1 \in 1..n
    BY <2>1
  <2>3. h \in [0..m+1 -> S]
    BY <2>1, <2>2
  <2>4. h[0] = base
    BY <2>1
  <2>5. ASSUME NEW i \in 1..m+1
        PROVE  h[i] = g[i][h[i - 1]]
    <3>1. CASE i = m + 1
      <4>1. i - 1 = m /\ i - 1 \in 0..m+1 /\ i - 1 # m + 1
        BY <3>1
      <4>2. h[i - 1] = f[m]
        BY <4>1
      <4> QED
        BY <3>1, <4>1, <4>2
    <3>2. CASE i \in 1..m
      <4>1. f[i] = g[i][f[i - 1]]
        BY <2>1, <3>2
      <4>2. h[i] = f[i] /\ h[i - 1] = f[i - 1]
        BY <3>2
      <4> QED
        BY <4>1, <4>2
    <3> QED
      BY <3>1, <3>2
  <2> HIDE DEF h
  <2> QED
    BY <2>3, <2>4, <2>5
<1> HIDE DEF Upto
<1>3. Nat \subseteq Good
  <2> HIDE DEF Good
  <2> QED
    BY <1>1, <1>2, Induction
<1>4. Upto(n) # {}
  BY <1>3
<1> QED
  BY <1>4 DEF Upto
=============================================================================
