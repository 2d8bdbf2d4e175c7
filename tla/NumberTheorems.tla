--------------------------- MODULE NumberTheorems ---------------------------
(***************************************************************************)
(* Facts about sets of numbers that several proofs need.                   *)
(***************************************************************************)
EXTENDS Integers, WellFoundedInduction, TLAPS

(* Every non-empty set of numbers has a least one: the first free address  *)
(* of a pool, the first component of a list.                               *)
LEMMA LeastNumber ==
    ASSUME NEW S \in SUBSET Nat, S # {}
    PROVE  \E x \in S : \A y \in S : x <= y
<1> DEFINE R == {p \in Nat \X Nat : p[1] < p[2]}
<1>1. IsWellFoundedOn(OpToRel(<, Nat), Nat)
  BY NatLessThanWellFounded
<1>2. OpToRel(<, Nat) = R
  BY DEF OpToRel
<1>3. PICK x \in S : \A y \in S : <<y, x>> \notin R
  BY <1>1, <1>2, WFMin
<1>4. ASSUME NEW y \in S
      PROVE  x <= y
  <2>1. ~(y < x)
    BY <1>3
  <2> QED
    BY <2>1
<1> QED
  BY <1>4

(* Induction over an interval: what holds at its start, and after every    *)
(* number with the next one, holds everywhere.                             *)
LEMMA IntervalInduction ==
    ASSUME NEW n \in Nat, NEW P \in SUBSET Nat,
           0 \in P, \A k \in 1..n : k - 1 \in P => k \in P
    PROVE  0..n \subseteq P
<1> DEFINE S == (0..n) \ P
<1>1. CASE S = {}
  BY <1>1
<1>2. CASE S # {}
  <2>0. S \in SUBSET Nat
    OBVIOUS
  <2> HIDE DEF S
  <2>1. PICK x \in S : \A y \in S : x <= y
    BY <1>2, <2>0, LeastNumber
  <2> USE DEF S
  <2>2. x \in 1..n /\ x - 1 \in 0..n /\ ~(x <= x - 1)
    BY <2>1
  <2> QED
    BY <2>1, <2>2
<1> QED
  BY <1>1, <1>2

(* A function defined by recursion over an interval exists: F gives the    *)
(* value at k from the one before.                                         *)
LEMMA RecursionExists ==
    ASSUME NEW n \in Nat, NEW a \in Int, NEW F \in [1..n -> [Int -> Int]]
    PROVE  \E f \in [0..n -> Int] :
              f[0] = a /\ \A k \in 1..n : f[k] = F[k][f[k - 1]]
<1> DEFINE Good(m, f) == f[0] = a /\ \A k \in 1..m : f[k] = F[k][f[k - 1]]
           P == {m \in 0..n : \E f \in [0..m -> Int] : Good(m, f)}
<1>1. 0 \in P
  <2> DEFINE f == [k \in 0..0 |-> a]
  <2>1. f \in [0..0 -> Int] /\ Good(0, f)
    OBVIOUS
  <2> HIDE DEF f, Good
  <2>2. 0 \in 0..n
    OBVIOUS
  <2> QED
    BY <2>1, <2>2
<1>2. ASSUME NEW m \in 1..n, m - 1 \in P
      PROVE  m \in P
  <2>1. PICK f \in [0..m - 1 -> Int] : Good(m - 1, f)
    BY <1>2
  <2> DEFINE g == [k \in 0..m |-> IF k = m THEN F[m][f[m - 1]] ELSE f[k]]
  <2>2. m - 1 \in 0..m - 1 /\ f[m - 1] \in Int
    OBVIOUS
  <2>3. F[m][f[m - 1]] \in Int
    BY <2>2
  <2>4. g \in [0..m -> Int]
    BY <2>3
  <2>5. ASSUME NEW k \in 1..m
        PROVE  g[k] = F[k][g[k - 1]]
    <3>1. k \in 0..m /\ k - 1 \in 0..m /\ k - 1 # m /\ g[k - 1] = f[k - 1]
      OBVIOUS
    <3>2. CASE k = m
      BY <3>1, <3>2
    <3>3. CASE k # m
      <4>1. k \in 1..m - 1 /\ g[k] = f[k]
        BY <3>1, <3>3
      <4> QED
        BY <2>1, <3>1, <4>1
    <3> QED
      BY <3>2, <3>3
  <2>6. g[0] = a
    BY <2>1
  <2>7. m \in 0..n
    OBVIOUS
  <2> HIDE DEF g
  <2> QED
    BY <2>4, <2>5, <2>6, <2>7
<1>3. n \in P
  <2> HIDE DEF P
  <2>1. P \subseteq Nat
    BY DEF P
  <2>2. 0..n \subseteq P
    BY <1>1, <1>2, <2>1, IntervalInduction
  <2> QED
    BY <2>2
<1> QED
  BY <1>3

(* Quotients: what they are, what determines them, and one after the other. *)
LEMMA Division ==
    ASSUME NEW x \in Int, NEW n \in Nat \ {0}
    PROVE  /\ x \div n \in Int /\ x % n \in 0..n - 1
           /\ x = n * (x \div n) + (x % n)
OBVIOUS

(* A quotient is known from its bounds.                                    *)
LEMMA Quotient ==
    ASSUME NEW x \in Int, NEW n \in Nat \ {0}, NEW q \in Int,
           n * q <= x, x < n * q + n
    PROVE  x \div n = q
OBVIOUS

(* Dividing twice is dividing by the product.                              *)
LEMMA QuotientOfQuotient ==
    ASSUME NEW x \in Int, NEW m \in Nat \ {0}, NEW n \in Nat \ {0}
    PROVE  (x \div m) \div n = x \div (n * m)
<1> DEFINE y == x \div m
           q == y \div n
<1>1. y \in Int /\ m * y <= x /\ x < m * y + m
  BY Division
<1>2. q \in Int /\ n * q <= y /\ y + 1 <= n * q + n
  BY <1>1, Division
<1> HIDE DEF y, q
<1>3. m * (n * q) <= m * y /\ m * (y + 1) <= m * (n * q + n)
  BY <1>1, <1>2, Z3
<1>4. (n * m) * q <= x /\ x < (n * m) * q + n * m
  BY <1>1, <1>2, <1>3, Z3
<1>5. n * m \in Nat \ {0}
  OBVIOUS
<1>6. x \div (n * m) = q
  BY <1>2, <1>4, <1>5, Quotient
<1> QED
  BY <1>6 DEF q, y
=============================================================================
