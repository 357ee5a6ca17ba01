----------------------- MODULE Evidence_proofs -----------------------
(* Theorems about inclusion proofs, for any log, any size of its trees and any *)
(* proofs; about lists of SCTs, of any SCTs and damaged in any of four ways;   *)
(* and about ASN.1, for any bytes: what is read of them, and what is written    *)
(* of what was read, of DER, and of an INTEGER.                              *)
(*                                                                         *)
(* The tree divides its entries at the largest power of two, from the root    *)
(* down, and the code reads the bits of the index, from the leaf up: the      *)
(* lemmas show, by induction on the width of a tree, that the two meet.  The   *)
(* functions that read bytes are recursive: a lemma shows that there are such  *)
(* functions, and from there on the positions in the bytes are followed.       *)
EXTENDS Evidence, FiniteSetTheorems, SequenceTheorems, WellFoundedInduction, TLAPS

(* Any set of numbers has a least one.                                     *)
LEMMA LeastNumber ==
  ASSUME NEW S \in SUBSET Nat, S # {}
  PROVE  \E x \in S : \A y \in S : x <= y
<1>1. PICK x \in S : \A y \in S : ~ (<<y, x>> \in OpToRel(<, Nat))
  BY NatLessThanWellFounded, WFMin
<1>2. ASSUME NEW y \in S PROVE x <= y
  <2>1. ~ (y < x)
    BY <1>1 DEF OpToRel
  <2> QED BY <2>1
<1> QED BY <1>2

-----------------------------------------------------------------------------
(* Powers of two.                                                          *)
Doubles(f, n) == f = [k \in 0 .. n |-> IF k = 0 THEN 1 ELSE 2 * f[k - 1]]

LEMMA DoublesExtends ==
  ASSUME NEW n \in Nat, NEW f, Doubles(f, n)
  PROVE  \E g : Doubles(g, n + 1)
<1> DEFINE g == [k \in 0 .. n + 1 |-> IF k = 0 THEN 1 ELSE 2 * f[k - 1]]
<1>1. \A k \in 0 .. n : g[k] = f[k]
  BY DEF Doubles
<1>2. \A k \in 0 .. n + 1 : k # 0 => k - 1 \in 0 .. n
  OBVIOUS
<1>3. g = [k \in 0 .. n + 1 |-> IF k = 0 THEN 1 ELSE 2 * g[k - 1]]
  BY <1>1, <1>2
<1> QED BY <1>3 DEF Doubles

LEMMA DoublesExists ==
  ASSUME NEW n \in Nat
  PROVE  \E f : Doubles(f, n)
<1> DEFINE Missing == {k \in Nat : ~ \E f : Doubles(f, k)}
<1>1. SUFFICES ASSUME Missing # {} PROVE FALSE
  OBVIOUS
<1>2. PICK m \in Missing : \A k \in Missing : m <= k
  <2>1. Missing \in SUBSET Nat
    OBVIOUS
  <2> HIDE DEF Missing
  <2> QED BY <1>1, <2>1, LeastNumber
<1>3. CASE m = 0
  <2>1. Doubles([k \in 0 .. 0 |-> 1], 0)
    BY DEF Doubles
  <2> QED BY <1>2, <1>3, <2>1
<1>4. CASE m # 0
  <2>1. m - 1 \in Nat /\ (m - 1) + 1 = m /\ ~ (m <= m - 1)
    BY <1>2, <1>4
  <2>2. PICK f : Doubles(f, m - 1)
    BY <1>2, <2>1
  <2>3. \E g : Doubles(g, (m - 1) + 1)
    BY <2>1, <2>2, DoublesExtends
  <2> QED BY <1>2, <2>1, <2>3
<1> QED BY <1>3, <1>4

LEMMA DoublesAgree ==
  ASSUME NEW n \in Nat, NEW f, Doubles(f, n), NEW g, Doubles(g, n + 1)
  PROVE  \A k \in 0 .. n : f[k] = g[k]
<1> DEFINE Astray == {k \in 0 .. n : f[k] # g[k]}
<1>1. SUFFICES ASSUME Astray # {} PROVE FALSE
  OBVIOUS
<1>2. PICK m \in Astray : \A k \in Astray : m <= k
  <2>1. Astray \in SUBSET Nat
    OBVIOUS
  <2> HIDE DEF Astray
  <2> QED BY <1>1, <2>1, LeastNumber
<1>3. m \in 0 .. n /\ m \in 0 .. n + 1 /\ f[m] # g[m]
  BY <1>2
<1>4. f[m] = (IF m = 0 THEN 1 ELSE 2 * f[m - 1]) /\ g[m] = (IF m = 0 THEN 1 ELSE 2 * g[m - 1])
  BY <1>3 DEF Doubles
<1>5. m # 0 /\ m - 1 \in 0 .. n /\ ~ (m <= m - 1)
  BY <1>3, <1>4
<1>6. f[m - 1] = g[m - 1]
  BY <1>2, <1>5
<1> QED BY <1>3, <1>4, <1>5, <1>6

LEMMA TwoIs == Two = [k \in Nat |-> IF k = 0 THEN 1 ELSE 2 * Two[k - 1]]
<1> DEFINE part == [n \in Nat |-> CHOOSE f : Doubles(f, n)]
           two == [n \in Nat |-> part[n][n]]
<1>1. \A n \in Nat : Doubles(part[n], n)
  BY DoublesExists
<1>2. ASSUME NEW n \in Nat PROVE two[n] = IF n = 0 THEN 1 ELSE 2 * two[n - 1]
  <2>1. part[n][n] = IF n = 0 THEN 1 ELSE 2 * part[n][n - 1]
    <3>1. n \in 0 .. n /\ Doubles(part[n], n)
      BY <1>1
    <3> HIDE DEF part
    <3> QED BY <3>1 DEF Doubles
  <2>2. ASSUME n # 0 PROVE part[n][n - 1] = part[n - 1][n - 1]
    <3>1. n - 1 \in Nat /\ (n - 1) + 1 = n /\ n - 1 \in 0 .. n - 1
      BY <2>2
    <3>2. Doubles(part[n - 1], n - 1) /\ Doubles(part[n], (n - 1) + 1)
      BY <1>1, <3>1
    <3> HIDE DEF part
    <3> QED BY <3>1, <3>2, DoublesAgree
  <2>3. n # 0 => n - 1 \in Nat
    OBVIOUS
  <2> HIDE DEF part
  <2> QED BY <2>1, <2>2, <2>3
<1>3. two = [k \in Nat |-> IF k = 0 THEN 1 ELSE 2 * two[k - 1]]
  <2>1. two = [k \in Nat |-> two[k]]
    OBVIOUS
  <2> HIDE DEF two
  <2> QED BY <1>2, <2>1
<1> HIDE DEF two
<1> DEFINE Whole(f) == f = [k \in Nat |-> IF k = 0 THEN 1 ELSE 2 * f[k - 1]]
<1>4. Whole(CHOOSE f : Whole(f))
  <2>1. \E f : Whole(f)
    BY <1>3
  <2> HIDE DEF Whole
  <2> QED BY <2>1
<1> QED BY <1>4 DEF Two

LEMMA TwoGrows ==
  /\ Two[0] = 1 /\ \A k \in Nat : Two[k] \in Nat \ {0} /\ Two[k + 1] = 2 * Two[k] /\ Two[k] > k
<1>1. Two[0] = 1 /\ \A k \in Nat : Two[k + 1] = 2 * Two[k]
  <2>1. \A k \in Nat : k + 1 \in Nat /\ k + 1 # 0 /\ (k + 1) - 1 = k
    OBVIOUS
  <2>2. \A k \in Nat : Two[k] = IF k = 0 THEN 1 ELSE 2 * Two[k - 1]
    BY TwoIs
  <2> QED BY <2>1, <2>2
<1> DEFINE Wrong == {k \in Nat : ~ (Two[k] \in Nat /\ Two[k] > k)}
<1>2. Wrong = {}
  <2>1. SUFFICES ASSUME Wrong # {} PROVE FALSE
    OBVIOUS
  <2>2. PICK m \in Wrong : \A k \in Wrong : m <= k
    <3>1. Wrong \in SUBSET Nat
      OBVIOUS
    <3> HIDE DEF Wrong
    <3> QED BY <2>1, <3>1, LeastNumber
  <2>3. m \in Nat /\ m # 0
    BY <1>1, <2>2
  <2>4. m - 1 \in Nat /\ (m - 1) + 1 = m /\ m - 1 \notin Wrong
    BY <2>2, <2>3
  <2>5. Two[m - 1] \in Nat /\ Two[m - 1] > m - 1 /\ Two[m] = 2 * Two[m - 1]
    BY <1>1, <2>4
  <2> QED BY <2>2, <2>4, <2>5
<1>3. \A k \in Nat : Two[k] \in Nat /\ Two[k] > k
  BY <1>2
<1> QED BY <1>1, <1>3

LEMMA TwoSum ==
  ASSUME NEW a \in Nat, NEW b \in Nat
  PROVE  Two[a + b] = Two[a] * Two[b]
<1> DEFINE Wrong == {k \in Nat : Two[a + k] # Two[a] * Two[k]}
<1>1. SUFFICES ASSUME Wrong # {} PROVE FALSE
  OBVIOUS
<1>2. PICK m \in Wrong : \A k \in Wrong : m <= k
  <2>1. Wrong \in SUBSET Nat
    OBVIOUS
  <2> HIDE DEF Wrong
  <2> QED BY <1>1, <2>1, LeastNumber
<1>3. m \in Nat /\ Two[a + m] # Two[a] * Two[m]
  BY <1>2
<1>4. m # 0
  <2>1. Two[a] * 1 = Two[a] /\ a + 0 = a
    BY TwoGrows
  <2> QED BY <1>3, <2>1, TwoGrows
<1>5. m - 1 \in Nat /\ (m - 1) + 1 = m /\ (a + (m - 1)) + 1 = a + m /\ m - 1 \notin Wrong
  BY <1>2, <1>3, <1>4
<1>6. Two[a + (m - 1)] = Two[a] * Two[m - 1]
  BY <1>5
<1>7. Two[m] = 2 * Two[m - 1] /\ Two[a + m] = 2 * Two[a + (m - 1)]
  BY <1>3, <1>5, TwoGrows
<1>8. Two[a] \in Nat /\ Two[m - 1] \in Nat
  BY <1>5, TwoGrows
<1>9. Two[a] * (2 * Two[m - 1]) = 2 * (Two[a] * Two[m - 1])
  BY <1>8
<1> QED BY <1>3, <1>6, <1>7, <1>9

LEMMA TwoMonotone ==
  ASSUME NEW a \in Nat, NEW b \in Nat, a <= b
  PROVE  Two[a] <= Two[b]
<1>1. b - a \in Nat /\ a + (b - a) = b
  OBVIOUS
<1>2. Two[b] = Two[a] * Two[b - a]
  BY <1>1, TwoSum
<1>3. Two[a] \in Nat /\ Two[b - a] \in Nat /\ Two[b - a] >= 1
  BY <1>1, TwoGrows
<1> QED BY <1>2, <1>3

LEMMA TwoSplit ==
  ASSUME NEW a \in Nat, NEW k \in 0 .. a
  PROVE  Two[k] \in Nat \ {0} /\ Two[a - k] \in Nat \ {0} /\ Two[a] = Two[k] * Two[a - k]
<1>1. k \in Nat /\ a - k \in Nat /\ k + (a - k) = a
  OBVIOUS
<1>2. Two[k + (a - k)] = Two[k] * Two[a - k]
  BY <1>1, TwoSum
<1>3. Two[k] \in Nat \ {0} /\ Two[a - k] \in Nat \ {0}
  BY <1>1, TwoGrows
<1> QED BY <1>1, <1>2, <1>3

-----------------------------------------------------------------------------
(* Shifting to the right.                                                  *)
LEMMA Quotient ==
  ASSUME NEW n \in Nat, NEW d \in Nat \ {0}, NEW q \in Nat, NEW r \in 0 .. d - 1, n = d * q + r
  PROVE  n \div d = q
OBVIOUS

LEMMA Remainder ==
  ASSUME NEW n \in Nat, NEW d \in Nat \ {0}
  PROVE  n \div d \in Nat /\ \E r \in 0 .. d - 1 : n = d * (n \div d) + r
<1>1. n \div d \in Nat /\ d * (n \div d) <= n /\ n < d * (n \div d) + d
  OBVIOUS
<1>2. d * (n \div d) \in Nat
  BY <1>1
<1>3. n - d * (n \div d) \in 0 .. d - 1 /\ n = d * (n \div d) + (n - d * (n \div d))
  BY <1>1, <1>2
<1> QED BY <1>1, <1>3

LEMMA ShiftIs ==
  ASSUME NEW n \in Nat, NEW k \in Nat
  PROVE  Shift(n, k) \in Nat /\ \E r \in 0 .. Two[k] - 1 : n = Two[k] * Shift(n, k) + r
BY Remainder, TwoGrows DEF Shift

LEMMA ShiftBy ==
  ASSUME NEW n \in Nat, NEW k \in Nat, NEW q \in Nat, NEW r \in 0 .. Two[k] - 1, n = Two[k] * q + r
  PROVE  Shift(n, k) = q
BY Quotient, TwoGrows DEF Shift

LEMMA ShiftNothing ==
  ASSUME NEW n \in Nat
  PROVE  Shift(n, 0) = n
BY TwoGrows DEF Shift

LEMMA ShiftOut ==
  ASSUME NEW n \in Nat, NEW k \in Nat
  PROVE  Shift(n, k) = 0 <=> n < Two[k]
<1>1. Two[k] \in Nat \ {0}
  BY TwoGrows
<1>2. PICK r \in 0 .. Two[k] - 1 : n = Two[k] * Shift(n, k) + r
  BY ShiftIs
<1>3. Shift(n, k) \in Nat
  BY ShiftIs
<1>4. CASE Shift(n, k) = 0
  BY <1>1, <1>2, <1>4
<1>5. CASE Shift(n, k) >= 1
  <2>1. Two[k] * Shift(n, k) >= Two[k] /\ Two[k] * Shift(n, k) \in Nat
    BY <1>1, <1>3, <1>5
  <2>2. n >= Two[k]
    BY <1>1, <1>2, <2>1
  <2> QED BY <1>1, <1>5, <2>2
<1> QED BY <1>3, <1>4, <1>5

LEMMA ShiftShift ==
  ASSUME NEW n \in Nat, NEW a \in Nat, NEW b \in Nat
  PROVE  Shift(Shift(n, a), b) = Shift(n, a + b)
<1> DEFINE m == Shift(n, a)
           q == Shift(m, b)
<1>1. Two[a] \in Nat \ {0} /\ Two[b] \in Nat \ {0} /\ Two[a + b] = Two[a] * Two[b]
  BY TwoGrows, TwoSum
<1>2. PICK r \in 0 .. Two[a] - 1 : n = Two[a] * m + r
  BY ShiftIs
<1>3. m \in Nat
  BY ShiftIs
<1>4. PICK s \in 0 .. Two[b] - 1 : m = Two[b] * q + s
  BY <1>3, ShiftIs
<1>5. q \in Nat
  BY <1>3, ShiftIs
<1> HIDE DEF m, q
<1>6. n = Two[a + b] * q + (Two[a] * s + r)
  <2>1. Two[a] * m = Two[a] * (Two[b] * q) + Two[a] * s
    BY <1>1, <1>4, <1>5
  <2>2. Two[a] * (Two[b] * q) = Two[a + b] * q
    BY <1>1, <1>5
  <2>3. Two[a] * s \in Nat /\ Two[a + b] * q \in Nat
    BY <1>1, <1>4, <1>5
  <2> QED BY <1>1, <1>2, <2>1, <2>2, <2>3
<1>7. Two[a] * s + r \in 0 .. Two[a + b] - 1
  <2>1. Two[a] * s <= Two[a] * (Two[b] - 1)
    BY <1>1, <1>4
  <2>2. Two[a] * (Two[b] - 1) = Two[a + b] - Two[a]
    BY <1>1
  <2>3. Two[a] * s \in Nat /\ Two[a + b] \in Nat
    BY <1>1, <1>4
  <2> QED BY <1>1, <1>2, <2>1, <2>2, <2>3
<1>8. Shift(n, a + b) = q
  BY <1>5, <1>6, <1>7, ShiftBy
<1> QED BY <1>8 DEF q, m

(* The bits of a number below a power of two, which is added to it.          *)
LEMMA ShiftAdd ==
  ASSUME NEW a \in Nat, NEW k \in 0 .. a, NEW x \in Nat
  PROVE  Shift(Two[a] + x, k) = Two[a - k] + Shift(x, k)
<1>1. k \in Nat /\ a - k \in Nat /\ k + (a - k) = a
  OBVIOUS
<1>2. Two[k] \in Nat \ {0} /\ Two[a - k] \in Nat \ {0} /\ Two[a] = Two[k] * Two[a - k]
  BY TwoSplit
<1>3. PICK r \in 0 .. Two[k] - 1 : x = Two[k] * Shift(x, k) + r
  BY <1>1, ShiftIs
<1>4. Shift(x, k) \in Nat
  BY <1>1, ShiftIs
<1>5. Two[k] * (Two[a - k] + Shift(x, k)) = Two[a] + Two[k] * Shift(x, k)
  BY <1>2, <1>4
<1>6. Two[k] * Shift(x, k) \in Nat /\ Two[a] \in Nat
  BY <1>2, <1>4
<1>7. Two[a] + x = Two[k] * (Two[a - k] + Shift(x, k)) + r /\ Two[a] + x \in Nat
  BY <1>3, <1>5, <1>6
<1>8. Two[a - k] + Shift(x, k) \in Nat
  BY <1>2, <1>4
<1> QED BY <1>1, <1>3, <1>7, <1>8, ShiftBy

LEMMA ShiftBelow ==
  ASSUME NEW a \in Nat, NEW k \in 0 .. a, NEW x \in Nat, x < Two[a]
  PROVE  Shift(x, k) < Two[a - k]
<1>1. k \in Nat /\ a - k \in Nat /\ k + (a - k) = a
  OBVIOUS
<1>2. Shift(Shift(x, k), a - k) = 0
  <2>1. Shift(Shift(x, k), a - k) = Shift(x, k + (a - k))
    BY <1>1, ShiftShift
  <2>2. Shift(x, a) = 0
    BY ShiftOut
  <2> QED BY <1>1, <2>1, <2>2
<1>3. Shift(x, k) \in Nat
  BY <1>1, ShiftIs
<1> QED BY <1>1, <1>2, <1>3, ShiftOut

(* A power of two less one is all ones, and so is what is left of it.        *)
LEMMA ShiftOnes ==
  ASSUME NEW a \in Nat, NEW k \in 0 .. a
  PROVE  Shift(Two[a] - 1, k) = Two[a - k] - 1
<1>1. k \in Nat /\ a - k \in Nat /\ k + (a - k) = a
  OBVIOUS
<1>2. Two[k] \in Nat \ {0} /\ Two[a - k] \in Nat \ {0} /\ Two[a] = Two[k] * Two[a - k] /\ Two[a] \in Nat \ {0}
  BY TwoSplit, TwoGrows
<1>3. Two[k] * (Two[a - k] - 1) = Two[a] - Two[k]
  BY <1>2
<1>4. Two[a] - 1 = Two[k] * (Two[a - k] - 1) + (Two[k] - 1) /\ Two[k] - 1 \in 0 .. Two[k] - 1
  BY <1>2, <1>3
<1>5. Two[a] - 1 \in Nat /\ Two[a - k] - 1 \in Nat
  BY <1>2
<1> QED BY <1>1, <1>4, <1>5, ShiftBy

-----------------------------------------------------------------------------
(* Bits, and how many of them are one.                                     *)
LEMMA BitAdd ==
  ASSUME NEW a \in Nat, NEW k \in 0 .. a - 1, NEW x \in Nat
  PROVE  Bit(Two[a] + x, k) = Bit(x, k)
<1>1. k \in Nat /\ k \in 0 .. a /\ a - k \in Nat /\ (a - k) - 1 \in Nat /\ ((a - k) - 1) + 1 = a - k
  OBVIOUS
<1>2. Two[a - k] = 2 * Two[(a - k) - 1] /\ Two[(a - k) - 1] \in Nat
  BY <1>1, TwoGrows
<1>3. Shift(Two[a] + x, k) = 2 * Two[(a - k) - 1] + Shift(x, k)
  BY <1>1, <1>2, ShiftAdd
<1>4. Shift(x, k) \in Nat
  BY <1>1, ShiftIs
<1>5. ASSUME NEW t \in Nat, NEW s \in Nat PROVE (2 * t + s) % 2 = s % 2
  OBVIOUS
<1> QED BY <1>2, <1>3, <1>4, <1>5 DEF Bit

LEMMA BitTop ==
  ASSUME NEW a \in Nat, NEW x \in Nat, x < Two[a]
  PROVE  Bit(Two[a] + x, a) = 1
<1>1. Shift(Two[a] + x, a) = Two[a - a] + Shift(x, a)
  BY ShiftAdd
<1>2. a - a = 0 /\ Shift(x, a) = 0 /\ Two[0] = 1
  BY ShiftOut, TwoGrows
<1>3. Shift(Two[a] + x, a) = 1
  BY <1>1, <1>2
<1> QED BY <1>3 DEF Bit

LEMMA BitBeyond ==
  ASSUME NEW n \in Nat, NEW k \in Nat, n < Two[k]
  PROVE  Bit(n, k) = 0
<1>1. Shift(n, k) = 0
  BY ShiftOut
<1> QED BY <1>1 DEF Bit

(* The last bit of what is left of a power of two less one.                  *)
LEMMA BitOfOnes ==
  ASSUME NEW a \in Nat, NEW k \in 0 .. a - 1
  PROVE  (Two[a - k] - 1) % 2 = 1
<1>1. (a - k) - 1 \in Nat /\ ((a - k) - 1) + 1 = a - k
  OBVIOUS
<1>2. Two[a - k] = 2 * Two[(a - k) - 1] /\ Two[(a - k) - 1] \in Nat \ {0}
  BY <1>1, TwoGrows
<1>3. ASSUME NEW t \in Nat \ {0} PROVE (2 * t - 1) % 2 = 1
  OBVIOUS
<1> QED BY <1>2, <1>3

Ones(n) == {k \in Nat : Bit(n, k) = 1}

LEMMA OnesWithin ==
  ASSUME NEW n \in Nat
  PROVE  /\ Ones(n) = {k \in 0 .. n : Bit(n, k) = 1} /\ IsFiniteSet(Ones(n))
         /\ onesCount(n) = Cardinality(Ones(n))
<1>1. ASSUME NEW k \in Nat, Bit(n, k) = 1 PROVE k \in 0 .. n
  <2>1. Two[k] \in Nat /\ Two[k] > k
    BY TwoGrows
  <2>2. ~ (n < Two[k])
    BY <1>1, BitBeyond
  <2>3. k <= n \/ n < k
    OBVIOUS
  <2>4. CASE n < k
    BY <2>1, <2>2, <2>4
  <2> QED BY <2>3, <2>4
<1>2. Ones(n) = {k \in 0 .. n : Bit(n, k) = 1}
  BY <1>1 DEF Ones
<1>3. IsFiniteSet(0 .. n)
  BY FS_Interval
<1>4. IsFiniteSet(Ones(n))
  BY <1>2, <1>3, FS_Subset
<1> QED BY <1>2, <1>4 DEF onesCount

LEMMA OnesAdd ==
  ASSUME NEW a \in Nat, NEW x \in Nat, x < Two[a]
  PROVE  onesCount(Two[a] + x) = onesCount(x) + 1
<1>1. Two[a] \in Nat /\ Two[a] + x \in Nat
  BY TwoGrows
<1>2. ASSUME NEW k \in Nat PROVE Bit(Two[a] + x, k) = 1 <=> k = a \/ Bit(x, k) = 1
  <2>1. CASE k < a
    <3>1. k \in 0 .. a - 1
      BY <2>1
    <3> QED BY <2>1, <3>1, BitAdd
  <2>2. CASE k = a
    BY <2>2, BitTop
  <2>3. CASE k > a
    <3>1. Two[k] >= Two[a + 1] /\ Two[a + 1] = 2 * Two[a] /\ Two[k] \in Nat
      BY <2>3, TwoMonotone, TwoGrows
    <3>2. Two[a] + x < Two[k] /\ x < Two[k]
      BY <1>1, <3>1
    <3>3. Bit(Two[a] + x, k) = 0 /\ Bit(x, k) = 0
      BY <1>1, <3>2, BitBeyond
    <3> QED BY <2>3, <3>3
  <2> QED BY <2>1, <2>2, <2>3
<1>3. Ones(Two[a] + x) = Ones(x) \cup {a}
  BY <1>2 DEF Ones
<1>4. a \notin Ones(x)
  BY BitBeyond DEF Ones
<1>5. IsFiniteSet(Ones(x)) /\ onesCount(x) = Cardinality(Ones(x))
  BY OnesWithin
<1>6. Cardinality(Ones(x) \cup {a}) = Cardinality(Ones(x)) + 1
  BY <1>4, <1>5, FS_AddElement
<1>7. onesCount(Two[a] + x) = Cardinality(Ones(Two[a] + x))
  BY <1>1, OnesWithin
<1> QED BY <1>3, <1>5, <1>6, <1>7

LEMMA OnesOfZero == onesCount(0) = 0
<1>1. ASSUME NEW k \in Nat PROVE Bit(0, k) # 1
  <2>1. 0 \in Nat /\ 0 < Two[k]
    BY TwoGrows
  <2> QED BY <2>1, BitBeyond
<1>2. Ones(0) = {}
  BY <1>1 DEF Ones
<1> QED BY <1>2, OnesWithin, FS_EmptySet

LEMMA OnesOfOnes ==
  ASSUME NEW a \in Nat
  PROVE  onesCount(Two[a] - 1) = a
<1> DEFINE Wrong == {k \in Nat : onesCount(Two[k] - 1) # k}
<1>1. SUFFICES ASSUME Wrong # {} PROVE FALSE
  OBVIOUS
<1>2. PICK m \in Wrong : \A k \in Wrong : m <= k
  <2>1. Wrong \in SUBSET Nat
    OBVIOUS
  <2> HIDE DEF Wrong
  <2> QED BY <1>1, <2>1, LeastNumber
<1>3. m \in Nat /\ onesCount(Two[m] - 1) # m
  BY <1>2
<1>4. m # 0
  <2>1. Two[0] - 1 = 0
    BY TwoGrows
  <2> QED BY <1>3, <2>1, OnesOfZero
<1>5. m - 1 \in Nat /\ (m - 1) + 1 = m /\ m - 1 \notin Wrong
  BY <1>2, <1>3, <1>4
<1>6. onesCount(Two[m - 1] - 1) = m - 1
  BY <1>5
<1>7. Two[m - 1] \in Nat \ {0} /\ Two[m] = 2 * Two[m - 1]
  BY <1>5, TwoGrows
<1>8. Two[m - 1] - 1 \in Nat /\ Two[m - 1] - 1 < Two[m - 1] /\ Two[m] - 1 = Two[m - 1] + (Two[m - 1] - 1)
  BY <1>7
<1>9. onesCount(Two[m] - 1) = (m - 1) + 1
  BY <1>5, <1>6, <1>8, OnesAdd
<1> QED BY <1>3, <1>5, <1>9

-----------------------------------------------------------------------------
(* Where the index and the last index begin to be the same.                 *)
Meets(a, b, k) == Shift(a, k) = Shift(b, k) /\ \A j \in 0 .. k - 1 : Shift(a, j) # Shift(b, j)

LEMMA MeetOnce ==
  ASSUME NEW a, NEW b, NEW k \in Nat, Meets(a, b, k), NEW l \in Nat, Meets(a, b, l)
  PROVE  k = l
<1>1. CASE k < l
  <2>1. k \in 0 .. l - 1
    BY <1>1
  <2> QED BY <2>1 DEF Meets
<1>2. CASE l < k
  <2>1. l \in 0 .. k - 1
    BY <1>2
  <2> QED BY <2>1 DEF Meets
<1> QED BY <1>1, <1>2

LEMMA MeetSoon ==
  ASSUME NEW a \in Nat, NEW b \in Nat, a <= b, NEW k \in Nat, Meets(a, b, k)
  PROVE  k <= b + 1
<1>1. SUFFICES ASSUME k > b + 1 PROVE FALSE
  OBVIOUS
<1>2. b + 1 \in Nat /\ b + 1 \in 0 .. k - 1
  BY <1>1
<1>3. Two[b + 1] \in Nat /\ Two[b + 1] > b + 1
  BY <1>2, TwoGrows
<1>4. a < Two[b + 1] /\ b < Two[b + 1]
  BY <1>3
<1>5. Shift(a, b + 1) = 0 /\ Shift(b, b + 1) = 0
  BY <1>2, <1>4, ShiftOut
<1> QED BY <1>2, <1>5 DEF Meets

LEMMA InnerIs ==
  ASSUME NEW a \in Nat, NEW b \in Nat, a <= b, NEW k \in Nat, Meets(a, b, k)
  PROVE  innerProofSize(a, b + 1) = k
<1> DEFINE inner == CHOOSE l \in 0 .. b + 1 : Meets(a, b, l)
<1>1. innerProofSize(a, b + 1) = inner
  <2>1. (b + 1) - 1 = b
    OBVIOUS
  <2> QED BY <2>1 DEF innerProofSize, Meets
<1>2. k \in 0 .. b + 1
  BY MeetSoon
<1>3. inner \in 0 .. b + 1 /\ Meets(a, b, inner)
  BY <1>2
<1>4. inner \in Nat
  BY <1>3
<1> HIDE DEF inner
<1> QED BY <1>1, <1>3, <1>4, MeetOnce

LEMMA InnerMeets ==
  ASSUME NEW a \in Nat, NEW b \in Nat, a <= b
  PROVE  innerProofSize(a, b + 1) \in Nat /\ Meets(a, b, innerProofSize(a, b + 1))
<1> DEFINE Same == {k \in Nat : Shift(a, k) = Shift(b, k)}
<1>1. b \in Same
  <2>1. Two[b] \in Nat /\ Two[b] > b
    BY TwoGrows
  <2>2. a < Two[b] /\ b < Two[b]
    BY <2>1
  <2> QED BY <2>2, ShiftOut
<1>2. PICK k \in Same : \A j \in Same : k <= j
  <2>1. Same \in SUBSET Nat
    OBVIOUS
  <2> HIDE DEF Same
  <2> QED BY <1>1, <2>1, LeastNumber
<1>3. k \in Nat /\ Shift(a, k) = Shift(b, k)
  BY <1>2
<1>4. ASSUME NEW j \in 0 .. k - 1 PROVE Shift(a, j) # Shift(b, j)
  <2>1. j \in Nat /\ ~ (k <= j)
    BY <1>3
  <2> QED BY <1>2, <2>1
<1>5. Meets(a, b, k)
  BY <1>3, <1>4 DEF Meets
<1> QED BY <1>3, <1>5, InnerIs

-----------------------------------------------------------------------------
(* How many hashes prove an entry, and which of them are to its left, from the *)
(* whole tree to the half of it that has the entry.                        *)
Steps(i, w) == innerProofSize(i, w) + borderSize(i, w)
GivenLeft(i, w, l) == l >= innerProofSize(i, w) \/ Bit(i, l) = 1

LEMMA OneEntry == Steps(0, 1) = 0
<1>1. Meets(0, 0, 0)
  BY DEF Meets
<1>2. innerProofSize(0, 0 + 1) = 0
  BY <1>1, InnerIs
<1>3. borderSize(0, 1) = 0
  <2>1. Shift(0, 0) = 0
    BY ShiftNothing
  <2> QED BY <1>2, <2>1, OnesOfZero DEF borderSize
<1> QED BY <1>2, <1>3 DEF Steps

LEMMA FullTree ==
  ASSUME NEW j \in Nat, NEW i \in 0 .. Two[j] - 1
  PROVE  /\ innerProofSize(i, Two[j]) \in 0 .. j /\ Steps(i, Two[j]) = j
         /\ \A l \in 0 .. j - 1 : GivenLeft(i, Two[j], l) <=> Bit(i, l) = 1
<1> DEFINE last == Two[j] - 1
           inner == innerProofSize(i, last + 1)
<1>1. Two[j] \in Nat \ {0} /\ last \in Nat /\ i \in Nat /\ i <= last /\ last + 1 = Two[j]
  BY TwoGrows
<1>2. inner \in Nat /\ Meets(i, last, inner)
  BY <1>1, InnerMeets
<1>3. inner <= j
  <2>1. Shift(i, j) = 0 /\ Shift(last, j) = 0
    BY <1>1, ShiftOut
  <2>2. ~ (j \in 0 .. inner - 1)
    BY <1>2, <2>1 DEF Meets
  <2> QED BY <1>2, <2>2
<1>4. ASSUME NEW l \in 0 .. j, l >= inner PROVE Shift(i, l) = Two[j - l] - 1
  <2>1. l \in Nat /\ l - inner \in Nat /\ inner + (l - inner) = l
    BY <1>2, <1>4
  <2>2. Shift(i, l) = Shift(last, l)
    <3> HIDE DEF last, inner
    <3>1. Shift(i, inner) = Shift(last, inner)
      BY <1>2 DEF Meets
    <3>2. Shift(Shift(i, inner), l - inner) = Shift(i, inner + (l - inner))
      BY <1>1, <1>2, <2>1, ShiftShift
    <3>3. Shift(Shift(last, inner), l - inner) = Shift(last, inner + (l - inner))
      BY <1>1, <1>2, <2>1, ShiftShift
    <3> QED BY <2>1, <3>1, <3>2, <3>3
  <2> QED BY <2>2, ShiftOnes
<1> HIDE DEF inner
<1>5. borderSize(i, Two[j]) = j - inner
  <2>1. inner \in 0 .. j /\ j - inner \in Nat
    BY <1>2, <1>3
  <2>2. Shift(i, inner) = Two[j - inner] - 1
    BY <1>4, <2>1
  <2>3. innerProofSize(i, Two[j]) = inner
    BY <1>1 DEF inner
  <2> QED BY <2>1, <2>2, <2>3, OnesOfOnes DEF borderSize
<1>6. innerProofSize(i, Two[j]) = inner
  BY <1>1 DEF inner
<1>7. ASSUME NEW l \in 0 .. j - 1, l >= inner PROVE Bit(i, l) = 1
  <2>1. Shift(i, l) = Two[j - l] - 1
    BY <1>4, <1>7
  <2> QED BY <2>1, BitOfOnes DEF Bit
<1>8. ASSUME NEW l \in 0 .. j - 1 PROVE GivenLeft(i, Two[j], l) <=> Bit(i, l) = 1
  BY <1>6, <1>7 DEF GivenLeft
<1>9. inner + (j - inner) = j /\ inner \in 0 .. j
  BY <1>2, <1>3
<1> QED BY <1>5, <1>6, <1>8, <1>9 DEF Steps

LEMMA LowHalf ==
  ASSUME NEW j \in Nat, NEW w \in Nat, Two[j] < w, w <= Two[j + 1], NEW i \in 0 .. Two[j] - 1
  PROVE  /\ Steps(i, w) = Steps(i, Two[j]) + 1 /\ Steps(i, Two[j]) \in Nat
         /\ \A l \in 0 .. Steps(i, Two[j]) - 1 : GivenLeft(i, w, l) <=> GivenLeft(i, Two[j], l)
         /\ ~ GivenLeft(i, w, Steps(i, Two[j]))
<1> DEFINE last == w - 1
<1>1. Two[j] \in Nat \ {0} /\ Two[j + 1] \in Nat /\ Two[j + 1] = 2 * Two[j]
  BY TwoGrows
<1>2. last \in Nat /\ i \in Nat /\ i <= last /\ last + 1 = w /\ i < Two[j] /\ ~ (last < Two[j]) /\ last < Two[j + 1]
  BY <1>1
<1>3. Shift(i, j + 1) = 0 /\ Shift(last, j + 1) = 0
  <2>1. i < Two[j + 1]
    BY <1>1, <1>2
  <2> QED BY <1>2, <2>1, ShiftOut
<1>4. ASSUME NEW l \in 0 .. j PROVE Shift(i, l) # Shift(last, l)
  <2>1. l \in Nat /\ j - l \in Nat /\ l + (j - l) = j
    OBVIOUS
  <2>2. Shift(Shift(i, l), j - l) = Shift(i, j) /\ Shift(Shift(last, l), j - l) = Shift(last, j)
    <3> HIDE DEF last
    <3>1. Shift(Shift(i, l), j - l) = Shift(i, l + (j - l))
      BY <1>2, <2>1, ShiftShift
    <3>2. Shift(Shift(last, l), j - l) = Shift(last, l + (j - l))
      BY <1>2, <2>1, ShiftShift
    <3> QED BY <2>1, <3>1, <3>2
  <2>3. Shift(i, j) = 0 /\ Shift(last, j) # 0
    BY <1>2, ShiftOut
  <2> QED BY <2>2, <2>3
<1>5. innerProofSize(i, w) = j + 1
  <2>1. Meets(i, last, j + 1)
    <3>1. (j + 1) - 1 = j
      OBVIOUS
    <3> QED BY <1>3, <1>4, <3>1 DEF Meets
  <2>2. j + 1 \in Nat
    OBVIOUS
  <2> HIDE DEF last
  <2>3. innerProofSize(i, last + 1) = j + 1
    BY <1>2, <2>1, <2>2, InnerIs
  <2> QED BY <1>2, <2>3
<1>6. borderSize(i, w) = 0
  BY <1>3, <1>5, OnesOfZero DEF borderSize
<1>7. Steps(i, Two[j]) = j
  BY FullTree
<1>8. Steps(i, w) = j + 1
  BY <1>5, <1>6 DEF Steps
<1>9. ASSUME NEW l \in 0 .. j PROVE GivenLeft(i, w, l) <=> Bit(i, l) = 1
  BY <1>5 DEF GivenLeft
<1>10. \A l \in 0 .. j - 1 : GivenLeft(i, w, l) <=> GivenLeft(i, Two[j], l)
  BY <1>9, FullTree
<1>11. ~ GivenLeft(i, w, j)
  <2>1. Bit(i, j) = 0
    BY <1>2, BitBeyond
  <2> QED BY <1>9, <2>1
<1> QED BY <1>7, <1>8, <1>10, <1>11

LEMMA HighHalf ==
  ASSUME NEW j \in Nat, NEW w \in Nat, Two[j] < w, w <= Two[j + 1], NEW x \in 0 .. (w - Two[j]) - 1
  PROVE  LET rest == w - Two[j]
         IN  /\ Steps(Two[j] + x, w) = Steps(x, rest) + 1 /\ Steps(x, rest) \in Nat
             /\ \A l \in 0 .. Steps(x, rest) - 1 : GivenLeft(Two[j] + x, w, l) <=> GivenLeft(x, rest, l)
             /\ GivenLeft(Two[j] + x, w, Steps(x, rest))
<1> DEFINE i == Two[j] + x
           last == w - 1
           end == (w - Two[j]) - 1
           inner == innerProofSize(x, end + 1)
<1>1. Two[j] \in Nat \ {0} /\ Two[j + 1] = 2 * Two[j]
  BY TwoGrows
<1>2. /\ end \in Nat /\ x \in Nat /\ x <= end /\ end + 1 = w - Two[j] /\ end < Two[j] /\ x < Two[j]
      /\ last = Two[j] + end /\ last \in Nat /\ i \in Nat /\ i <= last /\ last + 1 = w
  BY <1>1
<1> HIDE DEF end, last, i
<1>3. inner \in Nat /\ Meets(x, end, inner)
  BY <1>2, InnerMeets
<1> HIDE DEF inner
<1>4. inner <= j
  <2>1. Shift(x, j) = 0 /\ Shift(end, j) = 0
    BY <1>2, ShiftOut
  <2>2. ~ (j \in 0 .. inner - 1)
    BY <1>3, <2>1 DEF Meets
  <2> QED BY <1>3, <2>2
<1>5. ASSUME NEW l \in 0 .. j
      PROVE  Shift(i, l) = Two[j - l] + Shift(x, l) /\ Shift(last, l) = Two[j - l] + Shift(end, l)
  <2>1. Shift(Two[j] + x, l) = Two[j - l] + Shift(x, l) /\ Shift(Two[j] + end, l) = Two[j - l] + Shift(end, l)
    BY <1>2, ShiftAdd
  <2> QED BY <1>2, <2>1 DEF i
<1>6. innerProofSize(i, w) = inner
  <2>1. Shift(i, inner) = Shift(last, inner)
    <3>1. inner \in 0 .. j
      BY <1>3, <1>4
    <3> QED BY <1>3, <1>5, <3>1 DEF Meets
  <2>2. ASSUME NEW l \in 0 .. inner - 1 PROVE Shift(i, l) # Shift(last, l)
    <3>1. l \in 0 .. j /\ l \in Nat /\ j - l \in Nat
      BY <1>3, <1>4
    <3>2. Shift(x, l) # Shift(end, l)
      BY <1>3 DEF Meets
    <3>3. Two[j - l] \in Nat /\ Shift(x, l) \in Nat /\ Shift(end, l) \in Nat
      BY <1>2, <3>1, TwoGrows, ShiftIs
    <3>4. Shift(i, l) = Two[j - l] + Shift(x, l) /\ Shift(last, l) = Two[j - l] + Shift(end, l)
      BY <1>5, <3>1
    <3> QED BY <3>2, <3>3, <3>4
  <2>3. Meets(i, last, inner)
    BY <2>1, <2>2 DEF Meets
  <2>4. innerProofSize(i, last + 1) = inner
    BY <1>2, <1>3, <2>3, InnerIs
  <2> QED BY <1>2, <2>4
<1>7. innerProofSize(x, w - Two[j]) = inner
  BY <1>2 DEF inner
<1>8. borderSize(i, w) = borderSize(x, w - Two[j]) + 1
  <2>1. inner \in 0 .. j /\ j - inner \in Nat
    BY <1>3, <1>4
  <2>2. Shift(i, inner) = Two[j - inner] + Shift(x, inner)
    BY <1>5, <2>1
  <2>3. Shift(x, inner) \in Nat /\ Shift(x, inner) < Two[j - inner]
    BY <1>2, <1>3, <2>1, ShiftIs, ShiftBelow
  <2>4. onesCount(Two[j - inner] + Shift(x, inner)) = onesCount(Shift(x, inner)) + 1
    BY <2>1, <2>3, OnesAdd
  <2> QED BY <1>6, <1>7, <2>2, <2>4 DEF borderSize
<1>9. borderSize(x, w - Two[j]) \in Nat
  <2>1. Shift(x, inner) \in Nat
    BY <1>2, <1>3, ShiftIs
  <2>2. onesCount(Shift(x, inner)) \in Nat
    BY <2>1, OnesWithin, FS_CardinalityType
  <2> QED BY <1>7, <2>2 DEF borderSize
<1> DEFINE steps == Steps(x, w - Two[j])
<1>10. steps \in Nat /\ steps >= inner /\ Steps(i, w) = steps + 1
  BY <1>3, <1>6, <1>7, <1>8, <1>9 DEF Steps
<1>11. ASSUME NEW l \in 0 .. steps - 1 PROVE GivenLeft(i, w, l) <=> GivenLeft(x, w - Two[j], l)
  <2>1. CASE l >= inner
    BY <1>6, <1>7, <2>1 DEF GivenLeft
  <2>2. CASE l < inner
    <3>1. l \in 0 .. j - 1
      BY <1>3, <1>4, <1>10, <2>2
    <3>2. Bit(Two[j] + x, l) = Bit(x, l)
      BY <1>2, <3>1, BitAdd
    <3> QED BY <1>6, <1>7, <3>2 DEF GivenLeft, i
  <2> QED BY <1>3, <1>10, <2>1, <2>2
<1>12. GivenLeft(i, w, steps)
  BY <1>6, <1>10 DEF GivenLeft
<1> QED BY <1>10, <1>11, <1>12 DEF i

-----------------------------------------------------------------------------
(* The tree of the log.                                                    *)
LEMMA ExponentIs ==
  ASSUME NEW w \in Nat, w > 1
  PROVE  Exponent(w) \in Nat /\ Two[Exponent(w)] < w /\ w <= Two[Exponent(w) + 1]
<1> DEFINE Enough == {k \in Nat : w <= Two[k]}
<1>1. w \in Enough
  BY TwoGrows
<1>2. PICK m \in Enough : \A k \in Enough : m <= k
  <2>1. Enough \in SUBSET Nat
    OBVIOUS
  <2> HIDE DEF Enough
  <2> QED BY <1>1, <2>1, LeastNumber
<1>3. m \in Nat /\ m <= w /\ w <= Two[m] /\ m # 0
  <2>1. m \in Nat /\ m <= w /\ w <= Two[m]
    BY <1>1, <1>2
  <2> QED BY <2>1, TwoGrows
<1>4. m - 1 \in 0 .. w /\ m - 1 \in Nat /\ (m - 1) + 1 = m /\ ~ (m <= m - 1)
  BY <1>3
<1>5. Two[m - 1] < w
  <2>1. ~ (w <= Two[m - 1])
    BY <1>2, <1>4
  <2>2. Two[m - 1] \in Nat
    BY <1>4, TwoGrows
  <2> QED BY <2>1, <2>2
<1>6. \E k \in 0 .. w : Two[k] < w /\ w <= Two[k + 1]
  BY <1>3, <1>4, <1>5
<1>7. Exponent(w) \in 0 .. w /\ Two[Exponent(w)] < w /\ w <= Two[Exponent(w) + 1]
  BY <1>6 DEF Exponent
<1> QED BY <1>7

LEMMA SplitIs ==
  ASSUME NEW r \in Ranges, Width(r) # 1
  PROVE  LET j == Exponent(Width(r))
         IN  /\ Width(r) \in Nat /\ Width(r) <= MaxSize
             /\ j \in Nat /\ Two[j] \in Nat \ {0} /\ Two[j] < Width(r) /\ Width(r) <= Two[j + 1]
             /\ Split(r) = r[1] + Two[j]
             /\ LeftOf(r) \in Ranges /\ LeftOf(r)[1] = r[1] /\ LeftOf(r)[2] = Split(r)
             /\ Width(LeftOf(r)) = Two[j]
             /\ RightOf(r) \in Ranges /\ RightOf(r)[1] = Split(r) /\ RightOf(r)[2] = r[2]
             /\ Width(RightOf(r)) = Width(r) - Two[j]
<1> DEFINE j == Exponent(Width(r))
<1>1. /\ r \in (0 .. MaxSize) \X (0 .. MaxSize) /\ r[1] \in Nat /\ r[2] \in Nat /\ r[1] < r[2]
      /\ r[2] <= MaxSize
  BY LogAssumption DEF Ranges
<1>2. Width(r) = r[2] - r[1] /\ Width(r) \in Nat /\ Width(r) > 1 /\ Width(r) <= MaxSize
  BY <1>1, LogAssumption DEF Width
<1>3. j \in Nat /\ Two[j] < Width(r) /\ Width(r) <= Two[j + 1]
  BY <1>2, ExponentIs
<1>4. Two[j] \in Nat \ {0}
  BY <1>3, TwoGrows
<1>5. Split(r) = r[1] + Two[j]
  BY DEF Split
<1> HIDE DEF j
<1>6. Split(r) \in 0 .. MaxSize /\ r[1] < Split(r) /\ Split(r) < r[2]
  BY <1>1, <1>2, <1>3, <1>4, <1>5, LogAssumption
<1>7. LeftOf(r) \in Ranges /\ LeftOf(r)[1] = r[1] /\ LeftOf(r)[2] = Split(r)
  BY <1>1, <1>6 DEF LeftOf, Ranges
<1>8. RightOf(r) \in Ranges /\ RightOf(r)[1] = Split(r) /\ RightOf(r)[2] = r[2]
  BY <1>1, <1>6 DEF RightOf, Ranges
<1>9. Width(LeftOf(r)) = Two[j] /\ Width(RightOf(r)) = Width(r) - Two[j]
  BY <1>1, <1>2, <1>4, <1>5, <1>7, <1>8 DEF Width
<1> QED BY <1>2, <1>3, <1>4, <1>5, <1>7, <1>8, <1>9 DEF j

Grown(f, r) ==
  IF Width(r) = 1
  THEN [root |-> hashLeaf(Log[r[1]]), path |-> [m \in {r[1]} |-> <<>>]]
  ELSE LET left  == f[LeftOf(r)]
           right == f[RightOf(r)]
       IN  [root |-> hashChildren(left.root, right.root),
            path |-> [m \in r[1] .. r[2] - 1 |->
                        IF m < Split(r) THEN Append(left.path[m], right.root)
                                        ELSE Append(right.path[m], left.root)]]
Upto(n) == {r \in Ranges : Width(r) <= n}
Grows(f, n) == f = [r \in Upto(n) |-> Grown(f, r)]

LEMMA WidthIs ==
  ASSUME NEW r \in Ranges
  PROVE  Width(r) \in Nat \ {0} /\ Width(r) <= MaxSize /\ r[1] \in Nat /\ r[2] = r[1] + Width(r) /\ r[2] <= MaxSize
BY LogAssumption DEF Ranges, Width

LEMMA GrownAlike ==
  ASSUME NEW n \in Nat, NEW f, NEW g, \A r \in Upto(n) : f[r] = g[r],
         NEW r \in Upto(n + 1)
  PROVE  Grown(f, r) = Grown(g, r)
<1>1. CASE Width(r) = 1
  BY <1>1 DEF Grown
<1>2. CASE Width(r) # 1
  <2>1. r \in Ranges /\ Width(r) <= n + 1
    BY DEF Upto
  <2>2. LeftOf(r) \in Upto(n) /\ RightOf(r) \in Upto(n)
    <3> DEFINE j == Exponent(Width(r))
    <3>1. /\ Width(r) \in Nat /\ Two[j] \in Nat \ {0} /\ Two[j] < Width(r)
          /\ LeftOf(r) \in Ranges /\ Width(LeftOf(r)) = Two[j]
          /\ RightOf(r) \in Ranges /\ Width(RightOf(r)) = Width(r) - Two[j]
      BY <1>2, <2>1, SplitIs
    <3> HIDE DEF j
    <3>2. Width(LeftOf(r)) <= n /\ Width(RightOf(r)) <= n
      BY <2>1, <3>1
    <3> QED BY <3>1, <3>2 DEF Upto
  <2>3. f[LeftOf(r)] = g[LeftOf(r)] /\ f[RightOf(r)] = g[RightOf(r)]
    BY <2>2
  <2> QED BY <1>2, <2>3 DEF Grown
<1> QED BY <1>1, <1>2

LEMMA GrowsExists ==
  ASSUME NEW n \in Nat
  PROVE  \E f : Grows(f, n)
<1> DEFINE Missing == {k \in Nat : ~ \E f : Grows(f, k)}
<1>1. SUFFICES ASSUME Missing # {} PROVE FALSE
  OBVIOUS
<1>2. PICK m \in Missing : \A k \in Missing : m <= k
  <2>1. Missing \in SUBSET Nat
    OBVIOUS
  <2> HIDE DEF Missing
  <2> QED BY <1>1, <2>1, LeastNumber
<1>3. m \in Nat /\ \A f : ~ Grows(f, m)
  BY <1>2
<1>4. CASE m = 0
  <2>1. Upto(0) = {}
    BY WidthIs DEF Upto
  <2>2. Grows([r \in {} |-> <<>>], 0)
    BY <2>1 DEF Grows
  <2> QED BY <1>3, <1>4, <2>2
<1>5. CASE m # 0
  <2>1. m - 1 \in Nat /\ (m - 1) + 1 = m /\ ~ (m <= m - 1)
    BY <1>3, <1>5
  <2>2. PICK f : Grows(f, m - 1)
    BY <1>2, <2>1
  <2> DEFINE g == [r \in Upto(m) |-> Grown(f, r)]
  <2>3. Upto(m - 1) \subseteq Upto(m)
    BY <2>1, WidthIs DEF Upto
  <2>4. \A r \in Upto(m - 1) : f[r] = g[r]
    BY <2>2, <2>3 DEF Grows
  <2> HIDE DEF g
  <2>5. \A r \in Upto(m) : Grown(f, r) = Grown(g, r)
    <3>1. \A r \in Upto((m - 1) + 1) : Grown(f, r) = Grown(g, r)
      BY <2>1, <2>4, GrownAlike
    <3> QED BY <2>1, <3>1
  <2>6. g = [r \in Upto(m) |-> Grown(g, r)]
    BY <2>5 DEF g
  <2> QED BY <1>3, <2>6 DEF Grows
<1> QED BY <1>4, <1>5

LEMMA TreeIs ==
  ASSUME NEW r \in Ranges
  PROVE  Tree[r] = Grown(Tree, r)
<1> DEFINE Whole(f) == f = [q \in Ranges |-> Grown(f, q)]
<1>1. \E f : Whole(f)
  <2>1. Upto(MaxSize) = Ranges
    BY WidthIs DEF Upto
  <2>2. PICK f : Grows(f, MaxSize)
    BY GrowsExists, LogAssumption
  <2> QED BY <2>1, <2>2 DEF Grows
<1>2. Tree = CHOOSE f : Whole(f)
  BY DEF Tree, Grown
<1> HIDE DEF Whole
<1>3. Whole(Tree)
  BY <1>1, <1>2
<1>4. Tree = [q \in Ranges |-> Grown(Tree, q)]
  BY <1>3 DEF Whole
<1> QED BY <1>4

LEMMA TreeForks ==
  ASSUME NEW r \in Ranges, Width(r) # 1
  PROVE  /\ Tree[r].root = hashChildren(Tree[LeftOf(r)].root, Tree[RightOf(r)].root)
         /\ Tree[r].path = [m \in r[1] .. r[2] - 1 |->
                              IF m < Split(r) THEN Append(Tree[LeftOf(r)].path[m], Tree[RightOf(r)].root)
                                              ELSE Append(Tree[RightOf(r)].path[m], Tree[LeftOf(r)].root)]
<1>1. Tree[r] = [root |-> hashChildren(Tree[LeftOf(r)].root, Tree[RightOf(r)].root),
                 path |-> [m \in r[1] .. r[2] - 1 |->
                             IF m < Split(r) THEN Append(Tree[LeftOf(r)].path[m], Tree[RightOf(r)].root)
                                             ELSE Append(Tree[RightOf(r)].path[m], Tree[LeftOf(r)].root)]]
  BY TreeIs DEF Grown
<1> QED BY <1>1

-----------------------------------------------------------------------------
(* The hashes tell leaves from nodes, and what went into them.               *)
LEMMA HashesTell ==
  /\ \A x, y : hashLeaf(x) = hashLeaf(y) => x = y
  /\ \A a, b, c, d : hashChildren(a, b) = hashChildren(c, d) => a = c /\ b = d
  /\ \A x, a, b : hashLeaf(x) # hashChildren(a, b)
<1>1. ASSUME NEW x, NEW y, hashLeaf(x) = hashLeaf(y) PROVE x = y
  <2>1. hashLeaf(x).leaf = x /\ hashLeaf(y).leaf = y
    BY DEF hashLeaf
  <2> QED BY <1>1, <2>1
<1>2. ASSUME NEW a, NEW b, NEW c, NEW d, hashChildren(a, b) = hashChildren(c, d) PROVE a = c /\ b = d
  <2>1. /\ hashChildren(a, b).left = a /\ hashChildren(a, b).right = b
        /\ hashChildren(c, d).left = c /\ hashChildren(c, d).right = d
    BY DEF hashChildren
  <2> QED BY <1>2, <2>1
<1>3. ASSUME NEW x, NEW a, NEW b PROVE hashLeaf(x) # hashChildren(a, b)
  <2>1. "leaf" \in DOMAIN hashLeaf(x) /\ "leaf" \notin DOMAIN hashChildren(a, b)
    BY DEF hashLeaf, hashChildren
  <2> QED BY <2>1
<1> QED BY <1>1, <1>2, <1>3

(* The way up: from a leaf, with the hashes h, for an index i and a size w.  *)
Up(acc, h, i, w, l) ==
  IF GivenLeft(i, w, l) THEN hashChildren(h[l + 1], acc[l]) ELSE hashChildren(acc[l], h[l + 1])
Walk(acc, x, i, w, h, n) ==
  acc[0] = hashLeaf(x) /\ \A l \in 0 .. n - 1 : acc[l + 1] = Up(acc, h, i, w, l)

Nodes == Hash \cup {Tree[r].root : r \in Ranges}

LEMMA AppendIs ==
  ASSUME NEW S, NEW s \in Nat, NEW h \in Seq(S), Len(h) = s + 1,
         NEW path \in Seq(S), Len(path) = s, NEW z \in S
  PROVE  LET front == [l \in 1 .. s |-> h[l]]
         IN  /\ front \in Seq(S) /\ Len(front) = s
             /\ h = Append(path, z) <=> front = path /\ h[s + 1] = z
             /\ Append(path, z) \in Seq(S) /\ Len(Append(path, z)) = s + 1
<1> DEFINE front == [l \in 1 .. s |-> h[l]]
<1>1. \A l \in 1 .. s + 1 : h[l] \in S
  BY ElementOfSeq
<1>2. front \in Seq(S) /\ Len(front) = s
  <2>1. front \in [1 .. s -> S]
    BY <1>1
  <2> HIDE DEF front
  <2> QED BY <2>1, LenProperties
<1>3. /\ Append(path, z) \in Seq(S) /\ Len(Append(path, z)) = s + 1
      /\ \A l \in 1 .. s : Append(path, z)[l] = path[l]
      /\ Append(path, z)[s + 1] = z
  BY AppendProperties
<1>4. ASSUME h = Append(path, z) PROVE front = path /\ h[s + 1] = z
  <2>1. \A l \in 1 .. s : front[l] = path[l]
    BY <1>3, <1>4
  <2>2. h[s + 1] = z
    BY <1>3, <1>4
  <2>3. front = path
    BY <1>2, <2>1, SeqEqual
  <2> QED BY <2>2, <2>3
<1>5. ASSUME front = path, h[s + 1] = z PROVE h = Append(path, z)
  <2>1. \A l \in 1 .. s : h[l] = path[l]
    BY <1>5
  <2>2. \A l \in 1 .. s + 1 : h[l] = Append(path, z)[l]
    <3> HIDE DEF front
    <3> QED BY <1>3, <1>5, <2>1
  <2> QED BY <1>3, <2>2, SeqEqual
<1> QED BY <1>2, <1>3, <1>4, <1>5

(* In the tree of r, the way from a leaf for the index i comes to the root if  *)
(* and only if it begins at the entry of that index, with the hashes of its   *)
(* path.                                                                   *)
Proves(r, i) ==
  LET n    == Steps(i, Width(r))
      path == Tree[r].path[r[1] + i]
  IN  /\ n \in Nat /\ path \in Seq(Nodes) /\ Len(path) = n
      /\ \A x, acc : \A h \in Seq(Nodes) :
           Len(h) = n /\ Walk(acc, x, i, Width(r), h, n) =>
             (acc[n] = Tree[r].root <=> x = Log[r[1] + i] /\ h = path)

LEMMA ProvesOne ==
  ASSUME NEW r \in Ranges, Width(r) = 1
  PROVE  Proves(r, 0)
<1>1. r[1] \in Nat /\ r[1] + 0 = r[1]
  BY WidthIs
<1>2. Tree[r] = [root |-> hashLeaf(Log[r[1]]), path |-> [m \in {r[1]} |-> <<>>]]
  BY TreeIs DEF Grown
<1>3. Tree[r].root = hashLeaf(Log[r[1]]) /\ Tree[r].path[r[1] + 0] = <<>>
  BY <1>1, <1>2
<1>4. Steps(0, Width(r)) = 0
  BY OneEntry
<1>5. <<>> \in Seq(Nodes) /\ Len(<<>>) = 0 /\ \A h \in Seq(Nodes) : Len(h) = 0 => h = <<>>
  BY EmptySeq
<1>6. ASSUME NEW x, NEW acc, NEW h \in Seq(Nodes), Len(h) = 0, Walk(acc, x, 0, Width(r), h, 0)
      PROVE  acc[0] = Tree[r].root <=> x = Log[r[1] + 0] /\ h = <<>>
  <2>1. acc[0] = hashLeaf(x) /\ h = <<>>
    BY <1>5, <1>6 DEF Walk
  <2> QED BY <1>1, <1>3, <2>1, HashesTell
<1> QED BY <1>3, <1>4, <1>5, <1>6 DEF Proves

\* The way in a tree goes on from the one in a half of it, past the root z of the other.
GoesPast(r, i, q, k, z) ==
  /\ r[1] + i = q[1] + k
  /\ Steps(i, Width(r)) = Steps(k, Width(q)) + 1
  /\ \A l \in 0 .. Steps(k, Width(q)) - 1 : GivenLeft(i, Width(r), l) <=> GivenLeft(k, Width(q), l)
  /\ Tree[r].path[r[1] + i] = Append(Tree[q].path[q[1] + k], z)
  /\ Tree[r].root = IF GivenLeft(i, Width(r), Steps(k, Width(q)))
                    THEN hashChildren(z, Tree[q].root) ELSE hashChildren(Tree[q].root, z)

LEMMA ProvesMore ==
  ASSUME NEW r, NEW q, NEW i, NEW k, NEW z \in Nodes, Proves(q, k), GoesPast(r, i, q, k, z)
  PROVE  Proves(r, i)
<1> DEFINE n == Steps(k, Width(q))
           path == Tree[q].path[q[1] + k]
<1>1. /\ n \in Nat /\ path \in Seq(Nodes) /\ Len(path) = n
      /\ \A x, acc : \A h \in Seq(Nodes) :
           Len(h) = n /\ Walk(acc, x, k, Width(q), h, n) =>
             (acc[n] = Tree[q].root <=> x = Log[q[1] + k] /\ h = path)
  BY DEF Proves
<1>2. /\ \A l \in 0 .. n - 1 : GivenLeft(i, Width(r), l) <=> GivenLeft(k, Width(q), l)
      /\ Tree[r].path[r[1] + i] = Append(path, z) /\ Steps(i, Width(r)) = n + 1
      /\ Tree[r].root = IF GivenLeft(i, Width(r), n)
                        THEN hashChildren(z, Tree[q].root) ELSE hashChildren(Tree[q].root, z)
      /\ r[1] + i = q[1] + k
  BY DEF GoesPast
<1> HIDE DEF n, path
<1>3. ASSUME NEW x, NEW acc, NEW h \in Seq(Nodes), Len(h) = n + 1, Walk(acc, x, i, Width(r), h, n + 1)
      PROVE  acc[n + 1] = Tree[r].root <=> x = Log[r[1] + i] /\ h = Append(path, z)
  <2> DEFINE front == [l \in 1 .. n |-> h[l]]
  <2>1. front \in Seq(Nodes) /\ Len(front) = n /\ (h = Append(path, z) <=> front = path /\ h[n + 1] = z)
    <3>1. n \in Nat /\ path \in Seq(Nodes) /\ Len(path) = n /\ Len(h) = n + 1
      BY <1>1, <1>3
    <3>2. /\ front \in Seq(Nodes) /\ Len(front) = n
          /\ h = Append(path, z) <=> front = path /\ h[n + 1] = z
      BY <3>1, AppendIs
    <3> QED BY <3>2
  <2>2. acc[0] = hashLeaf(x) /\ \A l \in 0 .. n : acc[l + 1] = Up(acc, h, i, Width(r), l)
    <3>1. n \in Nat
      BY <1>1
    <3>2. (n + 1) - 1 = n
      BY <3>1
    <3> QED BY <1>3, <3>2 DEF Walk
  <2>3. Walk(acc, x, k, Width(q), front, n)
    <3>1. ASSUME NEW l \in 0 .. n - 1 PROVE acc[l + 1] = Up(acc, front, k, Width(q), l)
      <4>0. n \in Nat
        BY <1>1
      <4>1. l \in 0 .. n /\ l + 1 \in 1 .. n
        BY <4>0
      <4>2. acc[l + 1] = Up(acc, h, i, Width(r), l) /\ front[l + 1] = h[l + 1]
        BY <2>2, <4>1
      <4> HIDE DEF front
      <4> QED BY <1>2, <4>2 DEF Up
    <3> HIDE DEF front
    <3> QED BY <2>2, <3>1 DEF Walk
  <2> HIDE DEF front
  <2>4. acc[n] = Tree[q].root <=> x = Log[q[1] + k] /\ front = path
    BY <1>1, <2>1, <2>3
  <2>5. acc[n + 1] = IF GivenLeft(i, Width(r), n) THEN hashChildren(h[n + 1], acc[n])
                                                 ELSE hashChildren(acc[n], h[n + 1])
    <3>1. n \in 0 .. n
      BY <1>1
    <3>2. acc[n + 1] = Up(acc, h, i, Width(r), n)
      BY <2>2, <3>1
    <3> QED BY <3>2 DEF Up
  <2>6. acc[n + 1] = Tree[r].root <=> acc[n] = Tree[q].root /\ h[n + 1] = z
    BY <1>2, <2>5, HashesTell
  <2> QED BY <1>2, <2>1, <2>4, <2>6
<1>4. Append(path, z) \in Seq(Nodes) /\ Len(Append(path, z)) = n + 1
  BY <1>1, AppendProperties
<1> QED BY <1>1, <1>2, <1>3, <1>4 DEF Proves

LEMMA ProvesAll ==
  ASSUME NEW r \in Ranges, NEW i \in 0 .. Width(r) - 1
  PROVE  Proves(r, i)
<1> DEFINE Good(w) == \A q \in Ranges : Width(q) = w => \A k \in 0 .. w - 1 : Proves(q, k)
           Wrong == {w \in Nat : ~ Good(w)}
<1>1. SUFFICES Wrong = {}
  <2>1. Width(r) \in Nat
    BY WidthIs
  <2>2. ASSUME Wrong = {} PROVE Good(Width(r))
    <3> HIDE DEF Good
    <3> QED BY <2>1, <2>2
  <2> QED BY <2>2
<1>2. SUFFICES ASSUME Wrong # {} PROVE FALSE
  OBVIOUS
<1>3. PICK w \in Wrong : \A v \in Wrong : w <= v
  <2>1. Wrong \in SUBSET Nat
    OBVIOUS
  <2> HIDE DEF Wrong
  <2> QED BY <1>2, <2>1, LeastNumber
<1>4. PICK q \in Ranges, k \in 0 .. w - 1 : Width(q) = w /\ ~ Proves(q, k)
  BY <1>3
<1>5. ASSUME NEW p \in Ranges, Width(p) < w, NEW l \in 0 .. Width(p) - 1 PROVE Proves(p, l)
  <2>1. Width(p) \in Nat /\ w \in Nat /\ ~ (w <= Width(p))
    BY <1>3, <1>5, WidthIs
  <2>2. Good(Width(p))
    <3> HIDE DEF Good
    <3> QED BY <1>3, <2>1
  <2> QED BY <1>5, <2>2
<1>6. w \in Nat /\ k \in Nat /\ k < w
  BY <1>3
<1> HIDE DEF Wrong, Good
<1>7. CASE w = 1
  <2>1. k = 0
    BY <1>6, <1>7
  <2> QED BY <1>4, <1>7, <2>1, ProvesOne
<1>8. CASE w # 1
  <2> DEFINE j == Exponent(w)
             left == LeftOf(q)
             right == RightOf(q)
  <2>1. /\ j \in Nat /\ Two[j] \in Nat \ {0} /\ Two[j] < w /\ w <= Two[j + 1] /\ Split(q) = q[1] + Two[j]
        /\ left \in Ranges /\ left[1] = q[1] /\ Width(left) = Two[j]
        /\ right \in Ranges /\ right[1] = Split(q) /\ Width(right) = w - Two[j]
    BY <1>4, <1>8, SplitIs
  <2>2. q[1] \in Nat /\ q[2] = q[1] + w
    BY <1>4, WidthIs
  <2>3. /\ Tree[q].root = hashChildren(Tree[left].root, Tree[right].root)
        /\ Tree[q].path = [m \in q[1] .. q[2] - 1 |->
                             IF m < Split(q) THEN Append(Tree[left].path[m], Tree[right].root)
                                             ELSE Append(Tree[right].path[m], Tree[left].root)]
    <3>1. Width(q) # 1
      BY <1>4, <1>8
    <3> QED BY <3>1, TreeForks
  <2>4. Tree[left].root \in Nodes /\ Tree[right].root \in Nodes
    BY <2>1 DEF Nodes
  <2> HIDE DEF j, left, right
  <2>5. q[1] + k \in q[1] .. q[2] - 1
    BY <1>6, <2>2
  <2>6. CASE k < Two[j]
    <3>1. k \in 0 .. Two[j] - 1 /\ q[1] + k < Split(q) /\ left[1] + k = q[1] + k
      BY <1>6, <2>1, <2>2, <2>6
    <3>2. Proves(left, k)
      BY <1>5, <2>1, <3>1
    <3>3. Tree[q].path[q[1] + k] = Append(Tree[left].path[left[1] + k], Tree[right].root)
      BY <2>3, <2>5, <3>1
    <3>4. /\ Steps(k, Width(q)) = Steps(k, Width(left)) + 1
          /\ \A l \in 0 .. Steps(k, Width(left)) - 1 : GivenLeft(k, Width(q), l) <=> GivenLeft(k, Width(left), l)
          /\ ~ GivenLeft(k, Width(q), Steps(k, Width(left)))
      BY <1>4, <1>6, <2>1, <3>1, LowHalf
    <3>5. Tree[q].root = IF GivenLeft(k, Width(q), Steps(k, Width(left)))
                         THEN hashChildren(Tree[right].root, Tree[left].root)
                         ELSE hashChildren(Tree[left].root, Tree[right].root)
      BY <2>3, <3>4
    <3>6. q[1] + k = left[1] + k
      BY <3>1
    <3>7. left \in Ranges /\ Tree[right].root \in Nodes
      BY <2>1, <2>4
    <3>8. /\ Steps(k, Width(q)) = Steps(k, Width(left)) + 1
          /\ \A l \in 0 .. Steps(k, Width(left)) - 1 : GivenLeft(k, Width(q), l) <=> GivenLeft(k, Width(left), l)
      BY <3>4
    <3>9. GoesPast(q, k, left, k, Tree[right].root)
      BY <3>3, <3>5, <3>6, <3>8 DEF GoesPast
    <3>10. Proves(q, k)
      BY <3>2, <3>7, <3>9, ProvesMore
    <3> QED BY <1>4, <3>10
  <2>7. CASE ~ (k < Two[j])
    <3> DEFINE x == k - Two[j]
    <3>1. /\ x \in 0 .. (w - Two[j]) - 1 /\ ~ (q[1] + k < Split(q)) /\ right[1] + x = q[1] + k
          /\ Two[j] + x = k /\ w - Two[j] < w
      BY <1>6, <2>1, <2>2, <2>7
    <3> HIDE DEF x
    <3>2. Proves(right, x)
      BY <1>5, <2>1, <3>1
    <3>3. Tree[q].path[q[1] + k] = Append(Tree[right].path[right[1] + x], Tree[left].root)
      BY <2>3, <2>5, <3>1
    <3>4. /\ Steps(k, Width(q)) = Steps(x, Width(right)) + 1
          /\ \A l \in 0 .. Steps(x, Width(right)) - 1 : GivenLeft(k, Width(q), l) <=> GivenLeft(x, Width(right), l)
          /\ GivenLeft(k, Width(q), Steps(x, Width(right)))
      BY <1>4, <1>6, <2>1, <3>1, HighHalf
    <3>5. Tree[q].root = IF GivenLeft(k, Width(q), Steps(x, Width(right)))
                         THEN hashChildren(Tree[left].root, Tree[right].root)
                         ELSE hashChildren(Tree[right].root, Tree[left].root)
      BY <2>3, <3>4
    <3>6. q[1] + k = right[1] + x
      BY <3>1
    <3>7. right \in Ranges /\ Tree[left].root \in Nodes
      BY <2>1, <2>4
    <3>8. /\ Steps(k, Width(q)) = Steps(x, Width(right)) + 1
          /\ \A l \in 0 .. Steps(x, Width(right)) - 1 : GivenLeft(k, Width(q), l) <=> GivenLeft(x, Width(right), l)
      BY <3>4
    <3>9. GoesPast(q, k, right, x, Tree[left].root)
      BY <3>3, <3>5, <3>6, <3>8 DEF GoesPast
    <3>10. Proves(q, k)
      BY <3>2, <3>7, <3>9, ProvesMore
    <3> QED BY <1>4, <3>10
  <2> QED BY <2>6, <2>7
<1> QED BY <1>7, <1>8

Chained(acc, n) ==
  \A l \in 0 .. n - 1 : \E y : acc[l + 1] \in {hashChildren(acc[l], y), hashChildren(y, acc[l])}

(* Whatever the hashes, and whichever side they are given on: the way to the   *)
(* root of a tree begins at an entry of it.                                *)
LEMMA BeginsInTree ==
  ASSUME NEW r \in Ranges, NEW n \in Nat, NEW acc, NEW x, acc[0] = hashLeaf(x), Chained(acc, n),
         acc[n] = Tree[r].root
  PROVE  \E m \in r[1] .. r[2] - 1 : x = Log[m]
<1> DEFINE Begins(q) == \A l \in 0 .. n : acc[l] = Tree[q].root => \E m \in q[1] .. q[2] - 1 : x = Log[m]
           Good(w) == \A q \in Ranges : Width(q) = w => Begins(q)
           Wrong == {w \in Nat : ~ Good(w)}
<1>1. SUFFICES Wrong = {}
  <2>1. Width(r) \in Nat /\ n \in 0 .. n
    BY WidthIs
  <2>2. ASSUME Wrong = {} PROVE Begins(r)
    <3>1. Good(Width(r))
      <4> HIDE DEF Good
      <4> QED BY <2>1, <2>2
    <3> HIDE DEF Begins
    <3> QED BY <3>1
  <2>3. Begins(r) => \E m \in r[1] .. r[2] - 1 : x = Log[m]
    BY <2>1
  <2> HIDE DEF Wrong, Begins
  <2> QED BY <2>2, <2>3
<1>2. SUFFICES ASSUME Wrong # {} PROVE FALSE
  OBVIOUS
<1>3. PICK w \in Wrong : \A v \in Wrong : w <= v
  <2>1. Wrong \in SUBSET Nat
    OBVIOUS
  <2> HIDE DEF Wrong
  <2> QED BY <1>2, <2>1, LeastNumber
<1>4. PICK q \in Ranges : Width(q) = w /\ ~ Begins(q)
  BY <1>3
<1>5. ASSUME NEW p \in Ranges, Width(p) < w PROVE Begins(p)
  <2>1. Width(p) \in Nat /\ w \in Nat /\ ~ (w <= Width(p))
    BY <1>3, <1>5, WidthIs
  <2>2. Good(Width(p))
    <3> HIDE DEF Good
    <3> QED BY <1>3, <2>1
  <2> HIDE DEF Begins
  <2> QED BY <2>2
<1>6. PICK l \in 0 .. n : acc[l] = Tree[q].root /\ ~ \E m \in q[1] .. q[2] - 1 : x = Log[m]
  BY <1>4
<1>7. w \in Nat /\ q[1] \in Nat /\ q[2] = q[1] + w
  BY <1>3, <1>4, WidthIs
<1>8. l # 0 => l - 1 \in 0 .. n - 1 /\ l - 1 \in 0 .. n /\ (l - 1) + 1 = l
  OBVIOUS
<1>9. ASSUME l # 0
      PROVE  \E y : acc[l] \in {hashChildren(acc[l - 1], y), hashChildren(y, acc[l - 1])}
  <2>1. \E y : acc[(l - 1) + 1] \in {hashChildren(acc[l - 1], y), hashChildren(y, acc[l - 1])}
    BY <1>8, <1>9 DEF Chained
  <2> QED BY <1>8, <1>9, <2>1
<1> HIDE DEF Wrong, Good
<1>10. CASE w = 1
  <2>1. Tree[q] = [root |-> hashLeaf(Log[q[1]]), path |-> [m \in {q[1]} |-> <<>>]]
    BY <1>4, <1>10, TreeIs DEF Grown
  <2>2. acc[l] = hashLeaf(Log[q[1]])
    BY <1>6, <2>1
  <2>3. l = 0
    BY <1>9, <2>2, HashesTell
  <2>4. x = Log[q[1]]
    BY <2>2, <2>3, HashesTell
  <2>5. q[1] \in q[1] .. q[2] - 1
    BY <1>7, <1>10
  <2> QED BY <1>6, <2>4, <2>5
<1>11. CASE w # 1
  <2> DEFINE left == LeftOf(q)
             right == RightOf(q)
             j == Exponent(w)
  <2>1. /\ j \in Nat /\ Two[j] \in Nat \ {0} /\ Two[j] < w /\ Split(q) = q[1] + Two[j]
        /\ left \in Ranges /\ left[1] = q[1] /\ left[2] = Split(q) /\ Width(left) = Two[j]
        /\ right \in Ranges /\ right[1] = Split(q) /\ right[2] = q[2] /\ Width(right) = w - Two[j]
    BY <1>4, <1>11, SplitIs
  <2>2. Tree[q].root = hashChildren(Tree[left].root, Tree[right].root)
    <3>1. Width(q) # 1
      BY <1>4, <1>11
    <3> QED BY <3>1, TreeForks
  <2> HIDE DEF left, right, j
  <2>3. l # 0
    BY <1>6, <2>2, HashesTell
  <2>4. acc[l - 1] \in {Tree[left].root, Tree[right].root}
    BY <1>6, <1>9, <2>2, <2>3, HashesTell
  <2>5. Begins(left) /\ Begins(right)
    <3>1. Width(left) < w /\ Width(right) < w
      BY <1>7, <2>1
    <3> HIDE DEF Begins
    <3> QED BY <1>5, <2>1, <3>1
  <2>6. (\E m \in left[1] .. left[2] - 1 : x = Log[m]) \/ (\E m \in right[1] .. right[2] - 1 : x = Log[m])
    BY <1>8, <2>3, <2>4, <2>5
  <2>7. left[1] .. left[2] - 1 \subseteq q[1] .. q[2] - 1 /\ right[1] .. right[2] - 1 \subseteq q[1] .. q[2] - 1
    BY <1>7, <2>1
  <2> QED BY <1>6, <2>6, <2>7
<1> QED BY <1>10, <1>11

-----------------------------------------------------------------------------
(* What is so at every step: how the hash was come to.                      *)
Sound(p) == IndexHolds(p) /\ CountHolds(p)
Comes(p, n, e) == \E acc : Walk(acc, p.leaf, p.index, p.size, p.hashes, n) /\ acc[n] = e

InclusionInv ==
  /\ walk # "none" => proof \in Proofs
  /\ walk = "presented" => level = 0
  /\ walk = "chaining" => Sound(proof) /\ level \in 0 .. Len(proof.hashes) /\ Comes(proof, level, hash)
  /\ walk = "accepted" => Sound(proof) /\ Comes(proof, Len(proof.hashes), TreeOf[proof.tree].root)
  /\ walk = "rejected" =>
       (Sound(proof) => \E e : Comes(proof, Len(proof.hashes), e) /\ e # TreeOf[proof.tree].root)

LEMMA ComesOn ==
  ASSUME NEW p, NEW n \in Nat, NEW e, Comes(p, n, e)
  PROVE  Comes(p, n + 1, IF GivenLeft(p.index, p.size, n) THEN hashChildren(p.hashes[n + 1], e)
                                                        ELSE hashChildren(e, p.hashes[n + 1]))
<1> DEFINE next == IF GivenLeft(p.index, p.size, n) THEN hashChildren(p.hashes[n + 1], e)
                                                    ELSE hashChildren(e, p.hashes[n + 1])
<1>1. PICK acc : Walk(acc, p.leaf, p.index, p.size, p.hashes, n) /\ acc[n] = e
  BY DEF Comes
<1> DEFINE more == [l \in 0 .. n + 1 |-> IF l = n + 1 THEN next ELSE acc[l]]
<1>2. (\A l \in 0 .. n : more[l] = acc[l]) /\ more[n + 1] = next
  OBVIOUS
<1>3. more[0] = hashLeaf(p.leaf)
  BY <1>1, <1>2 DEF Walk
<1>4. ASSUME NEW l \in 0 .. (n + 1) - 1 PROVE more[l + 1] = Up(more, p.hashes, p.index, p.size, l)
  <2> HIDE DEF more
  <2>1. CASE l = n
    BY <1>1, <1>2, <2>1 DEF Up
  <2>2. CASE l # n
    <3>1. l \in 0 .. n - 1 /\ l \in 0 .. n /\ l + 1 \in 0 .. n
      BY <2>2
    <3>2. acc[l + 1] = Up(acc, p.hashes, p.index, p.size, l)
      BY <1>1, <3>1 DEF Walk
    <3> QED BY <1>2, <3>1, <3>2 DEF Up
  <2> QED BY <2>1, <2>2
<1> HIDE DEF more, next
<1>5. Comes(p, n + 1, next)
  BY <1>2, <1>3, <1>4 DEF Comes, Walk
<1> QED BY <1>5 DEF next

LEMMA ProofIs ==
  ASSUME NEW p \in Proofs
  PROVE  /\ p.tree \in 1 .. MaxSize /\ p.size \in 0 .. MaxSize /\ p.index \in -1 .. MaxSize
         /\ p.hashes \in Seq(Hash) /\ p.hashes \in Seq(Nodes) /\ Len(p.hashes) \in Nat
<1>1. p.tree \in 1 .. MaxSize /\ p.size \in 0 .. MaxSize /\ p.index \in -1 .. MaxSize /\ p.hashes \in Presented
  BY DEF Proofs
<1>2. p.hashes \in Seq(Hash)
  BY <1>1, LogAssumption
<1>3. Hash \subseteq Nodes
  BY DEF Nodes
<1> QED BY <1>1, <1>2, <1>3, SeqMonotonic, LenProperties

(* The tree of the first n entries.                                         *)
LEMMA WholeTree ==
  ASSUME NEW n \in 1 .. MaxSize
  PROVE  /\ <<0, n>> \in Ranges /\ Width(<<0, n>>) = n /\ TreeOf[n] = Tree[<<0, n>>]
         /\ <<0, n>>[1] = 0 /\ <<0, n>>[2] = n
<1>1. n \in 0 .. MaxSize /\ 0 \in 0 .. MaxSize /\ 0 < n
  BY LogAssumption
<1> QED BY <1>1 DEF Ranges, Width, TreeOf

LEMMA AnyProofIsInTree ==
  ASSUME NEW p \in Proofs, Comes(p, Len(p.hashes), TreeOf[p.tree].root)
  PROVE  \E m \in 0 .. p.tree - 1 : p.leaf = Log[m]
<1> DEFINE n == Len(p.hashes)
           r == <<0, p.tree>>
           x == p.leaf
<1>1. n \in Nat /\ p.tree \in 1 .. MaxSize
  BY ProofIs
<1>2. PICK acc : Walk(acc, x, p.index, p.size, p.hashes, n) /\ acc[n] = TreeOf[p.tree].root
  BY DEF Comes
<1>3. r \in Ranges /\ TreeOf[p.tree] = Tree[r] /\ r[1] = 0 /\ r[2] = p.tree
  BY <1>1, WholeTree
<1> HIDE DEF n, r, x
<1>4. acc[0] = hashLeaf(x) /\ acc[n] = Tree[r].root
  BY <1>2, <1>3 DEF Walk
<1>5. Chained(acc, n)
  <2>1. ASSUME NEW l \in 0 .. n - 1
        PROVE  \E y : acc[l + 1] \in {hashChildren(acc[l], y), hashChildren(y, acc[l])}
    <3>1. acc[l + 1] = Up(acc, p.hashes, p.index, p.size, l)
      BY <1>2 DEF Walk
    <3> QED BY <3>1 DEF Up
  <2> QED BY <2>1 DEF Chained
<1>6. \E m \in r[1] .. r[2] - 1 : x = Log[m]
  BY <1>1, <1>3, <1>4, <1>5, BeginsInTree
<1> QED BY <1>3, <1>6 DEF x

LEMMA InclusionInvInit == ASSUME Init PROVE InclusionInv
<1>1. CASE InclusionInit
  BY <1>1 DEF InclusionInit, InclusionInv
<1>2. CASE NoProof
  BY <1>2 DEF NoProof, InclusionInv
<1> QED BY <1>1, <1>2 DEF Init

LEMMA InclusionInvNext ==
  ASSUME InclusionInv, [Next]_vars
  PROVE  InclusionInv'
<1> USE DEF InclusionInv
<1> DEFINE n == Len(proof.hashes)
<1>0. CASE UNCHANGED inclusionVars
  BY <1>0 DEF inclusionVars
<1> SUFFICES ASSUME InclusionNext PROVE InclusionInv'
  <2>1. [Next]_vars => InclusionNext \/ UNCHANGED inclusionVars
    BY DEF Next, vars
  <2> QED BY <1>0, <2>1
<1>1. proof \in Proofs /\ n \in Nat
  <2>1. walk # "none"
    BY DEF InclusionNext, InvalidIndex, InvalidCount, HashLeaf, chainInner, chainBorderRight, Accept, Mismatch
  <2> QED BY <2>1, ProofIs
<1>2. CASE InvalidIndex
  BY <1>2 DEF InvalidIndex, Reject, Sound
<1>3. CASE InvalidCount
  BY <1>3 DEF InvalidCount, Reject, Sound
<1>4. CASE HashLeaf
  <2>1. Comes(proof, 0, hashLeaf(proof.leaf))
    <3> DEFINE acc == [l \in {0} |-> hashLeaf(proof.leaf)]
    <3>1. Walk(acc, proof.leaf, proof.index, proof.size, proof.hashes, 0) /\ acc[0] = hashLeaf(proof.leaf)
      BY DEF Walk
    <3> HIDE DEF acc
    <3> QED BY <3>1 DEF Comes
  <2>2. /\ proof' = proof /\ walk' = "chaining" /\ level' = 0 /\ hash' = hashLeaf(proof.leaf)
        /\ Sound(proof) /\ 0 \in 0 .. n
    BY <1>1, <1>4 DEF HashLeaf, Sound
  <2> QED BY <1>1, <2>1, <2>2
<1>5. ASSUME walk = "chaining", level < n, proof' = proof, walk' = walk, level' = level + 1,
             hash' = IF GivenLeft(proof.index, proof.size, level) THEN hashChildren(Given, hash)
                                                                 ELSE hashChildren(hash, Given)
      PROVE  InclusionInv'
  <2>1. Sound(proof) /\ level \in Nat /\ level + 1 \in 0 .. n /\ Comes(proof, level, hash)
    BY <1>1, <1>5
  <2>2. Comes(proof, level + 1, hash')
    BY <1>5, <2>1, ComesOn DEF Given
  <2> QED BY <1>1, <1>5, <2>1, <2>2
<1>6. CASE chainInner
  <2>1. level \in Nat /\ innerProofSize(proof.index, proof.size) \in Nat
    <3>1. walk = "chaining" /\ level \in Nat /\ Sound(proof)
      BY <1>1, <1>6 DEF chainInner
    <3>2. proof.index \in Nat /\ proof.size - 1 \in Nat /\ proof.index <= proof.size - 1 /\ (proof.size - 1) + 1 = proof.size
      BY <1>1, <3>1, ProofIs DEF Sound, IndexHolds
    <3>3. innerProofSize(proof.index, (proof.size - 1) + 1) \in Nat
      BY <3>2, InnerMeets
    <3> QED BY <3>1, <3>2, <3>3
  <2>2. GivenLeft(proof.index, proof.size, level) <=> Bit(proof.index, level) = 1
    BY <1>6, <2>1 DEF chainInner, GivenLeft
  <2> QED BY <1>5, <1>6, <2>2 DEF chainInner
<1>7. CASE chainBorderRight
  <2>1. GivenLeft(proof.index, proof.size, level)
    BY <1>7 DEF chainBorderRight, GivenLeft
  <2> QED BY <1>5, <1>7, <2>1 DEF chainBorderRight
<1>8. CASE Accept
  BY <1>8 DEF Accept
<1>9. CASE Mismatch
  <2>1. /\ walk = "chaining" /\ level = n /\ hash # TreeOf[proof.tree].root
        /\ walk' = "rejected" /\ proof' = proof
    BY <1>9 DEF Mismatch, Reject
  <2> QED BY <1>1, <2>1
<1> QED BY <1>2, <1>3, <1>4, <1>6, <1>7, <1>8, <1>9 DEF InclusionNext

LEMMA InclusionInvHolds == Spec => []InclusionInv
<1>1. Init => InclusionInv
  BY InclusionInvInit
<1>2. InclusionInv /\ [Next]_vars => InclusionInv'
  BY InclusionInvNext
<1> QED BY <1>1, <1>2, PTL DEF Spec

(* For a size that is the tree's, what it comes to is the root if and only if  *)
(* the proof is the log's.                                                 *)
LEMMA RootIfGenuine ==
  ASSUME NEW p \in Proofs, p.size = p.tree, Sound(p), NEW e, Comes(p, Len(p.hashes), e)
  PROVE  e = TreeOf[p.tree].root <=> Genuine(p)
<1> DEFINE n == p.tree
           r == <<0, n>>
           i == p.index
<1>1. n \in 1 .. MaxSize /\ i \in 0 .. n - 1 /\ i \in Nat
  BY ProofIs DEF Sound, IndexHolds
<1>2. r \in Ranges /\ Width(r) = n /\ TreeOf[n] = Tree[r] /\ r[1] = 0
  BY <1>1, WholeTree
<1>3. Len(p.hashes) = Steps(i, n) /\ p.hashes \in Seq(Nodes)
  BY ProofIs DEF Sound, CountHolds, Steps
<1>4. PICK acc : Walk(acc, p.leaf, i, n, p.hashes, Len(p.hashes)) /\ acc[Len(p.hashes)] = e
  BY DEF Comes
<1> HIDE DEF r
<1>5. Proves(r, i)
  BY <1>1, <1>2, ProvesAll
<1>6. r[1] + i = i
  BY <1>1, <1>2
<1>7. acc[Steps(i, n)] = Tree[r].root <=> p.leaf = Log[i] /\ p.hashes = Tree[r].path[i]
  BY <1>2, <1>3, <1>4, <1>5, <1>6 DEF Proves
<1>8. Genuine(p) <=> p.leaf = Log[i] /\ p.hashes = Tree[r].path[i]
  BY <1>1, <1>2 DEF Genuine
<1> QED BY <1>2, <1>3, <1>4, <1>7, <1>8

(* For any log, any of its trees and any lists of hashes, what is accepted is  *)
(* an entry of the tree, whatever index and size the proof gives.           *)
THEOREM InTreeHolds == Spec => []AcceptedIsInTree
<1>1. InclusionInv => AcceptedIsInTree
  BY AnyProofIsInTree DEF InclusionInv, AcceptedIsInTree
<1> QED BY <1>1, InclusionInvHolds, PTL

(* For any log, any of its trees, complete or not, and any lists of hashes, a   *)
(* proof of the size of the tree is accepted only if it is the one the log    *)
(* gives, and the one the log gives of any entry is not rejected.            *)
THEOREM OwnProofHolds == Spec => []OwnProofIsAccepted
<1>1. InclusionInv => (walk = "accepted" /\ proof.size = proof.tree => Genuine(proof))
  <2>1. SUFFICES ASSUME InclusionInv, walk = "accepted", proof.size = proof.tree PROVE Genuine(proof)
    OBVIOUS
  <2>2. proof \in Proofs /\ Sound(proof) /\ Comes(proof, Len(proof.hashes), TreeOf[proof.tree].root)
    BY <2>1 DEF InclusionInv
  <2> QED BY <2>1, <2>2, RootIfGenuine
<1>2. InclusionInv => (walk = "rejected" => ~ Genuine(proof))
  <2>1. SUFFICES ASSUME InclusionInv, walk = "rejected", Genuine(proof) PROVE FALSE
    OBVIOUS
  <2> DEFINE i == proof.index
             n == proof.size
             r == <<0, n>>
  <2>2. proof \in Proofs
    BY <2>1 DEF InclusionInv
  <2>3. n = proof.tree /\ n \in 1 .. MaxSize /\ i \in 0 .. n - 1 /\ i \in Nat
    BY <2>1, <2>2, ProofIs DEF Genuine
  <2>4. r \in Ranges /\ Width(r) = n /\ TreeOf[n] = Tree[r] /\ r[1] = 0
    BY <2>3, WholeTree
  <2> HIDE DEF r
  <2>5. Len(Tree[r].path[r[1] + i]) = Steps(i, n)
    BY <2>3, <2>4, ProvesAll DEF Proves
  <2>6. r[1] + i = i
    BY <2>3, <2>4
  <2>7. proof.hashes = Tree[r].path[i]
    BY <2>1, <2>4 DEF Genuine
  <2>8. Sound(proof)
    BY <2>3, <2>5, <2>6, <2>7 DEF Sound, IndexHolds, CountHolds, Steps
  <2>9. PICK e : Comes(proof, Len(proof.hashes), e) /\ e # TreeOf[proof.tree].root
    BY <2>1, <2>8 DEF InclusionInv
  <2> QED BY <2>1, <2>2, <2>3, <2>8, <2>9, RootIfGenuine
<1>3. InclusionInv => OwnProofIsAccepted
  BY <1>1, <1>2 DEF OwnProofIsAccepted
<1> QED BY <1>3, InclusionInvHolds, PTL

-----------------------------------------------------------------------------

(* Recursion.  Where the value at a place is a step from the values at places  *)
(* of a lower rank, there is a function that has all of them.  A recursive    *)
(* definition chooses one that does: this is what it takes to say so.  The     *)
(* values at d are of the set V[d].                                        *)
Valued(D, V) == {g \in [D -> UNION {V[d] : d \in D}] : \A d \in D : g[d] \in V[d]}

Alike(D, rank, g, h, m) == \A e \in D : rank[e] < m => g[e] = h[e]

Grounded(D, V, rank, step) ==
  \A d \in D : \A g, h \in Valued(D, V) :
    Alike(D, rank, g, h, rank[d]) => step[<<d, g>>] = step[<<d, h>>]

Stepping(D, V, step) == \A d \in D : \A g \in Valued(D, V) : step[<<d, g>>] \in V[d]

Follows(D, rank, step, g, m) == \A e \in D : rank[e] < m => g[e] = step[<<e, g>>]

LEMMA FollowersAlike ==
  ASSUME NEW D, NEW V, NEW rank \in [D -> Nat], NEW step, Grounded(D, V, rank, step),
         NEW m \in Nat, NEW g \in Valued(D, V), NEW h \in Valued(D, V),
         Follows(D, rank, step, g, m), Follows(D, rank, step, h, m)
  PROVE  Alike(D, rank, g, h, m)
<1> DEFINE Bad == {k \in Nat : \E e \in D : rank[e] = k /\ k < m /\ g[e] # h[e]}
<1>1. SUFFICES ASSUME Bad # {} PROVE FALSE
  BY DEF Alike
<1>2. PICK k \in Bad : \A j \in Bad : k <= j
  <2> HIDE DEF Bad
  <2>1. Bad \in SUBSET Nat
    BY DEF Bad
  <2> QED BY <1>1, <2>1, LeastNumber
<1>3. PICK e \in D : rank[e] = k /\ k < m /\ g[e] # h[e]
  BY <1>2
<1>4. Alike(D, rank, g, h, k)
  BY <1>2, <1>3 DEF Alike
<1>5. step[<<e, g>>] = step[<<e, h>>]
  BY <1>3, <1>4 DEF Grounded
<1> QED BY <1>3, <1>5 DEF Follows

LEMMA FollowerExists ==
  ASSUME NEW D, NEW V, NEW rank \in [D -> Nat], NEW step,
         \A d \in D : V[d] # {}, Stepping(D, V, step), Grounded(D, V, rank, step), NEW m \in Nat
  PROVE  \E g \in Valued(D, V) : Follows(D, rank, step, g, m)
<1> DEFINE Bad == {k \in Nat : ~ \E g \in Valued(D, V) : Follows(D, rank, step, g, k)}
<1>1. SUFFICES ASSUME Bad # {} PROVE FALSE
  OBVIOUS
<1>2. PICK k \in Bad : \A j \in Bad : k <= j
  <2> HIDE DEF Bad
  <2>1. Bad \in SUBSET Nat
    BY DEF Bad
  <2> QED BY <1>1, <2>1, LeastNumber
<1>3. k # 0
  <2> DEFINE v == [e \in D |-> CHOOSE w : w \in V[e]]
  <2>1. v \in Valued(D, V)
    BY DEF Valued
  <2>2. Follows(D, rank, step, v, 0)
    BY DEF Follows
  <2> QED BY <1>2, <2>1, <2>2
<1>4. k - 1 \in Nat /\ k - 1 \notin Bad
  BY <1>2, <1>3
<1>5. PICK g \in Valued(D, V) : Follows(D, rank, step, g, k - 1)
  BY <1>4
<1> DEFINE h == [e \in D |-> IF rank[e] < k - 1 THEN g[e] ELSE step[<<e, g>>]]
<1>6. h \in Valued(D, V)
  BY <1>5 DEF Valued, Stepping
<1>7. Alike(D, rank, g, h, k - 1)
  BY DEF Alike
<1>8. ASSUME NEW e \in D, rank[e] < k PROVE h[e] = step[<<e, h>>]
  <2>0. rank[e] \in Nat /\ k \in Nat
    BY <1>2
  <2>1. rank[e] <= k - 1
    BY <1>8, <2>0
  <2>2. Alike(D, rank, g, h, rank[e])
    BY <1>7, <2>0, <2>1 DEF Alike
  <2>3. step[<<e, g>>] = step[<<e, h>>]
    BY <1>5, <1>6, <2>2 DEF Grounded
  <2>4. h[e] = step[<<e, g>>]
    <3>1. CASE rank[e] < k - 1
      <4>1. g[e] = step[<<e, g>>]
        BY <1>5, <3>1 DEF Follows
      <4> QED BY <3>1, <4>1
    <3>2. CASE ~ (rank[e] < k - 1)
      BY <3>2
    <3> QED BY <3>1, <3>2
  <2> QED BY <2>3, <2>4
<1>9. Follows(D, rank, step, h, k)
  <2> HIDE DEF h
  <2> QED BY <1>8 DEF Follows
<1> QED BY <1>2, <1>6, <1>9

WellFounded(D, V, rank, step) ==
  /\ rank \in [D -> Nat] /\ \A d \in D : V[d] # {}
  /\ Stepping(D, V, step) /\ Grounded(D, V, rank, step)

Solves(f, D, V, step) == f \in Valued(D, V) /\ \A d \in D : f[d] = step[<<d, f>>]

LEMMA Recursion ==
  ASSUME NEW D, NEW V, NEW rank, NEW step, WellFounded(D, V, rank, step)
  PROVE  \E f : Solves(f, D, V, step)
<1>0. /\ rank \in [D -> Nat] /\ \A d \in D : V[d] # {}
      /\ Stepping(D, V, step) /\ Grounded(D, V, rank, step)
  BY DEF WellFounded
<1> DEFINE Below(d) == CHOOSE g \in Valued(D, V) : Follows(D, rank, step, g, rank[d] + 1)
           f == [d \in D |-> Below(d)[d]]
<1>1. ASSUME NEW d \in D PROVE Below(d) \in Valued(D, V) /\ Follows(D, rank, step, Below(d), rank[d] + 1)
  <2>0. rank[d] + 1 \in Nat
    BY <1>0
  <2>1. \E g \in Valued(D, V) : Follows(D, rank, step, g, rank[d] + 1)
    BY <1>0, <2>0, FollowerExists
  <2> QED BY <2>1
<1> HIDE DEF Below
<1>2. f \in Valued(D, V)
  BY <1>1 DEF Valued
<1>3. ASSUME NEW d \in D PROVE f[d] = step[<<d, f>>]
  <2>0. rank[d] \in Nat
    BY <1>0
  <2>1. ASSUME NEW e \in D, rank[e] < rank[d] PROVE Below(d)[e] = f[e]
    <3>0. rank[e] \in Nat /\ rank[e] + 1 \in Nat /\ rank[e] + 1 <= rank[d] + 1
      BY <1>0, <2>0, <2>1
    <3>1. Follows(D, rank, step, Below(d), rank[e] + 1)
      <4>1. ASSUME NEW c \in D, rank[c] < rank[e] + 1 PROVE rank[c] < rank[d] + 1
        <5>1. rank[c] \in Nat
          BY <1>0
        <5> QED BY <2>0, <3>0, <4>1, <5>1
      <4>2. Follows(D, rank, step, Below(d), rank[d] + 1)
        BY <1>1
      <4> QED BY <4>1, <4>2 DEF Follows
    <3>2. Below(d) \in Valued(D, V) /\ Below(e) \in Valued(D, V) /\ Follows(D, rank, step, Below(e), rank[e] + 1)
      BY <1>1
    <3>3. Alike(D, rank, Below(d), Below(e), rank[e] + 1)
      BY <1>0, <3>0, <3>1, <3>2, FollowersAlike
    <3>4. rank[e] < rank[e] + 1
      BY <3>0
    <3>5. Below(d)[e] = Below(e)[e]
      BY <3>3, <3>4 DEF Alike
    <3> QED BY <3>5
  <2>2. Alike(D, rank, Below(d), f, rank[d])
    BY <2>1 DEF Alike
  <2>3. step[<<d, Below(d)>>] = step[<<d, f>>]
    BY <1>0, <1>1, <1>2, <2>2 DEF Grounded
  <2>4. Below(d)[d] = step[<<d, Below(d)>>]
    <3>1. Follows(D, rank, step, Below(d), rank[d] + 1) /\ rank[d] < rank[d] + 1
      BY <1>1, <2>0
    <3> QED BY <3>1 DEF Follows
  <2> QED BY <2>3, <2>4
<1> HIDE DEF f
<1> QED BY <1>2, <1>3 DEF Solves

-----------------------------------------------------------------------------
(* Pieces of sequences, from one position to another.                        *)
LEMMA Cut ==
  ASSUME NEW S, NEW b \in Seq(S), NEW q \in 0 .. Len(b), NEW p \in 0 .. q
  PROVE  /\ SubSeq(b, p + 1, q) \in Seq(S) /\ Len(SubSeq(b, p + 1, q)) = q - p
         /\ \A i \in 1 .. q - p : SubSeq(b, p + 1, q)[i] = b[p + i]
<1>1. Len(b) \in Nat /\ b \in [1 .. Len(b) -> S]
  BY LenProperties
<1>2. \A i \in p + 1 .. q : b[i] \in S
  BY <1>1
<1>3. SubSeq(b, p + 1, q) \in Seq(S) /\ Len(SubSeq(b, p + 1, q)) = q - p
  BY <1>2, SubSeqProperties
<1> QED BY <1>1, <1>3

LEMMA CutJoin ==
  ASSUME NEW S, NEW b \in Seq(S), NEW r \in 0 .. Len(b), NEW q \in 0 .. r, NEW p \in 0 .. q
  PROVE  SubSeq(b, p + 1, q) \o SubSeq(b, q + 1, r) = SubSeq(b, p + 1, r)
<1>0. Len(b) \in Nat
  BY LenProperties
<1> DEFINE x == SubSeq(b, p + 1, q)
           y == SubSeq(b, q + 1, r)
           z == SubSeq(b, p + 1, r)
<1>1. x \in Seq(S) /\ Len(x) = q - p /\ \A i \in 1 .. q - p : x[i] = b[p + i]
  BY <1>0, Cut
<1>2. y \in Seq(S) /\ Len(y) = r - q /\ \A i \in 1 .. r - q : y[i] = b[q + i]
  BY <1>0, Cut
<1>3. z \in Seq(S) /\ Len(z) = r - p /\ \A i \in 1 .. r - p : z[i] = b[p + i]
  <2>1. p \in 0 .. r
    BY <1>0
  <2> QED BY <2>1, Cut
<1> HIDE DEF x, y, z
<1>4. x \o y \in Seq(S) /\ Len(x \o y) = r - p
  <2>1. x \o y \in Seq(S) /\ Len(x \o y) = Len(x) + Len(y)
    BY <1>1, <1>2, ConcatProperties
  <2> QED BY <1>0, <1>1, <1>2, <2>1
<1>5. ASSUME NEW i \in 1 .. r - p PROVE (x \o y)[i] = z[i]
  <2>1. CASE i <= q - p
    BY <1>0, <1>1, <1>2, <1>3, <2>1
  <2>2. CASE ~ (i <= q - p)
    <3>1. i - (q - p) \in 1 .. r - q
      BY <1>0, <2>2
    <3>2. (x \o y)[i] = y[i - (q - p)]
      BY <1>0, <1>1, <1>2, <2>2
    <3> QED BY <1>0, <1>2, <1>3, <3>1, <3>2
  <2> QED BY <2>1, <2>2
<1>6. x \o y = z
  BY <1>3, <1>4, <1>5, SeqEqual
<1> QED BY <1>6 DEF x, y, z

LEMMA CutOfCut ==
  ASSUME NEW S, NEW b \in Seq(S), NEW q \in 0 .. Len(b), NEW p \in 0 .. q,
         NEW j \in 0 .. q - p, NEW i \in 0 .. j
  PROVE  SubSeq(SubSeq(b, p + 1, q), i + 1, j) = SubSeq(b, p + i + 1, p + j)
<1>0. Len(b) \in Nat
  BY LenProperties
<1> DEFINE x == SubSeq(b, p + 1, q)
           y == SubSeq(x, i + 1, j)
           z == SubSeq(b, p + i + 1, p + j)
<1>1. x \in Seq(S) /\ Len(x) = q - p /\ \A k \in 1 .. q - p : x[k] = b[p + k]
  BY <1>0, Cut
<1> HIDE DEF x
<1>2. y \in Seq(S) /\ Len(y) = j - i /\ \A k \in 1 .. j - i : y[k] = x[i + k]
  BY <1>0, <1>1, Cut
<1>3. z \in Seq(S) /\ Len(z) = j - i /\ \A k \in 1 .. j - i : z[k] = b[p + i + k]
  <2>1. p + i \in 0 .. p + j /\ p + j \in 0 .. Len(b) /\ (p + j) - (p + i) = j - i
    BY <1>0
  <2> QED BY <2>1, Cut
<1> HIDE DEF y, z
<1>4. ASSUME NEW k \in 1 .. j - i PROVE y[k] = z[k]
  <2>1. i + k \in 1 .. q - p /\ p + (i + k) = p + i + k
    BY <1>0
  <2> QED BY <1>1, <1>2, <1>3, <2>1
<1>5. y = z
  BY <1>2, <1>3, <1>4, SeqEqual
<1> QED BY <1>5 DEF x, y, z

LEMMA CutLeft ==
  ASSUME NEW S, NEW s \in Seq(S), NEW t \in Seq(S), NEW q \in 0 .. Len(s), NEW p \in 0 .. q
  PROVE  SubSeq(s \o t, p + 1, q) = SubSeq(s, p + 1, q)
<1>1. Len(s) \in Nat /\ Len(t) \in Nat
  BY LenProperties
<1>2. CASE p = q
  BY <1>1, <1>2, SubSeqEmpty
<1>3. CASE p < q
  BY <1>1, <1>3, SubSeqOfConcat1
<1> QED BY <1>2, <1>3, <1>1

LEMMA CutRight ==
  ASSUME NEW S, NEW s \in Seq(S), NEW t \in Seq(S), NEW q \in 0 .. Len(t), NEW p \in 0 .. q
  PROVE  SubSeq(s \o t, Len(s) + p + 1, Len(s) + q) = SubSeq(t, p + 1, q)
<1>1. Len(s) \in Nat /\ Len(t) \in Nat
  BY LenProperties
<1>2. CASE p = q
  BY <1>1, <1>2, SubSeqEmpty
<1>3. CASE p < q
  <2>1. SubSeq(s \o t, Len(s) + p + 1, Len(s) + q) =
          SubSeq(t, Len(s) + p + 1 - Len(s), Len(s) + q - Len(s))
    BY <1>1, <1>3, SubSeqOfConcat2
  <2>2. Len(s) + p + 1 - Len(s) = p + 1 /\ Len(s) + q - Len(s) = q
    BY <1>1
  <2> QED BY <2>1, <2>2
<1> QED BY <1>2, <1>3, <1>1

\* All of the left, and all of the right.
LEMMA CutParts ==
  ASSUME NEW S, NEW s \in Seq(S), NEW t \in Seq(S)
  PROVE  /\ SubSeq(s \o t, 1, Len(s)) = s
         /\ SubSeq(s \o t, Len(s) + 1, Len(s) + Len(t)) = t
<1>1. Len(s) \in Nat /\ Len(t) \in Nat
  BY LenProperties
<1>2. SubSeq(s \o t, 0 + 1, Len(s)) = SubSeq(s, 0 + 1, Len(s))
  BY <1>1, CutLeft
<1>3. SubSeq(s \o t, Len(s) + 0 + 1, Len(s) + Len(t)) = SubSeq(t, 0 + 1, Len(t))
  BY <1>1, CutRight
<1>4. 0 + 1 = 1 /\ Len(s) + 0 + 1 = Len(s) + 1
  BY <1>1
<1>5. SubSeq(s, 1, Len(s)) = s /\ SubSeq(t, 1, Len(t)) = t
  BY SubSeqFull
<1> QED BY <1>2, <1>3, <1>4, <1>5

(* Sequences side by side: where each of them begins and ends.               *)
Cuts(at, seqs, whole) ==
  /\ at \in [0 .. Len(seqs) -> Nat] /\ at[0] = 0 /\ at[Len(seqs)] = Len(whole)
  /\ \A k \in 1 .. Len(seqs) :
       /\ at[k] = at[k - 1] + Len(seqs[k]) /\ at[k] <= Len(whole)
       /\ SubSeq(whole, at[k - 1] + 1, at[k]) = seqs[k]

Joins(acc, seqs, S) ==
  /\ acc \in [0 .. Len(seqs) -> Seq(S)] /\ acc[0] = <<>>
  /\ \A k \in 1 .. Len(seqs) : acc[k] = acc[k - 1] \o seqs[k]

LEMMA JoinsExists ==
  ASSUME NEW S, NEW seqs \in Seq(Seq(S))
  PROVE  \E acc : Joins(acc, seqs, S)
<1> DEFINE D == 0 .. Len(seqs)
           V == [d \in D |-> Seq(S)]
           rank == [d \in D |-> d]
           body(d, g) == IF d = 0 THEN <<>> ELSE g[d - 1] \o seqs[d]
           step == [z \in D \X Valued(D, V) |-> body(z[1], z[2])]
<1>0. Len(seqs) \in Nat /\ \A k \in 1 .. Len(seqs) : seqs[k] \in Seq(S)
  BY LenProperties
<1>1. rank \in [D -> Nat]
  BY <1>0
<1>2. \A d \in D : V[d] # {}
  BY EmptySeq
<1>3. \A d \in D, g \in Valued(D, V) : step[<<d, g>>] = body(d, g)
  OBVIOUS
<1>4. ASSUME NEW d \in D, NEW g \in Valued(D, V) PROVE body(d, g) \in Seq(S)
  <2>1. CASE d = 0
    BY <2>1, EmptySeq
  <2>2. CASE d # 0
    <3>1. d - 1 \in D /\ d \in 1 .. Len(seqs)
      BY <1>0, <2>2
    <3>2. g[d - 1] \in Seq(S)
      BY <3>1 DEF Valued
    <3> QED BY <1>0, <2>2, <3>1, <3>2, ConcatProperties
  <2> QED BY <2>1, <2>2
<1>5. Stepping(D, V, step)
  BY <1>3, <1>4 DEF Stepping
<1>6. ASSUME NEW d \in D, NEW g \in Valued(D, V), NEW h \in Valued(D, V), Alike(D, rank, g, h, rank[d])
      PROVE  body(d, g) = body(d, h)
  <2>1. CASE d = 0
    BY <2>1
  <2>2. CASE d # 0
    <3>1. d - 1 \in D /\ rank[d - 1] < rank[d]
      BY <1>0, <2>2
    <3>2. g[d - 1] = h[d - 1]
      BY <1>6, <3>1 DEF Alike
    <3> QED BY <3>2
  <2> QED BY <2>1, <2>2
<1>7. Grounded(D, V, rank, step)
  <2>1. \A d \in D : \A g, h \in Valued(D, V) : Alike(D, rank, g, h, rank[d]) => step[<<d, g>>] = step[<<d, h>>]
    <3>1. TAKE d \in D
    <3>2. TAKE g, h \in Valued(D, V)
    <3>3. HAVE Alike(D, rank, g, h, rank[d])
    <3>4. body(d, g) = body(d, h)
      BY <1>6, <3>3
    <3> HIDE DEF body, step
    <3> QED BY <1>3, <3>4
  <2> QED BY <2>1 DEF Grounded
<1>8. WellFounded(D, V, rank, step)
  BY <1>1, <1>2, <1>5, <1>7 DEF WellFounded
<1>80. PICK f : Solves(f, D, V, step)
  <2> HIDE DEF D, V, rank, step
  <2> QED BY <1>8, Recursion
<1>9. f \in [D -> Seq(S)]
  <2>1. f = [d \in D |-> f[d]]
    BY <1>80 DEF Solves, Valued
  <2>2. \A d \in D : f[d] \in Seq(S)
    BY <1>80 DEF Solves, Valued
  <2> QED BY <2>1, <2>2
<1>10. \A d \in D : f[d] = body(d, f)
  BY <1>3, <1>80 DEF Solves
<1>11. \A k \in 1 .. Len(seqs) : f[k] = f[k - 1] \o seqs[k]
  <2>1. \A k \in 1 .. Len(seqs) : k \in D /\ k # 0
    BY <1>0
  <2> QED BY <2>1, <1>10
<1>12. f[0] = <<>>
  BY <1>0, <1>10
<1> QED BY <1>9, <1>11, <1>12 DEF Joins

LEMMA JoinsIs ==
  ASSUME NEW S, NEW seqs \in Seq(Seq(S)), NEW acc, Joins(acc, seqs, S)
  PROVE  FlattenSeq(seqs) = acc[Len(seqs)]
<1>0. Len(seqs) \in Nat /\ \A k \in 1 .. Len(seqs) : seqs[k] \in Seq(S)
  BY LenProperties
<1>1. CASE Len(seqs) = 0
  <2>1. seqs = <<>>
    BY <1>1, EmptySeq
  <2> QED BY <1>1, <2>1 DEF FlattenSeq, Joins
<1>2. CASE Len(seqs) # 0
  <2> DEFINE n == Len(seqs)
             Flat(f) == f = [i \in 1 .. n |-> IF i = 1 THEN seqs[i] ELSE f[i - 1] \o seqs[i]]
             f == CHOOSE f : Flat(f)
             g == [i \in 1 .. n |-> acc[i]]
  <2>1. Flat(g)
    <3>1. ASSUME NEW i \in 1 .. n PROVE acc[i] = IF i = 1 THEN seqs[i] ELSE g[i - 1] \o seqs[i]
      <4>1. acc[i] = acc[i - 1] \o seqs[i]
        BY DEF Joins
      <4>2. CASE i = 1
        <5>1. acc[0] = <<>> /\ seqs[i] \in Seq(S)
          BY <1>0 DEF Joins
        <5>2. i - 1 = 0
          BY <4>2
        <5>3. <<>> \o seqs[i] = seqs[i]
          BY <5>1, ConcatEmptySeq
        <5> QED BY <4>1, <4>2, <5>1, <5>2, <5>3
      <4>3. CASE i # 1
        <5>1. i - 1 \in 1 .. n
          BY <1>0, <4>3
        <5> QED BY <4>1, <4>3, <5>1
      <4> QED BY <4>2, <4>3
    <3> QED BY <3>1
  <2>2. Flat(f)
    BY <2>1
  <2>3. FlattenSeq(seqs) = f[n]
    BY <1>2 DEF FlattenSeq
  <2> HIDE DEF f, g
  <2> DEFINE Bad == {i \in 1 .. n : f[i] # g[i]}
  <2>4. Bad = {}
    <3>1. SUFFICES ASSUME Bad # {} PROVE FALSE
      OBVIOUS
    <3>2. Bad \in SUBSET Nat
      BY <1>0
    <3>3. PICK i \in Bad : \A j \in Bad : i <= j
      <4> HIDE DEF Bad
      <4> QED BY <3>1, <3>2, LeastNumber
    <3>4. i \in 1 .. n /\ i # 0 /\ f[i] # g[i]
      BY <3>3
    <3>5. CASE i = 1
      BY <2>1, <2>2, <3>4, <3>5
    <3>6. CASE i # 1
      <4>1. i - 1 \in 1 .. n /\ i - 1 \notin Bad
        BY <1>0, <3>3, <3>4, <3>6
      <4>2. f[i - 1] = g[i - 1]
        BY <4>1
      <4>3. f[i] = f[i - 1] \o seqs[i]
        BY <2>2, <3>4, <3>6
      <4>4. g[i] = g[i - 1] \o seqs[i]
        BY <2>1, <3>4, <3>6
      <4> QED BY <3>4, <4>2, <4>3, <4>4
    <3> QED BY <3>5, <3>6
  <2>5. n \in 1 .. n
    BY <1>0, <1>2
  <2>6. f[n] = g[n]
    BY <2>4, <2>5
  <2> QED BY <2>3, <2>5, <2>6 DEF g
<1> QED BY <1>1, <1>2

(* What flattening has of each of the sequences ...                          *)
LEMMA JoinsCuts ==
  ASSUME NEW S, NEW seqs \in Seq(Seq(S)), NEW acc, Joins(acc, seqs, S)
  PROVE  Cuts([k \in 0 .. Len(seqs) |-> Len(acc[k])], seqs, acc[Len(seqs)])
<1>0. Len(seqs) \in Nat /\ \A k \in 1 .. Len(seqs) : seqs[k] \in Seq(S)
  BY LenProperties
<1> DEFINE n == Len(seqs)
           at == [k \in 0 .. n |-> Len(acc[k])]
<1>1. \A k \in 0 .. n : acc[k] \in Seq(S) /\ at[k] \in Nat /\ at[k] = Len(acc[k])
  BY LenProperties DEF Joins
<1>2. at \in [0 .. n -> Nat] /\ at[0] = 0 /\ at[n] = Len(acc[n])
  <2>1. at[0] = 0
    BY <1>0, EmptySeq DEF Joins
  <2> QED BY <1>0, <1>1, <2>1
<1>3. ASSUME NEW k \in 1 .. n
      PROVE  /\ at[k] = at[k - 1] + Len(seqs[k]) /\ at[k - 1] <= at[k]
             /\ SubSeq(acc[k], 1, at[k - 1]) = acc[k - 1]
             /\ SubSeq(acc[k], at[k - 1] + 1, at[k]) = seqs[k]
  <2>1. k - 1 \in 0 .. n /\ k \in 0 .. n
    BY <1>0
  <2>2. acc[k] = acc[k - 1] \o seqs[k] /\ acc[k - 1] \in Seq(S) /\ seqs[k] \in Seq(S)
    BY <1>0, <1>1, <2>1 DEF Joins
  <2>3. Len(acc[k]) = Len(acc[k - 1]) + Len(seqs[k]) /\ Len(seqs[k]) \in Nat
    BY <2>2, ConcatProperties, LenProperties
  <2>4. /\ SubSeq(acc[k], 1, Len(acc[k - 1])) = acc[k - 1]
        /\ SubSeq(acc[k], Len(acc[k - 1]) + 1, Len(acc[k - 1]) + Len(seqs[k])) = seqs[k]
    <3>1. /\ SubSeq(acc[k - 1] \o seqs[k], 1, Len(acc[k - 1])) = acc[k - 1]
          /\ SubSeq(acc[k - 1] \o seqs[k], Len(acc[k - 1]) + 1, Len(acc[k - 1]) + Len(seqs[k])) = seqs[k]
      BY <2>2, CutParts
    <3> QED BY <2>2, <3>1
  <2>5. at[k] = Len(acc[k]) /\ at[k - 1] = Len(acc[k - 1]) /\ at[k] \in Nat /\ at[k - 1] \in Nat
    BY <1>1, <2>1
  <2> HIDE DEF at
  <2>6. at[k] = at[k - 1] + Len(seqs[k]) /\ at[k - 1] <= at[k]
    <3>1. at[k] = at[k - 1] + Len(seqs[k])
      BY <2>3, <2>5
    <3>2. at[k - 1] \in Nat /\ Len(seqs[k]) \in Nat
      BY <2>3, <2>5
    <3> QED BY <3>1, <3>2
  <2>7. /\ SubSeq(acc[k], 1, at[k - 1]) = acc[k - 1]
        /\ SubSeq(acc[k], at[k - 1] + 1, at[k]) = seqs[k]
    BY <2>3, <2>4, <2>5
  <2> QED BY <2>6, <2>7
<1> HIDE DEF at
<1> DEFINE Within(j) == /\ at[j] <= at[n] /\ SubSeq(acc[n], 1, at[j]) = acc[j]
           Bad == {m \in 0 .. n : ~ Within(n - m)}
<1>4. Bad = {}
  <2>1. SUFFICES ASSUME Bad # {} PROVE FALSE
    OBVIOUS
  <2>2. PICK m \in Bad : \A j \in Bad : m <= j
    <3>1. Bad \in SUBSET Nat
      BY <1>0
    <3> HIDE DEF Bad
    <3> QED BY <2>1, <3>1, LeastNumber
  <2>3. m \in 0 .. n /\ ~ Within(n - m)
    BY <2>2
  <2>4. m # 0
    <3>1. Within(n)
      <4>1. n \in 0 .. n
        BY <1>0
      <4>2. acc[n] \in Seq(S) /\ at[n] = Len(acc[n]) /\ at[n] \in Nat
        BY <1>1, <4>1
      <4>3. SubSeq(acc[n], 1, at[n]) = acc[n]
        BY <4>2, SubSeqFull
      <4> QED BY <4>2, <4>3
    <3>2. m = 0 => n - m = n
      BY <1>0
    <3> QED BY <2>3, <3>1, <3>2
  <2> DEFINE k == n - m + 1
  <2>5. m - 1 \in 0 .. n /\ m - 1 \notin Bad /\ n - (m - 1) = k /\ k \in 1 .. n /\ k - 1 = n - m /\ k \in 0 .. n /\ k - 1 \in 0 .. n
    <3>1. /\ m - 1 \in 0 .. n /\ n - (m - 1) = k /\ k \in 1 .. n /\ k - 1 = n - m
          /\ k \in 0 .. n /\ k - 1 \in 0 .. n /\ ~ (m <= m - 1)
      BY <1>0, <2>3, <2>4
    <3> HIDE DEF k
    <3> QED BY <2>2, <3>1
  <2>6. Within(k)
    BY <2>5
  <2> HIDE DEF k
  <2>7. at[k - 1] <= at[k] /\ SubSeq(acc[k], 1, at[k - 1]) = acc[k - 1]
    BY <1>3, <2>5
  <2>8. acc[n] \in Seq(S) /\ at[n] = Len(acc[n]) /\ at[n] \in Nat /\ at[k] \in Nat /\ at[k - 1] \in Nat /\ acc[k] \in Seq(S)
    <3>1. n \in 0 .. n
      BY <1>0
    <3> QED BY <1>1, <2>5, <3>1
  <2>9. SubSeq(SubSeq(acc[n], 0 + 1, at[k]), 0 + 1, at[k - 1]) = SubSeq(acc[n], 0 + 0 + 1, 0 + at[k - 1])
    <3>1. at[k] \in 0 .. Len(acc[n]) /\ 0 \in 0 .. at[k] /\ at[k - 1] \in 0 .. at[k] - 0 /\ 0 \in 0 .. at[k - 1]
      BY <2>6, <2>7, <2>8
    <3> QED BY <2>8, <3>1, CutOfCut
  <2>10. SubSeq(SubSeq(acc[n], 1, at[k]), 1, at[k - 1]) = SubSeq(acc[n], 1, at[k - 1])
    <3>1. 0 + 1 = 1 /\ 0 + 0 + 1 = 1 /\ 0 + at[k - 1] = at[k - 1]
      BY <2>8
    <3> QED BY <2>9, <3>1
  <2>11. Within(k - 1)
    BY <2>6, <2>7, <2>8, <2>10
  <2> QED BY <2>3, <2>5, <2>11
<1>5. ASSUME NEW j \in 0 .. n PROVE Within(j)
  <2>1. n - j \in 0 .. n /\ n - (n - j) = j
    BY <1>0
  <2> QED BY <1>4, <2>1
<1>6. ASSUME NEW k \in 1 .. n
      PROVE  at[k] <= Len(acc[n]) /\ SubSeq(acc[n], at[k - 1] + 1, at[k]) = seqs[k]
  <2>1. k - 1 \in 0 .. n /\ k \in 0 .. n
    BY <1>0
  <2>2. at[k] \in 0 .. Len(acc[n]) /\ at[k - 1] \in 0 .. at[k] /\ acc[n] \in Seq(S) /\ at[k] \in Nat /\ at[k - 1] \in Nat
    <3>1. at[k] <= at[n] /\ at[n] = Len(acc[n]) /\ acc[n] \in Seq(S)
      BY <1>0, <1>1, <1>2, <1>5, <2>1
    <3>2. at[k - 1] <= at[k] /\ at[k] \in Nat /\ at[k - 1] \in Nat /\ at[n] \in Nat
      BY <1>0, <1>1, <1>3, <2>1
    <3> QED BY <3>1, <3>2
  <2>3. SubSeq(SubSeq(acc[n], 0 + 1, at[k]), at[k - 1] + 1, at[k]) = SubSeq(acc[n], 0 + at[k - 1] + 1, 0 + at[k])
    <3>1. 0 \in 0 .. at[k] /\ at[k] \in 0 .. at[k] - 0 /\ at[k - 1] \in 0 .. at[k]
      BY <2>2
    <3> QED BY <2>2, <3>1, CutOfCut
  <2>4. SubSeq(SubSeq(acc[n], 1, at[k]), at[k - 1] + 1, at[k]) = SubSeq(acc[n], at[k - 1] + 1, at[k])
    <3>1. 0 + 1 = 1 /\ 0 + at[k - 1] + 1 = at[k - 1] + 1 /\ 0 + at[k] = at[k]
      BY <2>2
    <3> QED BY <2>3, <3>1
  <2>5. SubSeq(acc[n], 1, at[k]) = acc[k]
    BY <1>5, <2>1
  <2>6. SubSeq(acc[k], at[k - 1] + 1, at[k]) = seqs[k]
    BY <1>3
  <2>7. at[k] <= Len(acc[n])
    BY <2>2
  <2> QED BY <2>4, <2>5, <2>6, <2>7
<1>7. Cuts(at, seqs, acc[n])
  <2>1. \A k \in 1 .. n : at[k] = at[k - 1] + Len(seqs[k])
    BY <1>3
  <2> QED BY <1>2, <1>6, <2>1 DEF Cuts
<1> QED BY <1>7 DEF at

LEMMA FlattenCuts ==
  ASSUME NEW S, NEW seqs \in Seq(Seq(S))
  PROVE  FlattenSeq(seqs) \in Seq(S) /\ \E at : Cuts(at, seqs, FlattenSeq(seqs))
<1>1. PICK acc : Joins(acc, seqs, S)
  BY JoinsExists
<1>2. FlattenSeq(seqs) = acc[Len(seqs)]
  BY <1>1, JoinsIs
<1>3. acc[Len(seqs)] \in Seq(S)
  <2>1. Len(seqs) \in 0 .. Len(seqs)
    BY LenProperties
  <2> QED BY <1>1, <2>1 DEF Joins
<1> QED BY <1>1, <1>2, <1>3, JoinsCuts

(* ... and what has each of them is what flattening makes of them.            *)
LEMMA CutsFlatten ==
  ASSUME NEW S, NEW seqs \in Seq(Seq(S)), NEW b \in Seq(S), NEW at, Cuts(at, seqs, b)
  PROVE  FlattenSeq(seqs) = b
<1>0. Len(seqs) \in Nat /\ Len(b) \in Nat
  BY LenProperties
<1> DEFINE n == Len(seqs)
           acc == [k \in 0 .. n |-> SubSeq(b, 1, at[k])]
<1>1. ASSUME NEW k \in 0 .. n PROVE at[k] \in Nat /\ at[k] <= Len(b)
  BY <1>0 DEF Cuts
<1>2. \A k \in 1 .. n : k \in 0 .. n /\ k - 1 \in 0 .. n
  BY <1>0
<1>3. ASSUME NEW k \in 1 .. n PROVE at[k - 1] <= at[k] /\ SubSeq(b, at[k - 1] + 1, at[k]) = seqs[k]
  <2>1. at[k] = at[k - 1] + Len(seqs[k]) /\ SubSeq(b, at[k - 1] + 1, at[k]) = seqs[k]
    BY DEF Cuts
  <2>2. Len(seqs[k]) \in Nat
    BY LenProperties
  <2>3. at[k] \in Nat /\ at[k - 1] \in Nat
    BY <1>1, <1>2
  <2> DEFINE p == at[k - 1]
             q == at[k]
             c == Len(seqs[k])
  <2>4. q = p + c /\ p \in Nat /\ c \in Nat
    BY <2>1, <2>2, <2>3
  <2> HIDE DEF p, q, c
  <2>5. p <= q
    BY <2>4
  <2> QED BY <2>1, <2>5 DEF p, q
<1>4. \A k \in 0 .. n : acc[k] \in Seq(S)
  <2>1. ASSUME NEW k \in 0 .. n PROVE SubSeq(b, 0 + 1, at[k]) \in Seq(S)
    <3>1. at[k] \in 0 .. Len(b) /\ 0 \in 0 .. at[k]
      BY <1>0, <1>1
    <3> QED BY <3>1, Cut
  <2> QED BY <2>1
<1>5. acc[0] = <<>>
  <2>1. at[0] = 0 /\ 0 \in 0 .. n
    BY <1>0 DEF Cuts
  <2> QED BY <2>1, SubSeqEmpty
<1>6. ASSUME NEW k \in 1 .. n PROVE acc[k] = acc[k - 1] \o seqs[k]
  <2>1. SubSeq(b, 0 + 1, at[k - 1]) \o SubSeq(b, at[k - 1] + 1, at[k]) = SubSeq(b, 0 + 1, at[k])
    <3>1. at[k] \in 0 .. Len(b) /\ at[k - 1] \in 0 .. at[k] /\ 0 \in 0 .. at[k - 1]
      BY <1>0, <1>1, <1>2, <1>3
    <3> QED BY <3>1, CutJoin
  <2>2. acc[k] = SubSeq(b, 1, at[k]) /\ acc[k - 1] = SubSeq(b, 1, at[k - 1])
    BY <1>2
  <2>3. SubSeq(b, at[k - 1] + 1, at[k]) = seqs[k]
    BY <1>3
  <2>4. 0 + 1 = 1
    OBVIOUS
  <2>5. SubSeq(b, 1, at[k - 1]) \o SubSeq(b, at[k - 1] + 1, at[k]) = SubSeq(b, 1, at[k])
    BY <2>1, <2>4
  <2> HIDE DEF acc
  <2> QED BY <2>2, <2>3, <2>5
<1>7. Joins(acc, seqs, S)
  <2> HIDE DEF acc
  <2>1. acc = [k \in 0 .. n |-> acc[k]]
    BY DEF acc
  <2> QED BY <1>4, <1>5, <1>6, <2>1 DEF Joins
<1>8. FlattenSeq(seqs) = acc[n]
  <2> HIDE DEF acc
  <2> QED BY <1>7, JoinsIs
<1>9. acc[n] = b
  <2>1. n \in 0 .. n /\ at[n] = Len(b)
    BY <1>0 DEF Cuts
  <2> QED BY <2>1, SubSeqFull
<1> QED BY <1>8, <1>9

-----------------------------------------------------------------------------
(* Lists of SCTs.  What a sequence starts with.                              *)
Starts(b, x) == Len(x) <= Len(b) /\ SubSeq(b, 1, Len(x)) = x

LEMMA StartsLeft ==
  ASSUME NEW S, NEW x \in Seq(S), NEW y \in Seq(S)
  PROVE  Starts(x \o y, x)
<1>1. Len(x) \in Nat /\ Len(y) \in Nat /\ Len(x \o y) = Len(x) + Len(y)
  BY LenProperties, ConcatProperties
<1>2. SubSeq(x \o y, 1, Len(x)) = x
  BY CutParts
<1> QED BY <1>1, <1>2 DEF Starts

Continues(S, b, x, y) == b \in Seq(S) /\ x \in Seq(S) /\ y \in Seq(S) /\ Starts(b, x \o y)
Part(b, x, y) == Starts(b, x) /\ SubSeq(b, Len(x) + 1, Len(x) + Len(y)) = y

LEMMA PartIs ==
  ASSUME NEW S, NEW b, NEW x, NEW y, Continues(S, b, x, y)
  PROVE  Part(b, x, y)
<1>0. b \in Seq(S) /\ x \in Seq(S) /\ y \in Seq(S) /\ Starts(b, x \o y)
  BY DEF Continues
<1> DEFINE z == x \o y
           n == Len(x) + Len(y)
<1>1. Len(x) \in Nat /\ Len(y) \in Nat /\ Len(b) \in Nat /\ Len(z) = n /\ n <= Len(b) /\ SubSeq(b, 1, n) = z
  BY <1>0, LenProperties, ConcatProperties DEF Starts
<1>2. SubSeq(z, 1, Len(x)) = x /\ SubSeq(z, Len(x) + 1, n) = y
  BY <1>0, CutParts
<1> HIDE DEF z
<1>3. SubSeq(SubSeq(b, 0 + 1, n), 0 + 1, Len(x)) = SubSeq(b, 0 + 0 + 1, 0 + Len(x))
  <2>1. n \in 0 .. Len(b) /\ 0 \in 0 .. n /\ Len(x) \in 0 .. n - 0 /\ 0 \in 0 .. Len(x)
    BY <1>1
  <2> HIDE DEF n
  <2> QED BY <1>0, <2>1, CutOfCut
<1>4. SubSeq(SubSeq(b, 0 + 1, n), Len(x) + 1, n) = SubSeq(b, 0 + Len(x) + 1, 0 + n)
  <2>1. n \in 0 .. Len(b) /\ 0 \in 0 .. n /\ n \in 0 .. n - 0 /\ Len(x) \in 0 .. n
    BY <1>1
  <2> HIDE DEF n
  <2> QED BY <1>0, <2>1, CutOfCut
<1>5. 0 + 1 = 1 /\ 0 + 0 + 1 = 1 /\ 0 + Len(x) = Len(x) /\ 0 + Len(x) + 1 = Len(x) + 1 /\ 0 + n = n
      /\ Len(x) <= n /\ Len(x) <= Len(b)
  BY <1>1
<1> HIDE DEF n
<1>6. SubSeq(b, 1, Len(x)) = x /\ SubSeq(b, Len(x) + 1, n) = y
  BY <1>1, <1>2, <1>3, <1>4, <1>5
<1> QED BY <1>1, <1>5, <1>6 DEF Part, Starts, n, z

LEMMA Concat ==
  ASSUME NEW S, NEW x \in Seq(S), NEW y \in Seq(S)
  PROVE  /\ x \o y \in Seq(S) /\ Len(x \o y) = Len(x) + Len(y)
         /\ Len(x) \in Nat /\ Len(y) \in Nat /\ Len(x) + Len(y) \in Nat
<1>1. x \o y \in Seq(S) /\ Len(x \o y) = Len(x) + Len(y)
  BY ConcatProperties
<1>2. Len(x) \in Nat /\ Len(y) \in Nat
  BY LenProperties
<1> QED BY <1>1, <1>2

LEMMA ConcatFirst ==
  ASSUME NEW S, NEW x \in Seq(S), NEW y \in Seq(S), NEW i \in 1 .. Len(x)
  PROVE  (x \o y)[i] = x[i]
<1>1. Len(x) \in Nat /\ Len(y) \in Nat
  BY LenProperties
<1>2. i \in 1 .. Len(x) + Len(y) /\ i <= Len(x)
  BY <1>1
<1> QED BY <1>2, ConcatProperties

(* Numbers that two bytes state.                                           *)
Statable(n) == n \in Nat /\ n < 256 * 256

LEMMA StatedIs ==
  ASSUME NEW n, Statable(n)
  PROVE  /\ Stated(n) \in Seq(Byte) /\ Len(Stated(n)) = 2
         /\ Stated(n)[1] * 256 + Stated(n)[2] = n
<1>1. n \in Nat /\ n < 256 * 256
  BY DEF Statable
<1> DEFINE h == n \div 256
           l == n % 256
<1>2. h \in Int /\ l \in 0 .. 255 /\ n = 256 * h + l
  BY <1>1
<1> HIDE DEF h, l
<1>3. h \in 0 .. 255
  BY <1>1, <1>2
<1>4. h \in Byte /\ l \in Byte
  BY <1>2, <1>3 DEF Byte
<1>5. h * 256 + l = n
  BY <1>1, <1>2, <1>3
<1>6. <<h, l>> \in Seq(Byte) /\ Len(<<h, l>>) = 2 /\ <<h, l>>[1] = h /\ <<h, l>>[2] = l
  <2> HIDE DEF Byte
  <2> QED BY <1>4
<1>7. Stated(n) = <<h, l>>
  BY DEF Stated, h, l
<1> QED BY <1>5, <1>6, <1>7

LEMMA PrefixedIs ==
  ASSUME NEW c \in Seq(Byte), Statable(Len(c))
  PROVE  /\ Prefixed(c) \in Seq(Byte) /\ Len(Prefixed(c)) = 2 + Len(c)
         /\ Prefixed(c)[1] * 256 + Prefixed(c)[2] = Len(c)
         /\ SubSeq(Prefixed(c), 3, 2 + Len(c)) = c
<1> DEFINE s == Stated(Len(c))
<1>2. s \in Seq(Byte) /\ Len(s) = 2 /\ s[1] * 256 + s[2] = Len(c)
  BY StatedIs
<1> HIDE DEF s
<1>3. s \o c \in Seq(Byte) /\ Len(s \o c) = Len(s) + Len(c) /\ Len(c) \in Nat
  BY <1>2, Concat
<1>4. SubSeq(s \o c, Len(s) + 1, Len(s) + Len(c)) = c
  BY <1>2, CutParts
<1>5. (s \o c)[1] = s[1] /\ (s \o c)[2] = s[2]
  <2>1. 1 \in 1 .. Len(s) + Len(c) /\ 2 \in 1 .. Len(s) + Len(c) /\ 1 <= Len(s) /\ 2 <= Len(s)
    BY <1>2, <1>3
  <2> QED BY <1>2, <2>1, ConcatProperties
<1>6. SubSeq(s \o c, 3, 2 + Len(c)) = c
  <2>1. Len(s) + 1 = 3
    BY <1>2
  <2> QED BY <1>2, <1>4, <2>1
<1>7. Prefixed(c) = s \o c
  BY DEF Prefixed, s
<1> QED BY <1>2, <1>3, <1>5, <1>6, <1>7

HasPrefixed(b, p, c) ==
  /\ b \in Seq(Byte) /\ p \in Nat /\ c \in Seq(Byte) /\ Statable(Len(c))
  /\ p + 2 + Len(c) <= Len(b) /\ SubSeq(b, p + 1, p + 2 + Len(c)) = Prefixed(c)

ReadsPrefixed(b, p, c) == getUint16(b, p) = Len(c) /\ SubSeq(b, p + 3, p + 2 + Len(c)) = c

LEMMA PrefixedAt ==
  ASSUME NEW b, NEW p, NEW c, HasPrefixed(b, p, c)
  PROVE  ReadsPrefixed(b, p, c)
<1>0. b \in Seq(Byte) /\ p \in Nat /\ c \in Seq(Byte) /\ Statable(Len(c))
      /\ p + 2 + Len(c) <= Len(b) /\ SubSeq(b, p + 1, p + 2 + Len(c)) = Prefixed(c)
  BY DEF HasPrefixed
<1> DEFINE q == p + 2 + Len(c)
           x == SubSeq(b, p + 1, q)
<1>1. Len(c) \in Nat /\ Len(b) \in Nat /\ q \in Nat /\ q - p = 2 + Len(c)
      /\ q \in 0 .. Len(b) /\ p \in 0 .. q
  BY <1>0, LenProperties
<1>2. \A i \in 1 .. q - p : x[i] = b[p + i]
  <2> HIDE DEF q
  <2> QED BY <1>0, <1>1, Cut
<1>3. x[1] = b[p + 1] /\ x[2] = b[p + 2]
  <2>1. 1 \in 1 .. q - p /\ 2 \in 1 .. q - p
    BY <1>0, <1>1
  <2> HIDE DEF q, x
  <2> QED BY <1>2, <2>1
<1>4. getUint16(b, p) = Len(c)
  <2>1. x[1] * 256 + x[2] = Len(c)
    BY <1>0, PrefixedIs
  <2> QED BY <1>3, <2>1 DEF getUint16
<1>5. SubSeq(SubSeq(b, p + 1, q), 2 + 1, 2 + Len(c)) = SubSeq(b, p + 2 + 1, p + (2 + Len(c)))
  <2>1. 2 + Len(c) \in 0 .. q - p /\ 2 \in 0 .. 2 + Len(c)
    BY <1>1
  <2> HIDE DEF q
  <2> QED BY <1>0, <1>1, <2>1, CutOfCut
<1>6. 2 + 1 = 3 /\ p + 2 + 1 = p + 3 /\ p + (2 + Len(c)) = q
  BY <1>0, <1>1
<1>7. SubSeq(x, 3, 2 + Len(c)) = c
  BY <1>0, PrefixedIs
<1> HIDE DEF q, x
<1>8. SubSeq(x, 2 + 1, 2 + Len(c)) = SubSeq(b, p + 2 + 1, p + (2 + Len(c)))
  BY <1>5 DEF x
<1>9. SubSeq(b, p + 3, q) = c
  BY <1>6, <1>7, <1>8
<1> QED BY <1>4, <1>9 DEF q, ReadsPrefixed

(* An SCT that was written is read, and nothing else.                        *)
Short(s) == Statable(Len(s.extensions)) /\ Statable(Len(s.signature))

LEMMA SizesAre == LogIDSize \in Nat /\ TimestampSize \in Nat
BY SizesAssumption

LEMMA SCTFields ==
  ASSUME NEW s \in SCT
  PROVE  /\ s.version \in Byte /\ s.hash \in Byte /\ s.algorithm \in Byte
         /\ s.logID \in Seq(Byte) /\ Len(s.logID) = LogIDSize
         /\ s.timestamp \in Seq(Byte) /\ Len(s.timestamp) = TimestampSize
         /\ s.extensions \in Seq(Byte) /\ s.signature \in Seq(Byte)
<1>1. /\ s.version \in Byte /\ s.hash \in Byte /\ s.algorithm \in Byte
      /\ s.logID \in [1 .. LogIDSize -> Byte] /\ s.timestamp \in [1 .. TimestampSize -> Byte]
      /\ s.extensions \in Seq(Byte) /\ s.signature \in Seq(Byte)
  BY DEF SCT
<1>2. s.logID \in Seq(Byte) /\ s.timestamp \in Seq(Byte)
  BY <1>1, SizesAre, SeqDef
<1>3. Len(s.logID) = LogIDSize /\ Len(s.timestamp) = TimestampSize
  BY <1>1, SizesAre
<1> QED BY <1>1, <1>2, <1>3

\* Six parts and what follows them.
Lays(S, a1, a2, a3, a4, a5, a6, t, n2, n3, n4, n5, n6, x) ==
  /\ a1 \in Seq(S) /\ a2 \in Seq(S) /\ a3 \in Seq(S) /\ a4 \in Seq(S)
  /\ a5 \in Seq(S) /\ a6 \in Seq(S) /\ t \in Seq(S)
  /\ n2 = Len(a1) + Len(a2) /\ n3 = n2 + Len(a3) /\ n4 = n3 + Len(a4)
  /\ n5 = n4 + Len(a5) /\ n6 = n5 + Len(a6)
  /\ x = a1 \o a2 \o a3 \o a4 \o a5 \o a6

Laid(S, a1, a2, a3, a4, a5, a6, t, n2, n3, n4, n5, n6, x) ==
  /\ x \in Seq(S) /\ Len(x) = n6
  /\ x \o t \in Seq(S) /\ Len(x \o t) = n6 + Len(t) /\ n6 \in Nat
  /\ SubSeq(x \o t, 1, Len(a1)) = a1 /\ SubSeq(x \o t, Len(a1) + 1, n2) = a2
  /\ SubSeq(x \o t, n2 + 1, n3) = a3 /\ SubSeq(x \o t, n3 + 1, n4) = a4
  /\ SubSeq(x \o t, n4 + 1, n5) = a5 /\ SubSeq(x \o t, n5 + 1, n6) = a6

LEMMA SumIs ==
  ASSUME NEW a \in Nat, NEW b \in Nat, NEW c, c = a + b
  PROVE  c \in Nat
OBVIOUS

LEMMA Layout ==
  ASSUME NEW S, NEW a1, NEW a2, NEW a3, NEW a4, NEW a5, NEW a6, NEW t,
         NEW n2, NEW n3, NEW n4, NEW n5, NEW n6, NEW x,
         Lays(S, a1, a2, a3, a4, a5, a6, t, n2, n3, n4, n5, n6, x)
  PROVE  Laid(S, a1, a2, a3, a4, a5, a6, t, n2, n3, n4, n5, n6, x)
<1>a. /\ a1 \in Seq(S) /\ a2 \in Seq(S) /\ a3 \in Seq(S) /\ a4 \in Seq(S)
      /\ a5 \in Seq(S) /\ a6 \in Seq(S) /\ t \in Seq(S)
  BY DEF Lays
<1>n. /\ n2 = Len(a1) + Len(a2) /\ n3 = n2 + Len(a3) /\ n4 = n3 + Len(a4)
      /\ n5 = n4 + Len(a5) /\ n6 = n5 + Len(a6)
  BY DEF Lays
<1>0. /\ Len(a1) \in Nat /\ Len(a2) \in Nat /\ Len(a3) \in Nat /\ Len(a4) \in Nat
      /\ Len(a5) \in Nat /\ Len(a6) \in Nat /\ Len(t) \in Nat
  BY <1>a, LenProperties
<1>1. n2 \in Nat /\ n3 \in Nat /\ n4 \in Nat /\ n5 \in Nat /\ n6 \in Nat
  <2>1. n2 \in Nat
    BY <1>0, <1>n, SumIs
  <2>2. n3 \in Nat
    BY <1>0, <1>n, <2>1, SumIs
  <2>3. n4 \in Nat
    BY <1>0, <1>n, <2>2, SumIs
  <2>4. n5 \in Nat
    BY <1>0, <1>n, <2>3, SumIs
  <2>5. n6 \in Nat
    BY <1>0, <1>n, <2>4, SumIs
  <2> QED BY <2>1, <2>2, <2>3, <2>4, <2>5
<1> DEFINE x2 == a1 \o a2
<1>2. x2 \in Seq(S) /\ Len(x2) = n2
  BY <1>a, <1>n, Concat
<1> HIDE DEF x2
<1> DEFINE x3 == x2 \o a3
<1>3. x3 \in Seq(S) /\ Len(x3) = n3
  <2>1. x3 \in Seq(S) /\ Len(x3) = Len(x2) + Len(a3)
    BY <1>2, <1>a, Concat
  <2> QED BY <1>2, <1>n, <2>1
<1> HIDE DEF x3
<1> DEFINE x4 == x3 \o a4
<1>4. x4 \in Seq(S) /\ Len(x4) = n4
  <2>1. x4 \in Seq(S) /\ Len(x4) = Len(x3) + Len(a4)
    BY <1>3, <1>a, Concat
  <2> QED BY <1>3, <1>n, <2>1
<1> HIDE DEF x4
<1> DEFINE x5 == x4 \o a5
<1>5. x5 \in Seq(S) /\ Len(x5) = n5
  <2>1. x5 \in Seq(S) /\ Len(x5) = Len(x4) + Len(a5)
    BY <1>4, <1>a, Concat
  <2> QED BY <1>4, <1>n, <2>1
<1> HIDE DEF x5
<1>x. x = x5 \o a6
  BY DEF Lays, x5, x4, x3, x2
<1>6. x \in Seq(S) /\ Len(x) = n6 /\ n6 \in Nat
  <2>1. x5 \o a6 \in Seq(S) /\ Len(x5 \o a6) = Len(x5) + Len(a6)
    BY <1>5, <1>a, Concat
  <2> QED BY <1>1, <1>5, <1>n, <1>x, <2>1
<1> DEFINE b == x \o t
<1>7. b \in Seq(S) /\ Len(b) = n6 + Len(t) /\ Starts(b, x5 \o a6)
  <2>1. x \o t \in Seq(S) /\ Len(x \o t) = Len(x) + Len(t) /\ Starts(x \o t, x)
    BY <1>6, <1>a, Concat, StartsLeft
  <2> QED BY <1>6, <1>x, <2>1
<1> HIDE DEF b
<1>8. Starts(b, x5) /\ SubSeq(b, n5 + 1, n6) = a6
  <2>1. Starts(b, x5 \o a6)
    BY <1>7
  <2>2. Continues(S, b, x5, a6)
    BY <1>5, <1>a, <1>7, <2>1 DEF Continues
  <2>3. Part(b, x5, a6)
    BY <2>2, PartIs
  <2>4. Len(x5) + 1 = n5 + 1 /\ Len(x5) + Len(a6) = n6
    BY <1>5, <1>0, <1>n
  <2> QED BY <2>3, <2>4 DEF Part
<1>9. Starts(b, x4) /\ SubSeq(b, n4 + 1, n5) = a5
  <2>1. Starts(b, x4 \o a5)
    BY <1>8 DEF x5
  <2>2. Continues(S, b, x4, a5)
    BY <1>4, <1>a, <1>7, <2>1 DEF Continues
  <2>3. Part(b, x4, a5)
    BY <2>2, PartIs
  <2>4. Len(x4) + 1 = n4 + 1 /\ Len(x4) + Len(a5) = n5
    BY <1>4, <1>0, <1>n
  <2> QED BY <2>3, <2>4 DEF Part
<1>10. Starts(b, x3) /\ SubSeq(b, n3 + 1, n4) = a4
  <2>1. Starts(b, x3 \o a4)
    BY <1>9 DEF x4
  <2>2. Continues(S, b, x3, a4)
    BY <1>3, <1>a, <1>7, <2>1 DEF Continues
  <2>3. Part(b, x3, a4)
    BY <2>2, PartIs
  <2>4. Len(x3) + 1 = n3 + 1 /\ Len(x3) + Len(a4) = n4
    BY <1>3, <1>0, <1>n
  <2> QED BY <2>3, <2>4 DEF Part
<1>11. Starts(b, x2) /\ SubSeq(b, n2 + 1, n3) = a3
  <2>1. Starts(b, x2 \o a3)
    BY <1>10 DEF x3
  <2>2. Continues(S, b, x2, a3)
    BY <1>2, <1>a, <1>7, <2>1 DEF Continues
  <2>3. Part(b, x2, a3)
    BY <2>2, PartIs
  <2>4. Len(x2) + 1 = n2 + 1 /\ Len(x2) + Len(a3) = n3
    BY <1>2, <1>0, <1>n
  <2> QED BY <2>3, <2>4 DEF Part
<1>12. Starts(b, a1) /\ SubSeq(b, Len(a1) + 1, n2) = a2
  <2>1. Starts(b, a1 \o a2)
    BY <1>11 DEF x2
  <2>2. Continues(S, b, a1, a2)
    BY <1>a, <1>7, <2>1 DEF Continues
  <2>3. Part(b, a1, a2)
    BY <2>2, PartIs
  <2>4. Len(a1) + 1 = Len(a1) + 1 /\ Len(a1) + Len(a2) = n2
    BY <1>0, <1>n
  <2> QED BY <2>3, <2>4 DEF Part
<1> QED BY <1>6, <1>7, <1>8, <1>9, <1>10, <1>11, <1>12 DEF Laid, b, Starts

\* The fields of an SCT are where the lengths of those before say.
SCTAt(b, s, extAt, algAt, end) ==
  /\ extAt = 1 + LogIDSize + TimestampSize
  /\ algAt = extAt + 2 + getUint16(b, extAt) /\ end = algAt + 4 + getUint16(b, algAt + 2)
  /\ ~ (Len(b) < extAt + 2) /\ ~ (Len(b) < algAt + 4)
  /\ getUint8(b, 0) = s.version /\ SubSeq(b, 2, 1 + LogIDSize) = s.logID
  /\ SubSeq(b, 2 + LogIDSize, extAt) = s.timestamp /\ SubSeq(b, extAt + 3, algAt) = s.extensions
  /\ getUint8(b, algAt) = s.hash /\ getUint8(b, algAt + 1) = s.algorithm
  /\ SubSeq(b, algAt + 5, end) = s.signature

LEMMA SCTParseIs ==
  ASSUME NEW s \in SCT, NEW b, NEW extAt, NEW algAt, NEW end, SCTAt(b, s, extAt, algAt, end)
  PROVE  SCTParse(b) = IF Len(b) = end THEN [ok |-> TRUE, sct |-> s] ELSE Thrown
<1>1. s = [version    |-> s.version, logID |-> s.logID, timestamp |-> s.timestamp,
           extensions |-> s.extensions, hash |-> s.hash, algorithm |-> s.algorithm,
           signature  |-> s.signature]
  BY DEF SCT
<1>2. SCTParse(b) =
        IF ~ SCTEnds(b, end) THEN Thrown
        ELSE [ok |-> TRUE, sct |->
               [version    |-> s.version, logID |-> s.logID, timestamp |-> s.timestamp,
                extensions |-> s.extensions, hash |-> s.hash, algorithm |-> s.algorithm,
                signature  |-> s.signature]]
  <2>1. /\ extAt = 1 + LogIDSize + TimestampSize
        /\ algAt = extAt + 2 + getUint16(b, extAt) /\ end = algAt + 4 + getUint16(b, algAt + 2)
        /\ ~ (Len(b) < extAt + 2) /\ ~ (Len(b) < algAt + 4)
        /\ getUint8(b, 0) = s.version /\ SubSeq(b, 2, 1 + LogIDSize) = s.logID
        /\ SubSeq(b, 2 + LogIDSize, extAt) = s.timestamp /\ SubSeq(b, extAt + 3, algAt) = s.extensions
        /\ getUint8(b, algAt) = s.hash /\ getUint8(b, algAt + 1) = s.algorithm
        /\ SubSeq(b, algAt + 5, end) = s.signature
    BY DEF SCTAt
  <2> QED BY <2>1, Zenon DEF SCTParse
<1> QED BY <1>1, <1>2 DEF SCTEnds

LEMMA SCTBytesAre ==
  ASSUME NEW s \in SCT, Short(s), NEW t \in Seq(Byte)
  PROVE  /\ SCTBytes(s) \in Seq(Byte)
         /\ Len(SCTBytes(s)) = 1 + LogIDSize + TimestampSize + (2 + Len(s.extensions)) + 2 + (2 + Len(s.signature))
         /\ SCTParse(SCTBytes(s) \o t) = IF t = <<>> THEN [ok |-> TRUE, sct |-> s] ELSE Thrown
<1> DEFINE e  == s.extensions
           g  == s.signature
           E  == Len(e)
           G  == Len(g)
           v  == <<s.version>>
           pe == Prefixed(e)
           ha == <<s.hash, s.algorithm>>
           ps == Prefixed(g)
           n2 == 1 + LogIDSize
           n3 == n2 + TimestampSize
           n4 == n3 + (2 + E)
           n5 == n4 + 2
           n6 == n5 + (2 + G)
           x == SCTBytes(s)
           b == x \o t
<1>1. /\ s.version \in Byte /\ s.hash \in Byte /\ s.algorithm \in Byte
      /\ s.logID \in Seq(Byte) /\ Len(s.logID) = LogIDSize
      /\ s.timestamp \in Seq(Byte) /\ Len(s.timestamp) = TimestampSize
      /\ e \in Seq(Byte) /\ g \in Seq(Byte)
  BY SCTFields
<1>10. Statable(Len(e)) /\ Statable(Len(g))
  BY DEF Short
<1>13. x = <<s.version>> \o s.logID \o s.timestamp \o Prefixed(e) \o <<s.hash, s.algorithm>> \o Prefixed(g)
  BY DEF SCTBytes
<1> HIDE DEF e, g, x
<1>2. E \in Nat /\ G \in Nat /\ Len(t) \in Nat
  BY <1>1, LenProperties
<1>3. pe \in Seq(Byte) /\ Len(pe) = 2 + E /\ ps \in Seq(Byte) /\ Len(ps) = 2 + G
  BY <1>1, <1>10, PrefixedIs
<1>14. E = Len(e) /\ G = Len(g)
  OBVIOUS
<1> HIDE DEF E, G
<1>4. v \in Seq(Byte) /\ Len(v) = 1 /\ v[1] = s.version
  BY <1>1
<1>5. ha \in Seq(Byte) /\ Len(ha) = 2 /\ ha[1] = s.hash /\ ha[2] = s.algorithm
  BY <1>1
<1>6. x = v \o s.logID \o s.timestamp \o pe \o ha \o ps
  BY <1>13
<1> HIDE DEF v, pe, ha, ps
<1>7. /\ n2 \in Nat /\ n2 = Len(v) + Len(s.logID) /\ n3 \in Nat /\ n3 = n2 + Len(s.timestamp)
      /\ n4 \in Nat /\ n4 = n3 + Len(pe) /\ n5 \in Nat /\ n5 = n4 + Len(ha)
      /\ n6 \in Nat /\ n6 = n5 + Len(ps)
  <2>1. n2 \in Nat /\ n3 \in Nat /\ n4 \in Nat /\ n5 \in Nat /\ n6 \in Nat
    BY <1>2, SizesAre
  <2>2. n2 = Len(v) + Len(s.logID) /\ n3 = n2 + Len(s.timestamp)
    BY <1>1, <1>4
  <2>3. n4 = n3 + Len(pe) /\ n5 = n4 + Len(ha) /\ n6 = n5 + Len(ps)
    BY <1>3, <1>5
  <2> QED BY <2>1, <2>2, <2>3
<1>8. /\ n3 + 2 + E = n4 /\ n4 + 4 + G = n6
      /\ n4 + 2 = n5 /\ n5 + 2 + G = n6
      /\ n2 + 1 = 2 + LogIDSize /\ n4 + 1 + 1 = n4 + 2 /\ n4 + 2 + 3 = n4 + 5
      /\ n3 + 2 <= n6 /\ n4 + 4 <= n6 /\ n4 <= n6 /\ n5 <= n6 /\ 1 <= n6 /\ 1 + 1 = 2
  <2>1. /\ n3 + 2 + E = n4 /\ n4 + 4 + G = n6
        /\ n4 + 2 = n5 /\ n5 + 2 + G = n6 /\ n2 + 1 = 2 + LogIDSize
    BY <1>2, SizesAre
  <2>2. n2 \in Nat /\ n3 \in Nat /\ n4 \in Nat /\ n5 \in Nat /\ n6 \in Nat
    BY <1>7
  <2>3. n2 <= n3 /\ 1 <= n2
    BY <1>2, SizesAre
  <2> HIDE DEF n2, n3, n4, n5, n6
  <2>4. n3 + 2 <= n4 /\ n4 + 4 <= n6
    BY <1>2, <2>1, <2>2
  <2>5. n4 <= n6 /\ n5 <= n6 /\ n3 + 2 <= n6 /\ 1 <= n6
    BY <2>1, <2>2, <2>3, <2>4
  <2>6. n4 + 1 + 1 = n4 + 2 /\ n4 + 2 + 3 = n4 + 5 /\ 1 + 1 = 2
    BY <2>2
  <2> QED BY <2>1, <2>4, <2>5, <2>6
<1>9. n2 = 1 + LogIDSize /\ n3 = 1 + LogIDSize + TimestampSize
  OBVIOUS
<1>30. n6 = 1 + LogIDSize + TimestampSize + (2 + E) + 2 + (2 + G)
  OBVIOUS
<1> HIDE DEF n2, n3, n4, n5, n6
<1>11. /\ x \in Seq(Byte) /\ Len(x) = n6
       /\ b \in Seq(Byte) /\ Len(b) = n6 + Len(t)
       /\ SubSeq(b, 1, Len(v)) = v /\ SubSeq(b, Len(v) + 1, n2) = s.logID
       /\ SubSeq(b, n2 + 1, n3) = s.timestamp /\ SubSeq(b, n3 + 1, n4) = pe
       /\ SubSeq(b, n4 + 1, n5) = ha /\ SubSeq(b, n5 + 1, n6) = ps
  <2>1. v \in Seq(Byte) /\ s.logID \in Seq(Byte) /\ s.timestamp \in Seq(Byte) /\ pe \in Seq(Byte)
        /\ ha \in Seq(Byte) /\ ps \in Seq(Byte)
    BY <1>1, <1>3, <1>4, <1>5
  <2>2. /\ n2 = Len(v) + Len(s.logID) /\ n3 = n2 + Len(s.timestamp)
        /\ n4 = n3 + Len(pe) /\ n5 = n4 + Len(ha) /\ n6 = n5 + Len(ps)
    BY <1>7
  <2> DEFINE i == s.logID
             m == s.timestamp
  <2> HIDE DEF i, m
  <2>3. /\ v \in Seq(Byte) /\ i \in Seq(Byte) /\ m \in Seq(Byte) /\ n2 = Len(v) + Len(i) /\ n3 = n2 + Len(m)
        /\ x = v \o i \o m \o pe \o ha \o ps
    BY <1>6, <2>1, <2>2 DEF i, m
  <2>4. /\ x \in Seq(Byte) /\ Len(x) = n6
        /\ x \o t \in Seq(Byte) /\ Len(x \o t) = n6 + Len(t)
        /\ SubSeq(x \o t, 1, Len(v)) = v /\ SubSeq(x \o t, Len(v) + 1, n2) = i
        /\ SubSeq(x \o t, n2 + 1, n3) = m /\ SubSeq(x \o t, n3 + 1, n4) = pe
        /\ SubSeq(x \o t, n4 + 1, n5) = ha /\ SubSeq(x \o t, n5 + 1, n6) = ps
    <3> HIDE DEF n2, n3, n4, n5, n6
    <3>1. Lays(Byte, v, i, m, pe, ha, ps, t, n2, n3, n4, n5, n6, x)
      BY <2>1, <2>2, <2>3 DEF Lays
    <3>2. Laid(Byte, v, i, m, pe, ha, ps, t, n2, n3, n4, n5, n6, x)
      BY <3>1, Layout
    <3> QED BY <3>2 DEF Laid
  <2> QED BY <2>4 DEF i, m
<1> HIDE DEF b
<1>12. n6 <= Len(b) /\ (t = <<>> <=> Len(b) = n6) /\ Len(b) \in Nat
  <2>1. Len(t) = 0 <=> t = <<>>
    BY EmptySeq
  <2>2. Len(b) = n6 + Len(t) /\ n6 \in Nat /\ Len(t) \in Nat
    BY <1>2, <1>7, <1>11
  <2>3. n6 <= Len(b) /\ (Len(t) = 0 <=> Len(b) = n6) /\ Len(b) \in Nat
    BY <2>2
  <2> QED BY <2>1, <2>3
<1>16. n3 \in Nat /\ n4 \in Nat /\ n5 \in Nat /\ n6 \in Nat /\ Len(b) \in Nat
  BY <1>7, <1>12
<1>15. /\ n3 + 2 <= Len(b) /\ n4 + 4 <= Len(b) /\ n4 <= Len(b) /\ n5 <= Len(b) /\ 1 <= Len(b)
  <2>1. Len(b) \in Nat /\ n6 <= Len(b) /\ n6 \in Nat /\ n4 \in Nat /\ n5 \in Nat /\ n3 \in Nat
    BY <1>7, <1>12
  <2> QED BY <1>8, <2>1
<1>20. getUint16(b, n3) = E /\ SubSeq(b, n3 + 3, n4) = e
  <2>1. n3 + 2 + E <= Len(b)
    BY <1>8, <1>15
  <2>2. SubSeq(b, n3 + 1, n3 + 2 + E) = Prefixed(e)
    BY <1>8, <1>11 DEF pe
  <2>3. getUint16(b, n3) = E /\ SubSeq(b, n3 + 3, n3 + 2 + E) = e
    <3>1. HasPrefixed(b, n3, e)
      BY <1>1, <1>10, <1>11, <1>14, <1>16, <2>1, <2>2 DEF HasPrefixed
    <3>2. ReadsPrefixed(b, n3, e)
      BY <3>1, PrefixedAt
    <3> QED BY <1>14, <3>2 DEF ReadsPrefixed
  <2> QED BY <1>8, <2>3
<1>21. getUint16(b, n5) = G /\ SubSeq(b, n5 + 3, n6) = g
  <2>1. n5 + 2 + G <= Len(b)
    BY <1>8, <1>12
  <2>2. SubSeq(b, n5 + 1, n5 + 2 + G) = Prefixed(g)
    BY <1>8, <1>11 DEF ps
  <2>3. getUint16(b, n5) = G /\ SubSeq(b, n5 + 3, n5 + 2 + G) = g
    <3>1. HasPrefixed(b, n5, g)
      BY <1>1, <1>10, <1>11, <1>14, <1>16, <2>1, <2>2 DEF HasPrefixed
    <3>2. ReadsPrefixed(b, n5, g)
      BY <3>1, PrefixedAt
    <3> QED BY <1>14, <3>2 DEF ReadsPrefixed
  <2> QED BY <1>8, <2>3
<1>22. getUint8(b, n4) = s.hash /\ getUint8(b, n4 + 1) = s.algorithm
  <2>1. SubSeq(b, n4 + 1, n4 + 2) = ha
    BY <1>8, <1>11
  <2>2. n4 + 2 \in 0 .. Len(b) /\ n4 \in 0 .. n4 + 2 /\ (n4 + 2) - n4 = 2
    BY <1>15, <1>16, <1>8
  <2>3. \A i \in 1 .. (n4 + 2) - n4 : SubSeq(b, n4 + 1, n4 + 2)[i] = b[n4 + i]
    BY <1>11, <2>2, Cut
  <2>4. 1 \in 1 .. (n4 + 2) - n4 /\ 2 \in 1 .. (n4 + 2) - n4
    BY <2>2
  <2>5. ha[1] = b[n4 + 1] /\ ha[2] = b[n4 + 2]
    BY <2>1, <2>3, <2>4
  <2> QED BY <1>5, <1>8, <2>5 DEF getUint8
<1>23. getUint8(b, 0) = s.version
  <2>1. SubSeq(b, 1, 1) = v
    BY <1>4, <1>11
  <2>2. \A i \in 1 .. 1 - 0 : SubSeq(b, 0 + 1, 1)[i] = b[0 + i]
    <3>1. 1 \in 0 .. Len(b) /\ 0 \in 0 .. 1
      BY <1>15, <1>16, <1>8
    <3> QED BY <1>11, <3>1, Cut
  <2>3. v[1] = b[1]
    BY <2>1, <2>2
  <2> QED BY <1>4, <2>3 DEF getUint8
<1>24. SubSeq(b, 2, 1 + LogIDSize) = s.logID /\ SubSeq(b, 2 + LogIDSize, n3) = s.timestamp
  BY <1>4, <1>8, <1>9, <1>11
<1>25. ~ (Len(b) < n3 + 2) /\ ~ (Len(b) < n4 + 4)
  BY <1>15, <1>16
<1>26. /\ n4 = n3 + 2 + getUint16(b, n3) /\ n6 = n4 + 4 + getUint16(b, n4 + 2)
       /\ SubSeq(b, n4 + 5, n6) = g
  <2>1. n5 + 3 = n4 + 5 /\ n4 + 2 = n5
    BY <1>7, <1>8
  <2> QED BY <1>8, <1>20, <1>21, <2>1
<1>27. SCTParse(b) = IF Len(b) = n6 THEN [ok |-> TRUE, sct |-> s] ELSE Thrown
  <2>1. SubSeq(b, n3 + 3, n4) = e /\ b \in Seq(Byte)
    BY <1>11, <1>20
  <2>2. n3 = 1 + LogIDSize + TimestampSize /\ e = s.extensions /\ g = s.signature
    BY <1>9 DEF e, g
  <2>3. SCTAt(b, s, n3, n4, n6)
    BY <1>22, <1>23, <1>24, <1>25, <1>26, <2>1, <2>2 DEF SCTAt
  <2> QED BY <2>3, SCTParseIs
<1>28. Len(x) = 1 + LogIDSize + TimestampSize + (2 + Len(e)) + 2 + (2 + Len(g))
  BY <1>11, <1>14, <1>30
<1>29. SCTParse(b) = IF t = <<>> THEN [ok |-> TRUE, sct |-> s] ELSE Thrown
  BY <1>12, <1>27
<1> QED BY <1>11, <1>28, <1>29 DEF b, x, e, g

(* What is read of bytes: numbers, and lists of SCTs to the end of the bytes.  *)
LEMMA ByteIsNat == Byte \subseteq Nat
BY DEF Byte

LEMMA Uint16Is ==
  ASSUME NEW b \in Seq(Byte), NEW p \in Nat, p + 2 <= Len(b)
  PROVE  getUint16(b, p) \in Nat
<1>1. Len(b) \in Nat /\ \A i \in 1 .. Len(b) : b[i] \in Byte
  BY LenProperties
<1>2. b[p + 1] \in Byte /\ b[p + 2] \in Byte
  <2>1. p + 1 \in 1 .. Len(b) /\ p + 2 \in 1 .. Len(b)
    BY <1>1
  <2> QED BY <1>1, <2>1
<1>3. b[p + 1] \in Nat /\ b[p + 2] \in Nat
  BY <1>2, ByteIsNat
<1> QED BY <1>3 DEF getUint16

(* What SCTsFrom does at p, given what it does further on.                    *)
SCTNext(b, p)  == p + 2 + getUint16(b, p)
SCTFirst(b, p) == SCTParse(SubSeq(b, p + 3, SCTNext(b, p)))
SCTStep(b, end, p, from) ==
  IF p >= end THEN [ok |-> p = end, scts |-> <<>>]
  ELSE IF Len(b) < p + 2 THEN Thrown
  ELSE IF Len(b) < SCTNext(b, p) THEN Thrown
  ELSE IF ~ SCTFirst(b, p).ok \/ ~ from[SCTNext(b, p)].ok THEN Thrown
  ELSE [ok |-> TRUE, scts |-> <<SCTFirst(b, p).sct>> \o from[SCTNext(b, p)].scts]

LEMMA SCTNextIs ==
  ASSUME NEW b \in Seq(Byte), NEW p \in 0 .. Len(b),
         ~ (Len(b) < p + 2), ~ (Len(b) < SCTNext(b, p))
  PROVE  SCTNext(b, p) \in 0 .. Len(b) /\ p < SCTNext(b, p)
<1>1. Len(b) \in Nat
  BY LenProperties
<1>2. getUint16(b, p) \in Nat
  BY <1>1, Uint16Is
<1> QED BY <1>1, <1>2 DEF SCTNext

SCTsAre(b, end, f) == f = [p \in 0 .. Len(b) |-> SCTStep(b, end, p, f)]

LEMMA SCTsExist ==
  ASSUME NEW b \in Seq(Byte), NEW end \in Nat
  PROVE  \E f : SCTsAre(b, end, f)
<1> DEFINE D == 0 .. Len(b)
           X == {SCTFirst(b, p).sct : p \in D}
           W == [ok : BOOLEAN, scts : Seq(X)] \cup {Thrown}
           V == [d \in D |-> W]
           rank == [d \in D |-> Len(b) - d]
           step == [z \in D \X Valued(D, V) |-> SCTStep(b, end, z[1], z[2])]
<1>0. Len(b) \in Nat
  BY LenProperties
<1>1. rank \in [D -> Nat]
  BY <1>0
<1>2. \A d \in D : V[d] # {}
  <2>1. Thrown \in W
    OBVIOUS
  <2> HIDE DEF W
  <2> QED BY <2>1
<1>3. \A d \in D, g \in Valued(D, V) : step[<<d, g>>] = SCTStep(b, end, d, g)
  OBVIOUS
<1>4. ASSUME NEW d \in D, NEW g \in Valued(D, V) PROVE SCTStep(b, end, d, g) \in W
  <2>1. CASE d >= end
    <3>1. [ok |-> d = end, scts |-> <<>>] \in W
      BY EmptySeq
    <3> HIDE DEF W
    <3> QED BY <2>1, <3>1 DEF SCTStep
  <2>2. CASE ~ (d >= end) /\ (Len(b) < d + 2 \/ Len(b) < SCTNext(b, d) \/ ~ SCTFirst(b, d).ok \/ ~ g[SCTNext(b, d)].ok)
    <3>1. Thrown \in W
      OBVIOUS
    <3> HIDE DEF W
    <3> QED BY <2>2, <3>1 DEF SCTStep
  <2>3. CASE /\ ~ (d >= end) /\ ~ (Len(b) < d + 2) /\ ~ (Len(b) < SCTNext(b, d))
             /\ SCTFirst(b, d).ok /\ g[SCTNext(b, d)].ok
    <3> DEFINE n == SCTNext(b, d)
    <3>1. n \in D
      BY <2>3, SCTNextIs
    <3>2. g[n] \in W
      BY <3>1 DEF Valued
    <3>3. g[n] # Thrown
      BY <2>3 DEF Thrown
    <3>4. g[n].scts \in Seq(X)
      BY <3>2, <3>3
    <3>5. SCTFirst(b, d).sct \in X
      OBVIOUS
    <3> HIDE DEF X
    <3>6. <<SCTFirst(b, d).sct>> \in Seq(X)
      BY <3>5
    <3>7. <<SCTFirst(b, d).sct>> \o g[n].scts \in Seq(X)
      BY <3>4, <3>6, Concat
    <3>8. [ok |-> TRUE, scts |-> <<SCTFirst(b, d).sct>> \o g[n].scts] \in W
      BY <3>7
    <3>9. SCTStep(b, end, d, g) = [ok |-> TRUE, scts |-> <<SCTFirst(b, d).sct>> \o g[n].scts]
      BY <2>3 DEF SCTStep
    <3> QED BY <3>8, <3>9
  <2> QED BY <2>1, <2>2, <2>3
<1>5. Stepping(D, V, step)
  <2> HIDE DEF W
  <2> QED BY <1>3, <1>4 DEF Stepping
<1>6. ASSUME NEW d \in D, NEW g \in Valued(D, V), NEW h \in Valued(D, V), Alike(D, rank, g, h, rank[d])
      PROVE  SCTStep(b, end, d, g) = SCTStep(b, end, d, h)
  <2>1. CASE ~ (Len(b) < d + 2) /\ ~ (Len(b) < SCTNext(b, d))
    <3>1. SCTNext(b, d) \in D /\ d < SCTNext(b, d)
      BY <2>1, SCTNextIs
    <3>2. rank[SCTNext(b, d)] < rank[d]
      BY <1>0, <3>1
    <3>3. g[SCTNext(b, d)] = h[SCTNext(b, d)]
      BY <1>6, <3>1, <3>2 DEF Alike
    <3> QED BY <3>3 DEF SCTStep
  <2>2. CASE Len(b) < d + 2 \/ Len(b) < SCTNext(b, d)
    BY <2>2 DEF SCTStep
  <2> QED BY <2>1, <2>2
<1>7. Grounded(D, V, rank, step)
  BY <1>3, <1>6 DEF Grounded
<1>8. WellFounded(D, V, rank, step)
  BY <1>1, <1>2, <1>5, <1>7 DEF WellFounded
<1>9. PICK f : Solves(f, D, V, step)
  <2> HIDE DEF D, V, rank, step
  <2> QED BY <1>8, Recursion
<1>10. f = [d \in D |-> f[d]] /\ \A d \in D : f[d] = SCTStep(b, end, d, f)
  <2> HIDE DEF V
  <2> QED BY <1>3, <1>9 DEF Solves, Valued
<1>11. SCTsAre(b, end, f)
  BY <1>10 DEF SCTsAre
<1> QED BY <1>11

LEMMA SCTsFromIs ==
  ASSUME NEW b \in Seq(Byte), NEW end \in Nat, NEW p \in 0 .. Len(b)
  PROVE  SCTsFrom(b, end)[p] = SCTStep(b, end, p, SCTsFrom(b, end))
<1>1. SCTsFrom(b, end) = CHOOSE f : SCTsAre(b, end, f)
  BY Zenon DEF SCTsFrom, SCTsAre, SCTStep, SCTFirst, SCTNext
<1>2. SCTsAre(b, end, SCTsFrom(b, end))
  BY <1>1, SCTsExist
<1> DEFINE f == SCTsFrom(b, end)
<1>3. f = [q \in 0 .. Len(b) |-> SCTStep(b, end, q, f)]
  BY <1>2 DEF SCTsAre
<1> HIDE DEF f
<1>4. f[p] = SCTStep(b, end, p, f)
  BY <1>3
<1> QED BY <1>4 DEF f

(* The pieces of a list, each with its length, where the m first of them are.   *)
Reads(b, at, pieces, m) ==
  \A k \in 1 .. m : /\ at[k - 1] \in Nat /\ HasPrefixed(b, at[k - 1], pieces[k])
                    /\ at[k] = at[k - 1] + 2 + Len(pieces[k])

LEMMA ReadsIs ==
  ASSUME NEW b, NEW at, NEW pieces, NEW m \in Nat, Reads(b, at, pieces, m), NEW k \in 1 .. m
  PROVE  /\ at[k - 1] \in Nat /\ at[k] \in Nat /\ at[k - 1] + 2 <= at[k] /\ at[k] <= Len(b)
         /\ b \in Seq(Byte) /\ pieces[k] \in Seq(Byte) /\ Len(pieces[k]) \in Nat
         /\ at[k] = at[k - 1] + 2 + Len(pieces[k])
         /\ SCTNext(b, at[k - 1]) = at[k] /\ SCTFirst(b, at[k - 1]) = SCTParse(pieces[k])
<1> DEFINE p == at[k - 1]
           q == at[k]
           c == pieces[k]
           n == Len(c)
<1>1. p \in Nat /\ HasPrefixed(b, p, c) /\ q = p + 2 + n
  BY DEF Reads
<1> HIDE DEF p, q, c
<1>2. c \in Seq(Byte) /\ b \in Seq(Byte) /\ p + 2 + n <= Len(b)
  BY <1>1 DEF HasPrefixed
<1>3. n \in Nat
  BY <1>2, LenProperties
<1>4. ReadsPrefixed(b, p, c)
  BY <1>1, PrefixedAt
<1>5. getUint16(b, p) = n /\ SubSeq(b, p + 3, p + 2 + n) = c
  BY <1>4 DEF ReadsPrefixed
<1> HIDE DEF n
<1>6. q \in Nat /\ p + 2 <= q /\ q <= Len(b)
  BY <1>1, <1>2, <1>3
<1>7. SCTNext(b, p) = q
  BY <1>1, <1>5 DEF SCTNext
<1>8. SCTFirst(b, p) = SCTParse(c)
  BY <1>1, <1>5, <1>7 DEF SCTFirst
<1> QED BY <1>1, <1>2, <1>3, <1>6, <1>7, <1>8 DEF p, q, c, n

GoesOn(f, at, pieces, k) ==
  f[at[k - 1]] = IF ~ SCTParse(pieces[k]).ok \/ ~ f[at[k]].ok THEN Thrown
                 ELSE [ok |-> TRUE, scts |-> <<SCTParse(pieces[k]).sct>> \o f[at[k]].scts]

LEMMA SCTsGoOn ==
  ASSUME NEW b, NEW at, NEW pieces, NEW m \in Nat, Reads(b, at, pieces, m), NEW k \in 1 .. m,
         NEW end \in Nat, at[k - 1] < end
  PROVE  GoesOn(SCTsFrom(b, end), at, pieces, k)
<1> DEFINE p == at[k - 1]
           q == at[k]
           f == SCTsFrom(b, end)
<1>1. /\ p \in Nat /\ q \in Nat /\ p + 2 <= q /\ q <= Len(b) /\ b \in Seq(Byte)
      /\ SCTNext(b, p) = q /\ SCTFirst(b, p) = SCTParse(pieces[k])
  BY ReadsIs
<1>2. p < end
  OBVIOUS
<1> HIDE DEF p, q
<1>3. Len(b) \in Nat
  BY <1>1, LenProperties
<1>4. p \in 0 .. Len(b) /\ ~ (p >= end) /\ ~ (Len(b) < p + 2) /\ ~ (Len(b) < q)
  BY <1>1, <1>2, <1>3
<1>5. f[p] = SCTStep(b, end, p, f)
  BY <1>1, <1>4, SCTsFromIs
<1> HIDE DEF f
<1>6. f[p] = IF ~ SCTParse(pieces[k]).ok \/ ~ f[q].ok THEN Thrown
             ELSE [ok |-> TRUE, scts |-> <<SCTParse(pieces[k]).sct>> \o f[q].scts]
  BY <1>1, <1>4, <1>5 DEF SCTStep
<1> QED BY <1>6 DEF p, q, f, GoesOn

(* If it fails further on, it fails.                                         *)
LEMMA SCTsFail ==
  ASSUME NEW b, NEW at, NEW pieces, NEW m \in Nat, Reads(b, at, pieces, m), NEW end \in Nat,
         \A k \in 1 .. m : at[k - 1] < end, ~ SCTsFrom(b, end)[at[m]].ok
  PROVE  ~ SCTsFrom(b, end)[at[0]].ok
<1> DEFINE f == SCTsFrom(b, end)
           Bad == {j \in 0 .. m : f[at[m - j]].ok}
<1>1. SUFFICES ASSUME Bad # {} PROVE FALSE
  <2>1. m \in 0 .. m /\ m - m = 0
    OBVIOUS
  <2> QED BY <2>1
<1>2. PICK j \in Bad : \A i \in Bad : j <= i
  <2>1. Bad \in SUBSET Nat
    OBVIOUS
  <2> HIDE DEF Bad
  <2> QED BY <1>1, <2>1, LeastNumber
<1>3. j \in 0 .. m /\ f[at[m - j]].ok
  BY <1>2
<1>4. j # 0
  <2>1. m - 0 = m
    OBVIOUS
  <2> QED BY <1>3, <2>1
<1> DEFINE k == m - j + 1
<1>5. k \in 1 .. m /\ k - 1 = m - j /\ k = m - (j - 1) /\ j - 1 \in 0 .. m /\ ~ (j <= j - 1)
  BY <1>3, <1>4
<1> HIDE DEF k
<1>6. ~ f[at[k]].ok
  BY <1>2, <1>5
<1>7. GoesOn(f, at, pieces, k)
  <2>1. at[k - 1] < end
    BY <1>5
  <2> QED BY <1>5, <2>1, SCTsGoOn
<1> HIDE DEF f
<1>8. ~ f[at[k - 1]].ok
  BY <1>6, <1>7 DEF Thrown, GoesOn
<1> QED BY <1>3, <1>5, <1>8

(* If it comes to the end, it has read all of them.                          *)
LEMMA SCTsAll ==
  ASSUME NEW b, NEW at, NEW pieces, NEW scts \in Seq(SCT), Reads(b, at, pieces, Len(scts)),
         \A k \in 1 .. Len(scts) : SCTParse(pieces[k]) = [ok |-> TRUE, sct |-> scts[k]],
         at[0] \in Nat, at[0] <= Len(b), b \in Seq(Byte), NEW end \in Nat, at[Len(scts)] = end
  PROVE  SCTsFrom(b, end)[at[0]] = [ok |-> TRUE, scts |-> scts]
<1> DEFINE f == SCTsFrom(b, end)
           m == Len(scts)
           Done(i) == f[at[i]] = [ok |-> TRUE, scts |-> SubSeq(scts, i + 1, m)]
           Bad == {j \in 0 .. m : ~ Done(m - j)}
<1>0. m \in Nat
  BY LenProperties
<1>1. SUFFICES ASSUME Bad # {} PROVE FALSE
  <2>1. m \in 0 .. m /\ m - m = 0
    BY <1>0
  <2>2. SubSeq(scts, 1, m) = scts /\ 0 + 1 = 1
    BY SubSeqFull
  <2>3. Bad = {} => Done(0)
    BY <2>1
  <2> HIDE DEF Bad
  <2> QED BY <2>2, <2>3
<1>2. PICK j \in Bad : \A i \in Bad : j <= i
  <2>1. Bad \in SUBSET Nat
    BY <1>0
  <2> HIDE DEF Bad
  <2> QED BY <1>1, <2>1, LeastNumber
<1>3. j \in 0 .. m /\ ~ Done(m - j)
  BY <1>2
<1>4. j # 0
  <2>1. at[m] \in 0 .. Len(b)
    <3>1. CASE m = 0
      <4>1. Len(b) \in Nat
        BY LenProperties
      <4> QED BY <3>1, <4>1
    <3>2. CASE m # 0
      <4>1. m \in 1 .. m /\ Len(b) \in Nat
        BY <1>0, <3>2, LenProperties
      <4>2. at[m] \in Nat /\ at[m] <= Len(b)
        BY <1>0, <4>1, ReadsIs
      <4> QED BY <4>1, <4>2
    <3> QED BY <3>1, <3>2
  <2>2. f[at[m]] = SCTStep(b, end, at[m], f)
    BY <2>1, SCTsFromIs
  <2>3. SubSeq(scts, m + 1, m) = <<>>
    BY <1>0, SubSeqEmpty
  <2>4. m - 0 = m
    BY <1>0
  <2>5. at[m] = end /\ at[m] >= end
    OBVIOUS
  <2> HIDE DEF f, m
  <2>6. f[at[m]] = [ok |-> TRUE, scts |-> <<>>]
    BY <2>2, <2>5 DEF SCTStep
  <2> QED BY <1>3, <2>3, <2>4, <2>6
<1> DEFINE k == m - j + 1
<1>5. k \in 1 .. m /\ k - 1 = m - j /\ k = m - (j - 1) /\ j - 1 \in 0 .. m /\ ~ (j <= j - 1)
  BY <1>0, <1>3, <1>4
<1> HIDE DEF k
<1>6. Done(k)
  BY <1>2, <1>5
<1>a. at[k - 1] < end
  <2> DEFINE Late == {i \in 1 .. m : ~ (at[m - i] < end)}
  <2>1. Late = {}
    <3>1. SUFFICES ASSUME Late # {} PROVE FALSE
      OBVIOUS
    <3>2. PICK i \in Late : \A h \in Late : i <= h
      <4>1. Late \in SUBSET Nat
        BY <1>0
      <4> HIDE DEF Late
      <4> QED BY <3>1, <4>1, LeastNumber
    <3> DEFINE l == m - i + 1
    <3>3. i \in 1 .. m /\ ~ (at[m - i] < end)
      BY <3>2
    <3>4. l \in 1 .. m /\ l - 1 = m - i
      BY <1>0, <3>3
    <3>5. at[l - 1] \in Nat /\ at[l] \in Nat /\ at[l - 1] + 2 <= at[l]
      BY <1>0, <3>4, ReadsIs
    <3>6. at[l] <= end
      <4>1. CASE i = 1
        <5>1. l = m
          BY <1>0, <4>1
        <5> QED BY <5>1
      <4>2. CASE i # 1
        <5>1. i - 1 \in 1 .. m /\ m - (i - 1) = l /\ ~ (i <= i - 1)
          BY <1>0, <3>3, <4>2
        <5>2. at[m - (i - 1)] < end
          BY <3>2, <5>1
        <5> QED BY <3>5, <5>1, <5>2
      <4> QED BY <4>1, <4>2
    <3> HIDE DEF l
    <3>7. at[l - 1] < end
      BY <3>5, <3>6
    <3> QED BY <3>3, <3>4, <3>7
  <2>2. j \in 1 .. m
    BY <1>0, <1>3, <1>4
  <2>3. at[m - j] < end
    BY <2>1, <2>2
  <2> QED BY <1>5, <2>3
<1>7. GoesOn(f, at, pieces, k)
  BY <1>0, <1>5, <1>a, SCTsGoOn
<1>8. SCTParse(pieces[k]) = [ok |-> TRUE, sct |-> scts[k]]
  BY <1>5
<1>9. SubSeq(scts, k, m) = <<scts[k]>> \o SubSeq(scts, k + 1, m)
  <2>1. m \in k .. m
    BY <1>0, <1>5
  <2> QED BY <1>5, <2>1, SubSeqRecursiveFirst
<1>10. k - 1 + 1 = k
  BY <1>5
<1> HIDE DEF f, m
<1>11. f[at[k - 1]] = [ok |-> TRUE, scts |-> SubSeq(scts, k - 1 + 1, m)]
  <2>1. f[at[k]] = [ok |-> TRUE, scts |-> SubSeq(scts, k + 1, m)]
    BY <1>6
  <2>2. f[at[k - 1]] = [ok |-> TRUE, scts |-> <<SCTParse(pieces[k]).sct>> \o f[at[k]].scts]
    BY <1>7, <1>8, <2>1 DEF GoesOn
  <2>3. f[at[k - 1]] = [ok |-> TRUE, scts |-> SubSeq(scts, k, m)]
    BY <1>8, <1>9, <2>1, <2>2
  <2> QED BY <1>10, <2>3
<1> QED BY <1>3, <1>5, <1>11

(* Bytes with their length before them, and how long they are.              *)
LEMMA PrefixedLong ==
  ASSUME NEW c \in Seq(Nat)
  PROVE  Prefixed(c) \in Seq(Nat) /\ Len(Prefixed(c)) = 2 + Len(c)
<1> DEFINE n == Len(c)
           s == Stated(n)
<1>1. n \in Nat
  BY LenProperties
<1>2. s \in Seq(Nat) /\ Len(s) = 2
  <2>1. n \div 256 \in Nat /\ n % 256 \in Nat
    BY <1>1
  <2> HIDE DEF n
  <2> QED BY <2>1 DEF Stated
<1> HIDE DEF s, n
<1>3. s \o c \in Seq(Nat) /\ Len(s \o c) = Len(s) + Len(c)
  BY <1>2, Concat
<1> QED BY <1>2, <1>3 DEF Prefixed, s, n

LEMMA SCTBytesLong ==
  ASSUME NEW s \in SCT
  PROVE  /\ SCTBytes(s) \in Seq(Nat)
         /\ Len(s.extensions) \in Nat /\ Len(s.signature) \in Nat
         /\ Len(s.extensions) <= Len(SCTBytes(s)) /\ Len(s.signature) <= Len(SCTBytes(s))
         /\ 1 <= Len(SCTBytes(s))
<1> DEFINE e  == s.extensions
           g  == s.signature
           i  == s.logID
           m  == s.timestamp
           v  == <<s.version>>
           h  == <<s.hash, s.algorithm>>
           pe == Prefixed(e)
           ps == Prefixed(g)
           x  == SCTBytes(s)
           t  == <<>>
           n2 == Len(v) + Len(i)
           n3 == n2 + Len(m)
           n4 == n3 + Len(pe)
           n5 == n4 + Len(h)
           n6 == n5 + Len(ps)
<1>1. /\ s.version \in Nat /\ s.hash \in Nat /\ s.algorithm \in Nat
      /\ i \in Seq(Nat) /\ m \in Seq(Nat) /\ e \in Seq(Nat) /\ g \in Seq(Nat)
  <2>1. /\ s.version \in Byte /\ s.hash \in Byte /\ s.algorithm \in Byte
        /\ i \in Seq(Byte) /\ m \in Seq(Byte) /\ e \in Seq(Byte) /\ g \in Seq(Byte)
    BY SCTFields
  <2> HIDE DEF i, m, e, g
  <2>2. i \in Seq(Nat) /\ m \in Seq(Nat) /\ e \in Seq(Nat) /\ g \in Seq(Nat)
    BY <2>1, ByteIsNat, SeqMonotonic
  <2> QED BY <2>1, <2>2, ByteIsNat
<1>2. v \in Seq(Nat) /\ h \in Seq(Nat) /\ t \in Seq(Nat) /\ Len(v) = 1
  BY <1>1, EmptySeq
<1>3. x = v \o i \o m \o pe \o h \o ps
  BY DEF SCTBytes
<1> HIDE DEF e, g, i, m, v, h, x, t
<1>4. pe \in Seq(Nat) /\ ps \in Seq(Nat) /\ Len(pe) = 2 + Len(e) /\ Len(ps) = 2 + Len(g)
  BY <1>1, PrefixedLong
<1> HIDE DEF pe, ps
<1>5. Lays(Nat, v, i, m, pe, h, ps, t, n2, n3, n4, n5, n6, x)
  BY <1>1, <1>2, <1>3, <1>4 DEF Lays
<1>6. Laid(Nat, v, i, m, pe, h, ps, t, n2, n3, n4, n5, n6, x)
  <2> HIDE DEF n2, n3, n4, n5, n6
  <2> QED BY <1>5, Layout
<1>7. x \in Seq(Nat) /\ Len(x) = n6
  <2> HIDE DEF n2, n3, n4, n5, n6
  <2> QED BY <1>6 DEF Laid
<1>8. /\ Len(i) \in Nat /\ Len(m) \in Nat /\ Len(e) \in Nat /\ Len(g) \in Nat /\ Len(h) \in Nat
  BY <1>1, <1>2, LenProperties
<1>9. Len(e) <= n6 /\ Len(g) <= n6 /\ 1 <= n6
  BY <1>2, <1>4, <1>8
<1> HIDE DEF n6
<1> QED BY <1>7, <1>8, <1>9 DEF x, e, g

PrefixedAll(pieces) == [k \in DOMAIN pieces |-> Prefixed(pieces[k])]

LEMMA PiecesFit ==
  ASSUME NEW pieces \in Seq(Seq(Nat))
  PROVE  /\ Len(Together(pieces)) \in Nat
         /\ \A k \in 1 .. Len(pieces) : 2 + Len(pieces[k]) <= Len(Together(pieces))
<1> DEFINE tg == Together(pieces)
           ps == PrefixedAll(pieces)
<1>1. DOMAIN pieces = 1 .. Len(pieces) /\ Len(pieces) \in Nat /\ \A k \in 1 .. Len(pieces) : pieces[k] \in Seq(Nat)
  BY LenProperties
<1>2. ps \in Seq(Seq(Nat)) /\ Len(ps) = Len(pieces) /\ \A k \in 1 .. Len(pieces) : ps[k] = Prefixed(pieces[k])
  <2>1. \A k \in 1 .. Len(pieces) : Prefixed(pieces[k]) \in Seq(Nat)
    BY <1>1, PrefixedLong
  <2> QED BY <1>1, <2>1 DEF PrefixedAll
<1>3. tg = FlattenSeq(ps)
  BY DEF Together, PrefixedAll
<1> HIDE DEF ps, tg
<1>4. PICK at : Cuts(at, ps, tg)
  BY <1>2, <1>3, FlattenCuts
<1>5. tg \in Seq(Nat) /\ Len(tg) \in Nat
  <2>1. tg \in Seq(Nat)
    BY <1>2, <1>3, FlattenCuts
  <2> QED BY <2>1, LenProperties
<1>6. ASSUME NEW k \in 1 .. Len(pieces) PROVE 2 + Len(pieces[k]) <= Len(tg)
  <2>1. at[k] = at[k - 1] + Len(ps[k]) /\ at[k] <= Len(tg)
    BY <1>2, <1>4 DEF Cuts
  <2>2. at[k - 1] \in Nat
    <3>1. k - 1 \in 0 .. Len(ps)
      BY <1>1, <1>2
    <3> QED BY <1>4, <3>1 DEF Cuts
  <2>3. Len(ps[k]) = 2 + Len(pieces[k]) /\ Len(pieces[k]) \in Nat
    <3>1. pieces[k] \in Seq(Nat)
      BY <1>1
    <3> QED BY <1>2, <3>1, PrefixedLong, LenProperties
  <2> DEFINE a == at[k - 1]
             z == at[k]
             c == Len(pieces[k])
  <2>4. z = a + (2 + c) /\ z <= Len(tg) /\ a \in Nat /\ c \in Nat
    BY <2>1, <2>2, <2>3
  <2> HIDE DEF a, z, c
  <2>5. 2 + c <= Len(tg)
    BY <1>5, <2>4
  <2> QED BY <2>5 DEF c
<1> QED BY <1>5, <1>6 DEF tg

LEMMA PiecesAre ==
  ASSUME NEW scts \in Lists
  PROVE  /\ scts \in Seq(SCT) /\ Len(scts) \in Nat
         /\ Pieces(scts) \in Seq(Seq(Byte)) /\ Len(Pieces(scts)) = Len(scts)
         /\ Statable(Len(Together(Pieces(scts))) + 1)
         /\ \A k \in 1 .. Len(scts) :
              /\ scts[k] \in SCT /\ Short(scts[k]) /\ Pieces(scts)[k] = SCTBytes(scts[k])
              /\ 1 <= Len(Pieces(scts)[k]) /\ Statable(Len(Pieces(scts)[k]) + 1)
<1> DEFINE ps == Pieces(scts)
           n == Len(Together(ps))
<1>1. scts \in Seq(SCT) /\ n + 1 < 256 * 256
  BY ListsAssumption
<1>2. DOMAIN scts = 1 .. Len(scts) /\ Len(scts) \in Nat /\ \A k \in 1 .. Len(scts) : scts[k] \in SCT
  BY <1>1, LenProperties
<1>3. Len(ps) = Len(scts) /\ \A k \in 1 .. Len(scts) : ps[k] = SCTBytes(scts[k])
  BY <1>2 DEF Pieces
<1>4. ps \in Seq(Seq(Nat))
  <2>1. \A k \in 1 .. Len(scts) : SCTBytes(scts[k]) \in Seq(Nat)
    BY <1>2, SCTBytesLong
  <2> QED BY <1>2, <2>1 DEF Pieces
<1>5. n \in Nat /\ \A k \in 1 .. Len(ps) : 2 + Len(ps[k]) <= n
  BY <1>4, PiecesFit
<1> HIDE DEF n
<1>6. ASSUME NEW k \in 1 .. Len(scts)
      PROVE  Short(scts[k]) /\ 1 <= Len(ps[k]) /\ Statable(Len(ps[k]) + 1) /\ ps[k] \in Seq(Byte)
  <2> DEFINE s == scts[k]
             e == Len(s.extensions)
             g == Len(s.signature)
             c == Len(ps[k])
  <2>1. s \in SCT /\ ps[k] = SCTBytes(s)
    BY <1>2, <1>3
  <2> HIDE DEF s, ps
  <2>2. e \in Nat /\ g \in Nat /\ e <= c /\ g <= c /\ 1 <= c /\ c \in Nat
    BY <2>1, SCTBytesLong, LenProperties
  <2>3. 2 + c <= n
    BY <1>3, <1>5
  <2> HIDE DEF e, g, c
  <2>4. e < 256 * 256 /\ g < 256 * 256 /\ c + 1 < 256 * 256 /\ c + 1 \in Nat
    BY <1>1, <1>5, <2>2, <2>3
  <2>5. Short(s)
    BY <2>2, <2>4 DEF Short, Statable, e, g
  <2>6. ps[k] \in Seq(Byte)
    <3>1. <<>> \in Seq(Byte)
      BY EmptySeq
    <3> QED BY <2>1, <2>5, <3>1, SCTBytesAre
  <2> QED BY <2>2, <2>4, <2>5, <2>6 DEF Statable, c, s
<1>7. ps \in Seq(Seq(Byte))
  <2>1. \A k \in 1 .. Len(scts) : SCTBytes(scts[k]) \in Seq(Byte)
    BY <1>3, <1>6
  <2> QED BY <1>2, <2>1 DEF Pieces
<1>8. Statable(n + 1)
  BY <1>1, <1>5 DEF Statable
<1> HIDE DEF ps
<1> QED BY <1>1, <1>2, <1>3, <1>6, <1>7, <1>8 DEF n, ps

(* Pieces side by side are read one after the other.                         *)
Holds(b, tg) == b \in Seq(Byte) /\ 2 + Len(tg) <= Len(b) /\ SubSeq(b, 3, 2 + Len(tg)) = tg

LEMMA TogetherIs ==
  ASSUME NEW pieces \in Seq(Seq(Byte)), \A k \in 1 .. Len(pieces) : Statable(Len(pieces[k]))
  PROVE  /\ Together(pieces) \in Seq(Byte)
         /\ \E at : Cuts(at, PrefixedAll(pieces), Together(pieces))
         /\ PrefixedAll(pieces) \in Seq(Seq(Byte)) /\ Len(PrefixedAll(pieces)) = Len(pieces)
         /\ \A k \in 1 .. Len(pieces) : /\ PrefixedAll(pieces)[k] = Prefixed(pieces[k])
                                        /\ pieces[k] \in Seq(Byte)
                                        /\ Len(PrefixedAll(pieces)[k]) = 2 + Len(pieces[k])
<1> DEFINE tg == Together(pieces)
           ps == PrefixedAll(pieces)
<1>1. DOMAIN pieces = 1 .. Len(pieces) /\ Len(pieces) \in Nat /\ \A k \in 1 .. Len(pieces) : pieces[k] \in Seq(Byte)
  BY LenProperties
<1>2. \A k \in 1 .. Len(pieces) : Prefixed(pieces[k]) \in Seq(Byte) /\ Len(Prefixed(pieces[k])) = 2 + Len(pieces[k])
  BY <1>1, PrefixedIs
<1>3. ps \in Seq(Seq(Byte)) /\ Len(ps) = Len(pieces) /\ \A k \in 1 .. Len(pieces) : ps[k] = Prefixed(pieces[k])
  BY <1>1, <1>2 DEF PrefixedAll
<1>4. tg = FlattenSeq(ps)
  BY DEF Together, PrefixedAll
<1> HIDE DEF ps, tg
<1>5. tg \in Seq(Byte) /\ \E at : Cuts(at, ps, tg)
  BY <1>3, <1>4, FlattenCuts
<1> QED BY <1>1, <1>2, <1>3, <1>5 DEF ps, tg

LEMMA TogetherReads ==
  ASSUME NEW pieces \in Seq(Seq(Byte)), \A k \in 1 .. Len(pieces) : Statable(Len(pieces[k])),
         NEW b, Holds(b, Together(pieces))
  PROVE  \E at : /\ Reads(b, at, pieces, Len(pieces)) /\ at[0] = 2
                 /\ at[Len(pieces)] = 2 + Len(Together(pieces))
<1> DEFINE tg == Together(pieces)
           ps == PrefixedAll(pieces)
           n == Len(pieces)
           l == Len(tg)
<1>1. /\ tg \in Seq(Byte) /\ ps \in Seq(Seq(Byte)) /\ Len(ps) = n
      /\ \A k \in 1 .. n : ps[k] = Prefixed(pieces[k]) /\ pieces[k] \in Seq(Byte) /\ Len(ps[k]) = 2 + Len(pieces[k])
  BY TogetherIs
<1>2. PICK cut : Cuts(cut, ps, tg)
  BY TogetherIs
<1>3. n \in Nat /\ l \in Nat /\ b \in Seq(Byte) /\ Len(b) \in Nat /\ 2 + l <= Len(b) /\ SubSeq(b, 3, 2 + l) = tg
  <2>1. b \in Seq(Byte) /\ 2 + l <= Len(b) /\ SubSeq(b, 3, 2 + l) = tg
    BY DEF Holds
  <2>2. n \in Nat /\ l \in Nat /\ Len(b) \in Nat
    BY <1>1, <2>1, LenProperties
  <2> QED BY <2>1, <2>2
<1>4. \A k \in 0 .. n : cut[k] \in Nat
  BY <1>1, <1>2 DEF Cuts
<1>5. cut[0] = 0 /\ cut[n] = l
  BY <1>1, <1>2 DEF Cuts
<1>6. \A k \in 1 .. n : cut[k] = cut[k - 1] + Len(ps[k]) /\ cut[k] <= l /\ SubSeq(tg, cut[k - 1] + 1, cut[k]) = ps[k]
  BY <1>1, <1>2 DEF Cuts
<1> DEFINE at == [k \in 0 .. n |-> 2 + cut[k]]
<1> HIDE DEF ps, tg, l
<1>7. ASSUME NEW k \in 1 .. n
      PROVE  /\ at[k - 1] \in Nat /\ HasPrefixed(b, at[k - 1], pieces[k])
             /\ at[k] = at[k - 1] + 2 + Len(pieces[k])
  <2> DEFINE i == cut[k - 1]
             j == cut[k]
             c == pieces[k]
             m == Len(c)
  <2>1. k - 1 \in 0 .. n /\ k \in 0 .. n
    BY <1>3
  <2>2. at[k - 1] = 2 + i /\ at[k] = 2 + j /\ i \in Nat /\ j \in Nat
    BY <1>4, <2>1
  <2>3. j = i + Len(ps[k]) /\ j <= l /\ SubSeq(tg, i + 1, j) = ps[k]
    BY <1>6
  <2>4. ps[k] = Prefixed(c) /\ c \in Seq(Byte) /\ Len(ps[k]) = 2 + m /\ Statable(m)
    BY <1>1
  <2>5. m \in Nat
    BY <2>4, LenProperties
  <2> HIDE DEF i, j, c, m
  <2>6. j = i + (2 + m) /\ i <= j /\ 2 + j <= Len(b) /\ j <= l
    BY <1>3, <2>2, <2>3, <2>4, <2>5
  <2>7. SubSeq(SubSeq(b, 2 + 1, 2 + l), i + 1, j) = SubSeq(b, 2 + i + 1, 2 + j)
    <3>1. 2 + l \in 0 .. Len(b) /\ 2 \in 0 .. 2 + l /\ j \in 0 .. (2 + l) - 2 /\ i \in 0 .. j
      BY <1>3, <2>2, <2>6
    <3> QED BY <1>3, <3>1, CutOfCut
  <2>8. SubSeq(b, 2 + i + 1, 2 + j) = Prefixed(c)
    <3>1. 2 + 1 = 3
      OBVIOUS
    <3>2. SubSeq(SubSeq(b, 3, 2 + l), i + 1, j) = SubSeq(b, 2 + i + 1, 2 + j)
      BY <2>7, <3>1
    <3> QED BY <1>3, <2>3, <2>4, <3>2
  <2>9. 2 + i \in Nat /\ 2 + i + 2 + m = 2 + j
    BY <2>2, <2>5, <2>6
  <2> DEFINE q == 2 + i
             r == 2 + j
  <2>10. q \in Nat /\ q + 2 + m = r /\ r <= Len(b) /\ SubSeq(b, q + 1, r) = Prefixed(c)
    BY <2>6, <2>8, <2>9
  <2>11. at[k - 1] = q /\ at[k] = r
    BY <2>2
  <2> HIDE DEF q, r, at
  <2>12. HasPrefixed(b, q, c)
    BY <1>3, <2>4, <2>10 DEF HasPrefixed, m
  <2> QED BY <2>10, <2>11, <2>12 DEF c, m
<1>8. at[0] = 2 /\ at[n] = 2 + l
  BY <1>3, <1>5
<1> HIDE DEF at
<1>9. Reads(b, at, pieces, n)
  BY <1>7 DEF Reads
<1> QED BY <1>8, <1>9 DEF l, tg

-----------------------------------------------------------------------------
(* The four kinds of lists.  An SCT begins before the last of them ends.       *)
LEMMA ReadsOrder ==
  ASSUME NEW b, NEW at, NEW pieces, NEW m \in Nat, Reads(b, at, pieces, m), NEW k \in 1 .. m
  PROVE  at[k - 1] + 2 <= at[m]
<1> DEFINE Late == {i \in 1 .. m : ~ (at[m - i] + 2 <= at[m])}
<1>1. Late = {}
  <2>1. SUFFICES ASSUME Late # {} PROVE FALSE
    OBVIOUS
  <2>2. PICK i \in Late : \A h \in Late : i <= h
    <3>1. Late \in SUBSET Nat
      OBVIOUS
    <3> HIDE DEF Late
    <3> QED BY <2>1, <3>1, LeastNumber
  <2> DEFINE l == m - i + 1
  <2>3. i \in 1 .. m /\ ~ (at[m - i] + 2 <= at[m])
    BY <2>2
  <2>4. l \in 1 .. m /\ l - 1 = m - i /\ m \in 1 .. m
    BY <2>3
  <2>5. at[l - 1] \in Nat /\ at[l] \in Nat /\ at[l - 1] + 2 <= at[l] /\ at[m] \in Nat
    BY <2>4, ReadsIs
  <2>6. at[l] <= at[m]
    <3>1. CASE i = 1
      <4>1. l = m
        BY <3>1
      <4> QED BY <2>5, <4>1
    <3>2. CASE i # 1
      <4>1. i - 1 \in 1 .. m /\ m - (i - 1) = l /\ ~ (i <= i - 1)
        BY <2>3, <3>2
      <4>2. at[m - (i - 1)] + 2 <= at[m]
        BY <2>2, <4>1
      <4> QED BY <2>5, <4>1, <4>2
    <3> QED BY <3>1, <3>2
  <2> HIDE DEF l
  <2>7. at[l - 1] + 2 <= at[m]
    BY <2>5, <2>6
  <2> QED BY <2>3, <2>4, <2>7
<1> DEFINE j == m - k + 1
<1>2. j \in 1 .. m /\ m - j = k - 1
  OBVIOUS
<1>3. at[m - j] + 2 <= at[m]
  BY <1>1, <1>2
<1> QED BY <1>2, <1>3

LEMMA StatedHolds ==
  ASSUME NEW tg \in Seq(Byte), NEW n, Statable(n), NEW b, b = Stated(n) \o tg
  PROVE  Holds(b, tg) /\ b \in Seq(Byte) /\ Len(b) = 2 + Len(tg) /\ getUint16(b, 0) = n
<1> DEFINE s == Stated(n)
           l == Len(tg)
<1>1. s \in Seq(Byte) /\ Len(s) = 2 /\ s[1] * 256 + s[2] = n
  BY StatedIs
<1> HIDE DEF s
<1>2. b \in Seq(Byte) /\ Len(b) = 2 + l /\ l \in Nat
  <2>1. s \o tg \in Seq(Byte) /\ Len(s \o tg) = Len(s) + Len(tg) /\ Len(tg) \in Nat
    BY <1>1, Concat
  <2>2. b = s \o tg
    BY DEF s
  <2> QED BY <1>1, <2>1, <2>2
<1>3. SubSeq(s \o tg, Len(s) + 1, Len(s) + l) = tg
  BY <1>1, CutParts
<1>4. SubSeq(b, 3, 2 + l) = tg
  <2>1. Len(s) + 1 = 3 /\ Len(s) + l = 2 + l
    BY <1>1, <1>2
  <2> QED BY <1>3, <2>1 DEF s
<1>5. b[1] = s[1] /\ b[2] = s[2]
  <2>1. 1 \in 1 .. Len(s) /\ 2 \in 1 .. Len(s)
    BY <1>1
  <2>2. \A i \in 1 .. Len(s) : (s \o tg)[i] = s[i]
    <3>1. TAKE i \in 1 .. Len(s)
    <3>2. s \in Seq(Byte) /\ tg \in Seq(Byte)
      BY <1>1
    <3> QED BY <3>2, ConcatFirst
  <2>3. b = s \o tg
    BY DEF s
  <2> QED BY <2>1, <2>2, <2>3
<1>6. getUint16(b, 0) = n
  <2>1. getUint16(b, 0) = b[1] * 256 + b[2]
    BY DEF getUint16
  <2> QED BY <1>1, <1>5, <2>1
<1> HIDE DEF l
<1> QED BY <1>2, <1>4, <1>6 DEF Holds, l

LEMMA StatableLess ==
  ASSUME NEW n, Statable(n + 1), n \in Nat
  PROVE  Statable(n) /\ (n # 0 => Statable(n - 1))
BY DEF Statable

LEMMA HoldsBefore ==
  ASSUME NEW w, NEW tg \in Seq(Byte), Holds(w, tg), NEW behind \in Seq(Byte), NEW b, b = w \o behind
  PROVE  Holds(b, tg) /\ b \in Seq(Byte) /\ Len(b) \in Nat /\ getUint16(b, 0) = getUint16(w, 0)
<1>1. w \in Seq(Byte) /\ Len(w) \in Nat /\ Len(tg) \in Nat /\ 2 + Len(tg) <= Len(w) /\ SubSeq(w, 3, 2 + Len(tg)) = tg
  BY LenProperties DEF Holds
<1>2. b \in Seq(Byte) /\ Len(b) = Len(w) + Len(behind) /\ Len(behind) \in Nat
  BY <1>1, Concat
<1>3. \A i \in 1 .. Len(w) : b[i] = w[i]
  BY <1>1, ConcatFirst
<1> DEFINE l == Len(tg)
<1>4. SubSeq(b, 3, 2 + l) = SubSeq(w, 3, 2 + l)
  <2>1. l \in Nat /\ 2 + l <= Len(w) /\ 2 + l <= Len(b) /\ Len(w) \in Nat /\ Len(b) \in Nat
    BY <1>1, <1>2
  <2> HIDE DEF l
  <2>2. SubSeq(b, 3, 2 + l) = [i \in 1 .. l |-> b[i + 2]] /\ SubSeq(w, 3, 2 + l) = [i \in 1 .. l |-> w[i + 2]]
    BY <1>1, <1>2, <2>1
  <2>3. \A i \in 1 .. l : b[i + 2] = w[i + 2]
    BY <1>3, <2>1
  <2> QED BY <2>2, <2>3
<1>5. b[1] = w[1] /\ b[2] = w[2]
  BY <1>1, <1>3
<1>6. getUint16(b, 0) = getUint16(w, 0)
  <2>1. getUint16(b, 0) = b[1] * 256 + b[2] /\ getUint16(w, 0) = w[1] * 256 + w[2]
    BY DEF getUint16
  <2> QED BY <1>5, <2>1
<1> QED BY <1>1, <1>2, <1>4, <1>6 DEF Holds

\* A list, whole, and whatever is behind it.
LEMMA WholeIsRead ==
  ASSUME NEW scts \in Lists, NEW behind \in Seq(Byte)
  PROVE  /\ SCTListBytes(scts) \in Seq(Byte)
         /\ SCTList(SCTListBytes(scts) \o behind) = [ok |-> TRUE, scts |-> scts]
<1> DEFINE ps == Pieces(scts)
           tg == Together(ps)
           n == Len(scts)
           l == Len(tg)
           w == Prefixed(tg)
           b == w \o behind
           end == l + 2
<1>1. /\ scts \in Seq(SCT) /\ n \in Nat /\ ps \in Seq(Seq(Byte)) /\ Len(ps) = n /\ Statable(l + 1)
      /\ \A k \in 1 .. n : /\ scts[k] \in SCT /\ Short(scts[k]) /\ ps[k] = SCTBytes(scts[k])
                           /\ Statable(Len(ps[k]) + 1)
  BY PiecesAre
<1>2. SCTListBytes(scts) = w
  BY DEF SCTListBytes
<1> HIDE DEF ps
<1>3. \A k \in 1 .. Len(ps) : Statable(Len(ps[k]))
  <2>1. ASSUME NEW k \in 1 .. n PROVE Statable(Len(ps[k]))
    <3>1. ps[k] \in Seq(Byte) /\ Statable(Len(ps[k]) + 1)
      BY <1>1
    <3>2. Len(ps[k]) \in Nat
      BY <3>1, LenProperties
    <3> QED BY <3>1, <3>2, StatableLess
  <2> QED BY <1>1, <2>1
<1>4. tg \in Seq(Byte) /\ l \in Nat
  <2>1. tg \in Seq(Byte)
    BY <1>1, <1>3, TogetherIs
  <2> QED BY <2>1, LenProperties
<1>5. Statable(l)
  BY <1>1, <1>4, StatableLess
<1>w. Holds(w, tg) /\ w \in Seq(Byte) /\ getUint16(w, 0) = l
  BY <1>4, <1>5, StatedHolds DEF Prefixed
<1>6. Holds(b, tg) /\ b \in Seq(Byte) /\ Len(b) \in Nat /\ 2 + l <= Len(b) /\ getUint16(b, 0) = l
  <2> HIDE DEF w, tg
  <2>1. Holds(b, tg) /\ b \in Seq(Byte) /\ Len(b) \in Nat /\ getUint16(b, 0) = l
    BY <1>4, <1>w, HoldsBefore
  <2> QED BY <2>1 DEF Holds, l
<1>7. PICK at : Reads(b, at, ps, n) /\ at[0] = 2 /\ at[n] = 2 + l
  BY <1>1, <1>3, <1>6, TogetherReads
<1>8. ASSUME NEW k \in 1 .. n PROVE SCTParse(ps[k]) = [ok |-> TRUE, sct |-> scts[k]]
  <2>1. scts[k] \in SCT /\ Short(scts[k]) /\ ps[k] = SCTBytes(scts[k]) /\ ps[k] \in Seq(Byte) /\ <<>> \in Seq(Byte)
    BY <1>1, EmptySeq
  <2>2. SCTParse(SCTBytes(scts[k]) \o <<>>) = [ok |-> TRUE, sct |-> scts[k]]
    BY <2>1, SCTBytesAre
  <2>3. ps[k] \o <<>> = ps[k]
    BY <2>1, ConcatEmptySeq
  <2> QED BY <2>1, <2>2, <2>3
<1> HIDE DEF b, w, tg
<1>9. SCTList(b) = SCTsFrom(b, end)[2]
  <2>1. ~ (Len(b) < 2)
    BY <1>4, <1>6
  <2> QED BY <1>6, <2>1 DEF SCTList
<1>10. end \in Nat /\ at[n] = end /\ 2 <= Len(b)
  BY <1>4, <1>6, <1>7
<1> HIDE DEF l, end, n
<1>11. SCTsFrom(b, end)[at[0]] = [ok |-> TRUE, scts |-> scts]
  <2>1. /\ Reads(b, at, ps, Len(scts)) /\ at[Len(scts)] = end /\ scts \in Seq(SCT)
        /\ \A k \in 1 .. Len(scts) : SCTParse(ps[k]) = [ok |-> TRUE, sct |-> scts[k]]
    BY <1>1, <1>7, <1>8, <1>10 DEF n
  <2>2. at[0] \in Nat /\ at[0] <= Len(b) /\ b \in Seq(Byte) /\ end \in Nat
    BY <1>6, <1>7, <1>10
  <2> QED BY <2>1, <2>2, SCTsAll
<1> QED BY <1>2, <1>w, <1>7, <1>9, <1>11 DEF b

\* The bytes of the SCTs, and a length that says one less.
LEMMA ShortIsNotRead ==
  ASSUME NEW scts \in Lists, scts # <<>>
  PROVE  ~ SCTList(Damaged(scts, "short")).ok
<1> DEFINE ps == Pieces(scts)
           tg == Together(ps)
           n == Len(scts)
           l == Len(tg)
           b == Stated(l - 1) \o tg
           end == l - 1 + 2
<1>1. /\ scts \in Seq(SCT) /\ n \in Nat /\ ps \in Seq(Seq(Byte)) /\ Len(ps) = n /\ Statable(l + 1)
      /\ \A k \in 1 .. n : Statable(Len(ps[k]) + 1)
  BY PiecesAre
<1>2. Damaged(scts, "short") = b
  BY DEF Damaged
<1>n. n # 0
  BY <1>1, EmptySeq
<1> HIDE DEF ps
<1>3. \A k \in 1 .. Len(ps) : Statable(Len(ps[k]))
  <2>1. ASSUME NEW k \in 1 .. n PROVE Statable(Len(ps[k]))
    <3>1. ps[k] \in Seq(Byte) /\ Statable(Len(ps[k]) + 1)
      BY <1>1
    <3>2. Len(ps[k]) \in Nat
      BY <3>1, LenProperties
    <3> QED BY <3>1, <3>2, StatableLess
  <2> QED BY <1>1, <2>1
<1>4. tg \in Seq(Byte) /\ l \in Nat
  <2>1. tg \in Seq(Byte)
    BY <1>1, <1>3, TogetherIs
  <2> QED BY <2>1, LenProperties
<1>l. l # 0
  <2>1. ps \in Seq(Seq(Nat))
    <3>1. Seq(Byte) \subseteq Seq(Nat)
      BY ByteIsNat, SeqMonotonic
    <3> QED BY <1>1, <3>1, SeqMonotonic
  <2>2. 1 \in 1 .. Len(ps)
    BY <1>1, <1>n
  <2>3. 2 + Len(ps[1]) <= l /\ Len(ps[1]) \in Nat
    <3>1. ps[1] \in Seq(Nat)
      BY <2>1, <2>2
    <3> QED BY <2>1, <2>2, <3>1, PiecesFit, LenProperties
  <2> QED BY <1>4, <2>3
<1>5. Statable(l - 1)
  BY <1>1, <1>4, <1>l, StatableLess
<1>6. Holds(b, tg) /\ b \in Seq(Byte) /\ Len(b) = 2 + l /\ getUint16(b, 0) = l - 1
  BY <1>4, <1>5, StatedHolds
<1>7. PICK at : Reads(b, at, ps, n) /\ at[0] = 2 /\ at[n] = 2 + l
  BY <1>1, <1>3, <1>6, TogetherReads
<1> HIDE DEF b, tg
<1>9. SCTList(b) = SCTsFrom(b, end)[2]
  <2>1. ~ (Len(b) < 2)
    BY <1>4, <1>6
  <2> QED BY <1>6, <2>1 DEF SCTList
<1>10. end \in Nat /\ at[n] = end + 1 /\ at[n] \in 0 .. Len(b)
  BY <1>4, <1>6, <1>7, <1>l
<1> HIDE DEF l, end, n
<1>11. ASSUME NEW k \in 1 .. n PROVE at[k - 1] < end
  <2>1. at[k - 1] + 2 <= at[n] /\ at[k - 1] \in Nat
    BY <1>1, <1>7, ReadsOrder, ReadsIs
  <2> QED BY <1>10, <2>1
<1>12. ~ SCTsFrom(b, end)[at[n]].ok
  <2>1. SCTsFrom(b, end)[at[n]] = SCTStep(b, end, at[n], SCTsFrom(b, end))
    BY <1>6, <1>10, SCTsFromIs
  <2>2. at[n] >= end /\ at[n] # end
    BY <1>10
  <2>3. SCTsFrom(b, end)[at[n]] = [ok |-> FALSE, scts |-> <<>>]
    BY <2>1, <2>2 DEF SCTStep
  <2> QED BY <2>3
<1>13. ~ SCTsFrom(b, end)[at[0]].ok
  BY <1>1, <1>7, <1>10, <1>11, <1>12, SCTsFail
<1> QED BY <1>2, <1>7, <1>9, <1>13 DEF b

\* The list without its last byte.
LEMMA CutIsNotRead ==
  ASSUME NEW scts \in Lists, scts # <<>>
  PROVE  ~ SCTList(Damaged(scts, "cut")).ok
<1> DEFINE ps == Pieces(scts)
           tg == Together(ps)
           n == Len(scts)
           m == n - 1
           l == Len(tg)
           w == Prefixed(tg)
           b == SubSeq(w, 1, Len(w) - 1)
           end == l + 2
<1>1. /\ scts \in Seq(SCT) /\ n \in Nat /\ ps \in Seq(Seq(Byte)) /\ Len(ps) = n /\ Statable(l + 1)
      /\ \A k \in 1 .. n : Statable(Len(ps[k]) + 1)
  BY PiecesAre
<1>2. Damaged(scts, "cut") = b
  BY DEF Damaged, SCTListBytes
<1>n. n # 0 /\ m \in Nat /\ n \in 1 .. n
  <2>1. n # 0
    BY <1>1, EmptySeq
  <2> QED BY <1>1, <2>1
<1> HIDE DEF ps
<1>3. \A k \in 1 .. Len(ps) : Statable(Len(ps[k]))
  <2>1. ASSUME NEW k \in 1 .. n PROVE Statable(Len(ps[k]))
    <3>1. ps[k] \in Seq(Byte) /\ Statable(Len(ps[k]) + 1)
      BY <1>1
    <3>2. Len(ps[k]) \in Nat
      BY <3>1, LenProperties
    <3> QED BY <3>1, <3>2, StatableLess
  <2> QED BY <1>1, <2>1
<1>4. tg \in Seq(Byte) /\ l \in Nat
  <2>1. tg \in Seq(Byte)
    BY <1>1, <1>3, TogetherIs
  <2> QED BY <2>1, LenProperties
<1>5. Statable(l)
  BY <1>1, <1>4, StatableLess
<1>6. Holds(w, tg) /\ w \in Seq(Byte) /\ Len(w) = 2 + l /\ getUint16(w, 0) = l
  BY <1>4, <1>5, StatedHolds DEF Prefixed
<1>7. PICK at : Reads(w, at, ps, n) /\ at[0] = 2 /\ at[n] = 2 + l
  BY <1>1, <1>3, <1>6, TogetherReads
<1> HIDE DEF tg, w
<1>8. b \in Seq(Byte) /\ Len(b) = 1 + l /\ \A i \in 1 .. 1 + l : b[i] = w[i]
  <2>1. 1 + l \in 0 .. Len(w) /\ 0 \in 0 .. 1 + l /\ 1 + l - 0 = 1 + l /\ 0 + 1 = 1 /\ Len(w) - 1 = 1 + l
    BY <1>4, <1>6
  <2> DEFINE x == SubSeq(w, 0 + 1, 1 + l)
  <2>2. x \in Seq(Byte) /\ Len(x) = 1 + l - 0 /\ \A i \in 1 .. 1 + l - 0 : x[i] = w[0 + i]
    BY <1>6, <2>1, Cut
  <2>3. x = b
    BY <2>1
  <2> HIDE DEF x, b
  <2> QED BY <1>4, <2>1, <2>2, <2>3
<1>9. ASSUME NEW k \in 1 .. n PROVE at[k - 1] \in Nat /\ at[k - 1] <= l
  <2>1. at[k - 1] + 2 <= at[n] /\ at[k - 1] \in Nat
    BY <1>1, <1>7, ReadsOrder, ReadsIs
  <2> QED BY <1>4, <1>7, <2>1
<1>10. l >= 2
  <2>1. at[n - 1] + 2 <= at[n] /\ at[n - 1] \in Nat
    BY <1>1, <1>7, <1>n, ReadsOrder, ReadsIs
  <2>2. at[1 - 1] <= l
    <3>1. 1 \in 1 .. n
      BY <1>n
    <3> QED BY <1>9, <3>1
  <2> QED BY <1>4, <1>7, <2>2
<1> HIDE DEF b
<1>11. SCTList(b) = SCTsFrom(b, end)[2]
  <2>1. ~ (Len(b) < 2) /\ 1 \in 1 .. 1 + l /\ 2 \in 1 .. 1 + l /\ 0 + 1 = 1 /\ 0 + 2 = 2
    BY <1>4, <1>8, <1>10
  <2>2. getUint16(b, 0) = l
    BY <1>6, <1>8, <2>1 DEF getUint16
  <2> QED BY <2>1, <2>2 DEF SCTList
<1>12. ASSUME NEW k \in 1 .. m
       PROVE  /\ at[k - 1] \in Nat /\ HasPrefixed(b, at[k - 1], ps[k])
              /\ at[k] = at[k - 1] + 2 + Len(ps[k])
  <2>1. k \in 1 .. n /\ k + 1 \in 1 .. n /\ k + 1 - 1 = k
    BY <1>1
  <2> DEFINE p == at[k - 1]
             q == at[k]
             c == ps[k]
             h == Len(c)
  <2>2. p \in Nat /\ HasPrefixed(w, p, c) /\ q = p + 2 + h
    BY <1>7, <2>1 DEF Reads
  <2>3. q <= l
    BY <1>9, <2>1
  <2> HIDE DEF p, q, c, m
  <2>4. c \in Seq(Byte) /\ Statable(Len(c)) /\ SubSeq(w, p + 1, p + 2 + Len(c)) = Prefixed(c)
    BY <2>2 DEF HasPrefixed
  <2>5. h \in Nat
    BY <2>4, LenProperties
  <2> HIDE DEF h
  <2>6. q \in 0 .. 1 + l /\ p \in 0 .. q /\ q \in 0 .. Len(b) /\ q \in 0 .. Len(w) /\ q \in Nat
    BY <1>4, <1>6, <1>8, <2>2, <2>3, <2>5
  <2> DEFINE x == SubSeq(b, p + 1, q)
             y == SubSeq(w, p + 1, q)
  <2>7. x \in Seq(Byte) /\ Len(x) = q - p /\ \A i \in 1 .. q - p : x[i] = b[p + i]
    BY <1>8, <2>6, Cut
  <2>8. y \in Seq(Byte) /\ Len(y) = q - p /\ \A i \in 1 .. q - p : y[i] = w[p + i]
    BY <1>6, <2>6, Cut
  <2> HIDE DEF x, y
  <2>9. ASSUME NEW i \in 1 .. q - p PROVE x[i] = y[i]
    <3>1. p + i \in 1 .. 1 + l
      BY <1>4, <2>2, <2>6
    <3> QED BY <1>8, <2>7, <2>8, <3>1
  <2>10. x = y
    <3>1. \A i \in 1 .. Len(x) : x[i] = y[i]
      BY <2>7, <2>9
    <3> QED BY <2>7, <2>8, <3>1, SeqEqual
  <2>11. SubSeq(b, p + 1, p + 2 + Len(c)) = Prefixed(c) /\ p + 2 + Len(c) <= Len(b)
    <3>1. q = p + 2 + Len(c) /\ q <= Len(b)
      BY <2>2, <2>6 DEF h
    <3>2. SubSeq(b, p + 1, q) = SubSeq(w, p + 1, q)
      BY <2>10 DEF x, y
    <3> QED BY <2>4, <3>1, <3>2
  <2>12. HasPrefixed(b, p, c)
    BY <1>8, <2>2, <2>4, <2>11 DEF HasPrefixed
  <2> QED BY <2>2, <2>12 DEF p, q, c, h
<1>13. Reads(b, at, ps, m)
  BY <1>12 DEF Reads
<1>14. end \in Nat
  BY <1>4
<1>15. ~ SCTsFrom(b, end)[at[m]].ok
  <2> DEFINE p == at[m]
  <2>1. p \in Nat /\ p <= l /\ p + 2 + Len(ps[n]) = 2 + l /\ getUint16(w, p) = Len(ps[n]) /\ 1 <= Len(ps[n])
    <3>1. at[n - 1] \in Nat /\ at[n - 1] <= l
      BY <1>9, <1>n
    <3>2. at[n] = at[n - 1] + 2 + Len(ps[n]) /\ HasPrefixed(w, at[n - 1], ps[n])
      BY <1>7, <1>n DEF Reads
    <3>3. getUint16(w, at[n - 1]) = Len(ps[n])
      BY <3>2, PrefixedAt DEF ReadsPrefixed
    <3>4. 1 <= Len(ps[n])
      BY <1>n, PiecesAre DEF ps
    <3> QED BY <1>7, <3>1, <3>2, <3>3, <3>4
  <2> DEFINE h == Len(ps[n])
  <2>2. h \in Nat
    <3>1. ps[n] \in Seq(Byte)
      BY <1>1, <1>n
    <3> QED BY <3>1, LenProperties
  <2>0. p + 2 + h = 2 + l /\ getUint16(w, p) = h /\ 1 <= h /\ p \in Nat /\ p <= l
    BY <2>1
  <2> HIDE DEF p, h
  <2>3. p + 2 <= 1 + l
    BY <1>4, <2>0, <2>2
  <2>4. getUint16(b, p) = h
    <3>1. p + 1 \in 1 .. 1 + l /\ p + 2 \in 1 .. 1 + l
      BY <1>4, <2>0, <2>3
    <3> QED BY <1>8, <2>0, <3>1 DEF getUint16
  <2>5. SCTNext(b, p) = 2 + l
    BY <2>0, <2>4 DEF SCTNext
  <2>6. p \in 0 .. Len(b) /\ ~ (p >= end) /\ Len(b) < 2 + l
    BY <1>4, <1>8, <2>0
  <2>7. SCTsFrom(b, end)[p] = SCTStep(b, end, p, SCTsFrom(b, end))
    BY <1>8, <1>14, <2>6, SCTsFromIs
  <2> HIDE DEF end
  <2>8. SCTsFrom(b, end)[p] = Thrown
    BY <2>5, <2>6, <2>7 DEF SCTStep
  <2> QED BY <2>8 DEF Thrown, p
<1>16. ASSUME NEW k \in 1 .. m PROVE at[k - 1] < end
  <2>1. k \in 1 .. n
    BY <1>1
  <2> QED BY <1>4, <1>9, <2>1
<1> HIDE DEF end, m
<1>17. ~ SCTsFrom(b, end)[at[0]].ok
  BY <1>n, <1>13, <1>14, <1>15, <1>16, SCTsFail
<1> QED BY <1>2, <1>7, <1>11, <1>17

\* A byte more in the last SCT.
LEMMA LongerIsNotRead ==
  ASSUME NEW scts \in Lists, scts # <<>>
  PROVE  ~ SCTList(Damaged(scts, "longer")).ok
<1> DEFINE ps == Pieces(scts)
           n == Len(scts)
           m == n - 1
           c == Append(ps[n], 0)
           qs == [ps EXCEPT ![Len(ps)] = Append(@, 0)]
           tg == Together(ps)
           ug == Together(qs)
           l == Len(ug)
           b == Prefixed(ug)
           end == l + 2
<1>1. /\ scts \in Seq(SCT) /\ n \in Nat /\ ps \in Seq(Seq(Byte)) /\ Len(ps) = n /\ Statable(Len(tg) + 1)
      /\ \A k \in 1 .. n : /\ scts[k] \in SCT /\ Short(scts[k]) /\ ps[k] = SCTBytes(scts[k])
                           /\ Statable(Len(ps[k]) + 1)
  BY PiecesAre
<1>2. Damaged(scts, "longer") = b
  BY DEF Damaged
<1>n. n # 0 /\ m \in Nat /\ n \in 1 .. n /\ m \in 0 .. n
  <2>1. n # 0
    BY <1>1, EmptySeq
  <2> QED BY <1>1, <2>1
<1> HIDE DEF ps
<1>3. \A k \in 1 .. n : ps[k] \in Seq(Byte) /\ Statable(Len(ps[k])) /\ Len(ps[k]) \in Nat
  <2>1. ASSUME NEW k \in 1 .. n PROVE ps[k] \in Seq(Byte) /\ Statable(Len(ps[k])) /\ Len(ps[k]) \in Nat
    <3>1. ps[k] \in Seq(Byte) /\ Statable(Len(ps[k]) + 1)
      BY <1>1
    <3>2. Len(ps[k]) \in Nat
      BY <3>1, LenProperties
    <3> QED BY <3>1, <3>2, StatableLess
  <2> QED BY <1>1, <2>1
<1>4. 0 \in Byte
  BY DEF Byte
<1>5. c \in Seq(Byte) /\ Len(c) = Len(ps[n]) + 1 /\ c = ps[n] \o <<0>> /\ <<0>> \in Seq(Byte)
  BY <1>3, <1>4, <1>n, AppendProperties, AppendIsConcat
<1>6. Statable(Len(c))
  BY <1>1, <1>5, <1>n
<1>7. qs \in Seq(Seq(Byte)) /\ Len(qs) = n /\ qs[n] = c /\ \A k \in 1 .. m : qs[k] = ps[k]
  <2>1. qs = [ps EXCEPT ![n] = c]
    BY <1>1
  <2> HIDE DEF c, qs
  <2>2. n \in 1 .. Len(ps)
    BY <1>1, <1>n
  <2>3. /\ [ps EXCEPT ![n] = c] \in Seq(Seq(Byte)) /\ Len([ps EXCEPT ![n] = c]) = Len(ps)
        /\ \A j \in 1 .. Len(ps) : [ps EXCEPT ![n] = c][j] = IF j = n THEN c ELSE ps[j]
    BY <1>1, <1>5, <2>2, ExceptSeq
  <2>4. \A k \in 1 .. m : k \in 1 .. Len(ps) /\ k # n
    BY <1>1
  <2> QED BY <1>1, <2>1, <2>2, <2>3, <2>4
<1> HIDE DEF c, qs
<1>8. \A k \in 1 .. Len(qs) : Statable(Len(qs[k]))
  <2>1. ASSUME NEW k \in 1 .. n PROVE Statable(Len(qs[k]))
    <3>1. CASE k = n
      BY <1>6, <1>7, <3>1
    <3>2. CASE k # n
      <4>1. k \in 1 .. m
        BY <1>1, <3>2
      <4> QED BY <1>3, <1>7, <4>1
    <3> QED BY <3>1, <3>2
  <2> QED BY <1>7, <2>1
<1>9. ug \in Seq(Byte) /\ l \in Nat
  <2>1. ug \in Seq(Byte)
    BY <1>7, <1>8, TogetherIs
  <2> QED BY <2>1, LenProperties
<1>10. l = Len(tg) + 1
  <2> DEFINE xs == PrefixedAll(ps)
             ys == PrefixedAll(qs)
  <2>1. /\ xs \in Seq(Seq(Byte)) /\ Len(xs) = n /\ \A k \in 1 .. n : xs[k] = Prefixed(ps[k])
        /\ xs[n] \in Seq(Byte) /\ Len(xs[n]) = 2 + Len(ps[n])
    <3>1. \A k \in 1 .. Len(ps) : Statable(Len(ps[k]))
      BY <1>1, <1>3
    <3>2. /\ xs \in Seq(Seq(Byte)) /\ Len(xs) = Len(ps)
          /\ \A k \in 1 .. Len(ps) : xs[k] = Prefixed(ps[k]) /\ Len(xs[k]) = 2 + Len(ps[k])
      BY <1>1, <3>1, TogetherIs
    <3>3. \A k \in 1 .. Len(xs) : xs[k] \in Seq(Byte)
      BY <3>2, LenProperties
    <3> HIDE DEF xs
    <3> QED BY <1>1, <1>n, <3>2, <3>3
  <2>2. /\ ys \in Seq(Seq(Byte)) /\ Len(ys) = n /\ \A k \in 1 .. n : ys[k] = Prefixed(qs[k])
        /\ ys[n] \in Seq(Byte) /\ Len(ys[n]) = 2 + Len(c)
    <3>2. /\ ys \in Seq(Seq(Byte)) /\ Len(ys) = Len(qs)
          /\ \A k \in 1 .. Len(qs) : ys[k] = Prefixed(qs[k]) /\ Len(ys[k]) = 2 + Len(qs[k])
      BY <1>7, <1>8, TogetherIs
    <3>3. \A k \in 1 .. Len(ys) : ys[k] \in Seq(Byte)
      BY <3>2, LenProperties
    <3> HIDE DEF ys
    <3> QED BY <1>7, <1>n, <3>2, <3>3
  <2>3. tg = FlattenSeq(xs) /\ ug = FlattenSeq(ys)
    BY DEF Together, PrefixedAll
  <2> HIDE DEF xs, ys, tg, ug
  <2>4. PICK acc : Joins(acc, xs, Byte)
    BY <2>1, JoinsExists
  <2>5. tg = acc[n]
    BY <2>1, <2>3, <2>4, JoinsIs
  <2> DEFINE bcc == [acc EXCEPT ![n] = acc[m] \o ys[n]]
  <2>6. acc \in [0 .. n -> Seq(Byte)] /\ acc[0] = <<>> /\ \A k \in 1 .. n : acc[k] = acc[k - 1] \o xs[k]
    BY <2>1, <2>4 DEF Joins
  <2>7. acc[m] \in Seq(Byte)
    BY <1>n, <2>6
  <2>8. acc[m] \o ys[n] \in Seq(Byte) /\ Len(acc[m] \o ys[n]) = Len(acc[m]) + (2 + Len(c)) /\ Len(acc[m]) \in Nat
    <3>1. acc[m] \o ys[n] \in Seq(Byte) /\ Len(acc[m] \o ys[n]) = Len(acc[m]) + Len(ys[n]) /\ Len(acc[m]) \in Nat
      <4>1. ys[n] \in Seq(Byte)
        BY <2>2
      <4> QED BY <2>7, <4>1, Concat, LenProperties
    <3>2. Len(ys[n]) = 2 + Len(c)
      BY <2>2
    <3> QED BY <3>1, <3>2
  <2>9. Len(acc[n]) = Len(acc[m]) + (2 + Len(ps[n]))
    <3>1. acc[n] = acc[m] \o xs[n]
      BY <1>n, <2>6
    <3>2. Len(acc[m] \o xs[n]) = Len(acc[m]) + Len(xs[n])
      BY <2>1, <2>7, Concat
    <3> QED BY <2>1, <3>1, <3>2
  <2>10. Joins(bcc, ys, Byte)
    <3>1. bcc \in [0 .. n -> Seq(Byte)] /\ bcc[n] = acc[m] \o ys[n] /\ \A k \in 0 .. m : bcc[k] = acc[k]
      <4>1. n \in 0 .. n /\ \A k \in 0 .. m : k \in 0 .. n /\ k # n
        BY <1>1, <1>n
      <4> QED BY <2>6, <2>8, <4>1
    <3>2. ASSUME NEW k \in 1 .. n PROVE bcc[k] = bcc[k - 1] \o ys[k]
      <4>0. k - 1 \in 0 .. m
        BY <1>1
      <4>1. CASE k = n
        BY <3>1, <4>0, <4>1
      <4>2. CASE k # n
        <5>1. k \in 1 .. m /\ k \in 0 .. m
          BY <1>1, <4>2
        <5>2. ys[k] = xs[k]
          BY <1>7, <2>1, <2>2, <5>1
        <5> QED BY <2>6, <3>1, <4>0, <5>1, <5>2
      <4> QED BY <4>1, <4>2
    <3>3. bcc[0] = <<>>
      <4>1. 0 \in 0 .. m
        BY <1>n
      <4> QED BY <2>6, <3>1, <4>1
    <3> HIDE DEF bcc
    <3> QED BY <2>2, <3>1, <3>2, <3>3 DEF Joins
  <2>11. ug = bcc[n]
    <3> HIDE DEF bcc
    <3> QED BY <2>2, <2>3, <2>10, JoinsIs
  <2>12. bcc[n] = acc[m] \o ys[n]
    <3>1. n \in 0 .. n
      BY <1>1
    <3> QED BY <2>6, <3>1
  <2> DEFINE a == Len(acc[m])
             e == Len(ps[n])
  <2>13. Len(ug) = a + (2 + Len(c)) /\ Len(tg) = a + (2 + e) /\ Len(c) = e + 1 /\ a \in Nat /\ e \in Nat
    BY <1>3, <1>5, <1>n, <2>5, <2>8, <2>9, <2>11, <2>12
  <2> HIDE DEF a, e
  <2> QED BY <2>13
<1>11. Statable(l)
  BY <1>1, <1>10
<1>12. Holds(b, ug) /\ b \in Seq(Byte) /\ Len(b) = 2 + l /\ getUint16(b, 0) = l
  BY <1>9, <1>11, StatedHolds DEF Prefixed
<1>13. PICK at : Reads(b, at, qs, n) /\ at[0] = 2 /\ at[n] = 2 + l
  BY <1>7, <1>8, <1>12, TogetherReads
<1> HIDE DEF b, tg, ug
<1>14. SCTList(b) = SCTsFrom(b, end)[2]
  <2>1. ~ (Len(b) < 2)
    BY <1>9, <1>12
  <2> QED BY <1>12, <2>1 DEF SCTList
<1>15. end \in Nat /\ at[n] = end
  BY <1>9, <1>13
<1> HIDE DEF l, end
<1>16. ASSUME NEW k \in 1 .. n PROVE at[k - 1] < end
  <2>1. at[k - 1] + 2 <= at[n] /\ at[k - 1] \in Nat
    BY <1>1, <1>13, ReadsOrder, ReadsIs
  <2> QED BY <1>15, <2>1
<1>17. ~ SCTParse(qs[n]).ok
  <2>1. scts[n] \in SCT /\ Short(scts[n]) /\ ps[n] = SCTBytes(scts[n])
    BY <1>1, <1>n
  <2>2. SCTParse(SCTBytes(scts[n]) \o <<0>>) = Thrown
    BY <1>5, <2>1, SCTBytesAre
  <2> QED BY <1>5, <1>7, <2>1, <2>2 DEF Thrown
<1>18. ~ SCTsFrom(b, end)[at[m]].ok
  <2>1. at[n - 1] < end
    BY <1>16, <1>n
  <2>2. GoesOn(SCTsFrom(b, end), at, qs, n)
    BY <1>1, <1>13, <1>15, <1>n, <2>1, SCTsGoOn
  <2>3. SCTsFrom(b, end)[at[n - 1]] = Thrown
    BY <1>17, <2>2 DEF GoesOn
  <2> QED BY <2>3 DEF Thrown
<1>19. Reads(b, at, qs, m) /\ \A k \in 1 .. m : at[k - 1] < end
  <2>1. \A k \in 1 .. m : k \in 1 .. n
    BY <1>1
  <2> QED BY <1>13, <1>16, <2>1 DEF Reads
<1> HIDE DEF m
<1>20. ~ SCTsFrom(b, end)[at[0]].ok
  BY <1>n, <1>15, <1>18, <1>19, SCTsFail
<1> QED BY <1>2, <1>13, <1>14, <1>20

(* What the list was made of stays with it, and what is read is its bytes.    *)
SCTsInv ==
  doc.as = "scts" =>
    /\ doc.scts \in Lists /\ doc.damage \in {"none", "behind", "cut", "short", "longer"}
    /\ doc.scts = <<>> => doc.damage \in {"none", "behind"}
    /\ doc.bytes = Damaged(doc.scts, doc.damage)
    /\ stage \in {"bytes", "read"}
    /\ stage = "read" => object = SCTList(doc.bytes)

LEMMA SCTsInvInit == Init => SCTsInv
<1>1. CASE InclusionInit /\ NoDocument
  BY <1>1 DEF NoDocument, SCTsInv
<1>2. CASE DocumentInit
  <2>1. CASE \E n \in 0 .. MaxBytes : \E b \in [1 .. n -> Bytes] : doc = [as |-> "bytes", bytes |-> b]
    BY <2>1 DEF SCTsInv
  <2>2. CASE \E tag \in {1, 2, 3, 4, 6}, n \in 1 .. 3 : \E v \in [1 .. n -> Edges] :
               doc = [as |-> "value", bytes |-> SEQ(<<TLV(tag, v)>>), tag |-> tag, value |-> v]
    BY <2>2 DEF SCTsInv
  <2>3. CASE \E scts \in Lists, damage \in {"none", "behind", "cut", "short", "longer"} :
               /\ scts = <<>> => damage \in {"none", "behind"}
               /\ doc = [as |-> "scts", scts |-> scts, damage |-> damage, bytes |-> Damaged(scts, damage)]
    <3>1. stage = "bytes"
      BY <1>2 DEF DocumentInit
    <3> QED BY <2>3, <3>1 DEF SCTsInv
  <2>4. CASE \E exts \in ExtensionLists, validity \in Validities :
               LET c == [serial |-> <<0, 200>>, issuer |-> <<105>>, subject |-> <<115>>, key |-> <<107>>,
                         from |-> validity[1], until |-> validity[2], exts |-> exts, signature |-> <<103>>]
               IN  doc = [as |-> "certificate", says |-> c, bytes |-> Certificate(c)]
    BY <2>4 DEF SCTsInv
  <2>5. CASE \E t \in Responses : doc = [as |-> "response", says |-> t, bytes |-> Response(t)]
    BY <2>5 DEF SCTsInv
  <2> QED BY <1>2, <2>1, <2>2, <2>3, <2>4, <2>5 DEF DocumentInit
<1> QED BY <1>1, <1>2 DEF Init

LEMMA SCTsInvNext == SCTsInv /\ [Next]_vars => SCTsInv'
<1> SUFFICES ASSUME SCTsInv, [Next]_vars, doc'.as = "scts"
             PROVE  SCTsInv'
  BY DEF SCTsInv
<1>1. doc' = doc
  BY DEF Next, DocumentNext, Parse, ReadSCTs, Clone, PreCert, vars, documentVars
<1>2. doc.as = "scts" /\ SCTsInv
  BY <1>1
<1>3. CASE ReadSCTs
  BY <1>1, <1>2, <1>3 DEF ReadSCTs, SCTsInv
<1>4. CASE UNCHANGED documentVars
  BY <1>1, <1>2, <1>4 DEF documentVars, SCTsInv
<1>5. ~ Parse /\ ~ Clone /\ ~ PreCert
  BY <1>2 DEF Parse, Clone, PreCert
<1> QED BY <1>3, <1>4, <1>5 DEF Next, DocumentNext, vars

(* Any list of SCTs whose lengths can be stated, with SCTs of any sizes, is     *)
(* read as it was written, also if there is another list behind it, and is not *)
(* read at all if it lost a byte, says one less than it has, or has one more   *)
(* in its last SCT.                                                        *)
THEOREM SCTsHold == Spec => []SCTsAreExact
<1>1. SCTsInv => SCTsAreExact
  <2>1. SUFFICES ASSUME SCTsInv, doc.as = "scts", stage = "read"
                 PROVE  IF doc.damage \in {"none", "behind"} THEN object = [ok |-> TRUE, scts |-> doc.scts]
                        ELSE ~ object.ok
    BY DEF SCTsAreExact
  <2>2. /\ doc.scts \in Lists /\ doc.damage \in {"none", "behind", "cut", "short", "longer"}
        /\ doc.scts = <<>> => doc.damage \in {"none", "behind"}
        /\ object = SCTList(Damaged(doc.scts, doc.damage))
    BY <2>1 DEF SCTsInv
  <2>3. CASE doc.damage \in {"none", "behind"}
    <3> DEFINE w == SCTListBytes(doc.scts)
    <3>1. w \in Seq(Byte) /\ \A behind \in Seq(Byte) : SCTList(w \o behind) = [ok |-> TRUE, scts |-> doc.scts]
      BY <2>2, EmptySeq, WholeIsRead
    <3>2. Damaged(doc.scts, "none") = w /\ Damaged(doc.scts, "behind") = w \o w
      BY DEF Damaged
    <3> HIDE DEF w
    <3>3. w \o <<>> = w /\ <<>> \in Seq(Byte)
      BY <3>1, ConcatEmptySeq, EmptySeq
    <3>4. SCTList(w) = [ok |-> TRUE, scts |-> doc.scts] /\ SCTList(w \o w) = [ok |-> TRUE, scts |-> doc.scts]
      BY <3>1, <3>3
    <3> QED BY <2>2, <2>3, <3>2, <3>4
  <2>4. CASE doc.damage \notin {"none", "behind"}
    <3>1. doc.scts # <<>>
      BY <2>2, <2>4
    <3>2. CASE doc.damage = "cut"
      BY <2>2, <3>1, <3>2, CutIsNotRead
    <3>3. CASE doc.damage = "short"
      BY <2>2, <3>1, <3>3, ShortIsNotRead
    <3>4. CASE doc.damage = "longer"
      BY <2>2, <3>1, <3>4, LongerIsNotRead
    <3> QED BY <2>2, <2>4, <3>2, <3>3, <3>4
  <2> QED BY <2>3, <2>4
<1>2. Init => SCTsInv
  BY SCTsInvInit
<1>3. SCTsInv /\ [Next]_vars => SCTsInv'
  BY SCTsInvNext
<1> QED BY <1>1, <1>2, <1>3, PTL DEF Spec

-----------------------------------------------------------------------------
(* Numbers in bytes.                                                       *)
Numbers(f, c) ==
  /\ f \in [0 .. Len(c) -> Nat] /\ f[0] = 0
  /\ \A k \in 1 .. Len(c) : f[k] = f[k - 1] * 256 + c[k]

LEMMA NumbersExist ==
  ASSUME NEW c \in Seq(Byte)
  PROVE  \E f : Numbers(f, c) /\ f = [k \in 0 .. Len(c) |-> IF k = 0 THEN 0 ELSE f[k - 1] * 256 + c[k]]
<1> DEFINE D == 0 .. Len(c)
           V == [d \in D |-> Nat]
           rank == [d \in D |-> d]
           body(d, g) == IF d = 0 THEN 0 ELSE g[d - 1] * 256 + c[d]
           step == [z \in D \X Valued(D, V) |-> body(z[1], z[2])]
<1>0. Len(c) \in Nat /\ \A k \in 1 .. Len(c) : c[k] \in Nat
  BY LenProperties, ByteIsNat
<1>1. rank \in [D -> Nat]
  BY <1>0
<1>2. \A d \in D : V[d] # {}
  OBVIOUS
<1>3. \A d \in D, g \in Valued(D, V) : step[<<d, g>>] = body(d, g)
  OBVIOUS
<1>4. ASSUME NEW d \in D, NEW g \in Valued(D, V) PROVE body(d, g) \in Nat
  <2>1. CASE d = 0
    BY <2>1
  <2>2. CASE d # 0
    <3>1. d - 1 \in D /\ d \in 1 .. Len(c)
      BY <1>0, <2>2
    <3>2. g[d - 1] \in Nat /\ c[d] \in Nat
      BY <1>0, <3>1 DEF Valued
    <3>3. g[d - 1] * 256 + c[d] \in Nat
      BY <3>2
    <3> QED BY <2>2, <3>3
  <2> QED BY <2>1, <2>2
<1>5. Stepping(D, V, step)
  BY <1>3, <1>4 DEF Stepping
<1>6. ASSUME NEW d \in D, NEW g \in Valued(D, V), NEW h \in Valued(D, V), Alike(D, rank, g, h, rank[d])
      PROVE  body(d, g) = body(d, h)
  <2>1. CASE d = 0
    BY <2>1
  <2>2. CASE d # 0
    <3>1. d - 1 \in D /\ rank[d - 1] < rank[d]
      BY <1>0, <2>2
    <3>2. g[d - 1] = h[d - 1]
      BY <1>6, <3>1 DEF Alike
    <3> QED BY <3>2
  <2> QED BY <2>1, <2>2
<1>7. Grounded(D, V, rank, step)
  <2>1. \A d \in D : \A g, h \in Valued(D, V) : Alike(D, rank, g, h, rank[d]) => step[<<d, g>>] = step[<<d, h>>]
    <3>1. TAKE d \in D
    <3>2. TAKE g, h \in Valued(D, V)
    <3>3. HAVE Alike(D, rank, g, h, rank[d])
    <3> HIDE DEF D, V, rank, body, step
    <3>4. body(d, g) = body(d, h)
      BY <1>6, <3>3
    <3> QED BY <1>3, <3>4
  <2> QED BY <2>1 DEF Grounded
<1>8. WellFounded(D, V, rank, step)
  BY <1>1, <1>2, <1>5, <1>7 DEF WellFounded
<1>80. PICK f : Solves(f, D, V, step)
  <2> HIDE DEF D, V, rank, step
  <2> QED BY <1>8, Recursion
<1>9. f \in [D -> Nat]
  <2>1. f = [d \in D |-> f[d]]
    BY <1>80 DEF Solves, Valued
  <2>2. \A d \in D : f[d] \in Nat
    BY <1>80 DEF Solves, Valued
  <2> QED BY <2>1, <2>2
<1>10. \A d \in D : f[d] = body(d, f)
  BY <1>3, <1>80 DEF Solves
<1>11. \A k \in 1 .. Len(c) : f[k] = f[k - 1] * 256 + c[k]
  <2>1. \A k \in 1 .. Len(c) : k \in D /\ k # 0
    BY <1>0
  <2> QED BY <2>1, <1>10
<1>12. f[0] = 0
  BY <1>0, <1>10
<1>13. f = [k \in D |-> body(k, f)]
  <2> HIDE DEF body
  <2> QED BY <1>9, <1>10
<1>14. Numbers(f, c)
  BY <1>9, <1>11, <1>12 DEF Numbers
<1> QED BY <1>13, <1>14

LEMMA NumbersAgree ==
  ASSUME NEW c \in Seq(Byte), NEW d \in Seq(Byte), NEW f, NEW g, Numbers(f, c), Numbers(g, d),
         NEW m \in Nat, m <= Len(c), m <= Len(d), \A i \in 1 .. m : c[i] = d[i]
  PROVE  f[m] = g[m]
<1>0. Len(c) \in Nat /\ Len(d) \in Nat
  BY LenProperties
<1> DEFINE Bad == {i \in 0 .. m : f[i] # g[i]}
<1>1. Bad = {}
  <2>1. SUFFICES ASSUME Bad # {} PROVE FALSE
    OBVIOUS
  <2>2. Bad \in SUBSET Nat
    OBVIOUS
  <2>3. PICK i \in Bad : \A j \in Bad : i <= j
    <3> HIDE DEF Bad
    <3> QED BY <2>1, <2>2, LeastNumber
  <2>4. CASE i = 0
    BY <2>3, <2>4 DEF Numbers
  <2>5. CASE i # 0
    <3>1. i \in 1 .. m /\ i - 1 \in 0 .. m /\ ~ (i <= i - 1) /\ i \in 1 .. Len(c) /\ i \in 1 .. Len(d)
      BY <1>0, <2>3, <2>5
    <3>2. f[i - 1] = g[i - 1]
      BY <2>3, <3>1
    <3>3. f[i] = f[i - 1] * 256 + c[i] /\ g[i] = g[i - 1] * 256 + d[i]
      BY <3>1 DEF Numbers
    <3>4. c[i] = d[i] /\ f[i] # g[i]
      BY <2>3, <3>1
    <3> QED BY <3>2, <3>3, <3>4
  <2> QED BY <2>4, <2>5
<1> QED BY <1>1

LEMMA BigEndianIs ==
  ASSUME NEW c \in Seq(Byte)
  PROVE  \E f : Numbers(f, c) /\ BigEndian(c) = f[Len(c)]
<1> DEFINE Number(f) == f = [k \in 0 .. Len(c) |-> IF k = 0 THEN 0 ELSE f[k - 1] * 256 + c[k]]
           f == CHOOSE f : Number(f)
<1>1. PICK g : Numbers(g, c) /\ Number(g)
  BY NumbersExist
<1>2. Number(f)
  BY <1>1
<1>3. BigEndian(c) = f[Len(c)]
  BY DEF BigEndian
<1> HIDE DEF f
<1>4. f = g
  <2>0. Len(c) \in Nat
    BY LenProperties
  <2> DEFINE Bad == {i \in 0 .. Len(c) : f[i] # g[i]}
  <2>1. Bad = {}
    <3>1. SUFFICES ASSUME Bad # {} PROVE FALSE
      OBVIOUS
    <3>2. Bad \in SUBSET Nat
      BY <2>0
    <3>3. PICK i \in Bad : \A j \in Bad : i <= j
      <4> HIDE DEF Bad
      <4> QED BY <3>1, <3>2, LeastNumber
    <3>4. CASE i = 0
      BY <1>1, <1>2, <3>3, <3>4
    <3>5. CASE i # 0
      <4>1. i \in 0 .. Len(c) /\ i - 1 \in 0 .. Len(c) /\ ~ (i <= i - 1)
        BY <2>0, <3>3, <3>5
      <4>2. f[i - 1] = g[i - 1]
        BY <3>3, <4>1
      <4>3. f[i] = f[i - 1] * 256 + c[i] /\ g[i] = g[i - 1] * 256 + c[i]
        BY <1>1, <1>2, <3>5, <4>1
      <4>4. f[i] # g[i]
        BY <3>3
      <4> QED BY <4>2, <4>3, <4>4
    <3> QED BY <3>4, <3>5
  <2>2. \A i \in 0 .. Len(c) : f[i] = g[i]
    BY <2>1
  <2>3. f = [k \in 0 .. Len(c) |-> f[k]] /\ g = [k \in 0 .. Len(c) |-> g[k]]
    BY <1>1, <1>2
  <2> QED BY <2>2, <2>3
<1> QED BY <1>1, <1>3, <1>4

LEMMA BigEndianEmpty == BigEndian(<<>>) = 0
<1>1. <<>> \in Seq(Byte) /\ Len(<<>>) = 0
  BY EmptySeq
<1>2. PICK f : Numbers(f, <<>>) /\ BigEndian(<<>>) = f[Len(<<>>)]
  BY <1>1, BigEndianIs
<1> QED BY <1>1, <1>2 DEF Numbers

LEMMA BigEndianAppend ==
  ASSUME NEW c \in Seq(Byte), NEW x \in Byte
  PROVE  BigEndian(Append(c, x)) = BigEndian(c) * 256 + x /\ BigEndian(c) \in Nat
<1> DEFINE d == Append(c, x)
           n == Len(c)
<1>1. d \in Seq(Byte) /\ Len(d) = n + 1 /\ n \in Nat /\ d[n + 1] = x /\ \A i \in 1 .. n : c[i] = d[i]
  BY AppendProperties, LenProperties
<1> HIDE DEF d
<1>2. PICK f : Numbers(f, c) /\ BigEndian(c) = f[n]
  BY BigEndianIs
<1>3. PICK g : Numbers(g, d) /\ BigEndian(d) = g[n + 1]
  BY <1>1, BigEndianIs
<1>4. g[n + 1] = g[n] * 256 + x
  <2>1. n + 1 \in 1 .. Len(d) /\ n + 1 - 1 = n
    BY <1>1
  <2>2. g[n + 1] = g[n + 1 - 1] * 256 + d[n + 1]
    BY <1>3, <2>1 DEF Numbers
  <2> QED BY <1>1, <2>1, <2>2
<1>5. f[n] = g[n]
  <2>1. n <= Len(c) /\ n <= Len(d)
    BY <1>1
  <2> QED BY <1>1, <1>2, <1>3, <2>1, NumbersAgree
<1>6. f[n] \in Nat
  BY <1>1, <1>2 DEF Numbers
<1> QED BY <1>2, <1>3, <1>4, <1>5, <1>6 DEF d

-----------------------------------------------------------------------------
(* The digits of a number, base 256.                                       *)
LEMMA DivLess ==
  ASSUME NEW n \in Nat, n # 0
  PROVE  n \div 256 \in Nat /\ n \div 256 < n
OBVIOUS

LEMMA DivIs ==
  ASSUME NEW n \in Nat
  PROVE  n \div 256 \in Nat /\ n % 256 \in Byte /\ n = (n \div 256) * 256 + (n % 256)
<1> DEFINE q == n \div 256
           r == n % 256
<1>0. n \in Nat
  OBVIOUS
<1>1. q \in Int /\ r \in 0 .. 255 /\ n = 256 * q + r
  BY <1>0
<1> HIDE DEF q, r
<1>2. q \in Nat /\ n = q * 256 + r
  BY <1>0, <1>1
<1>3. r \in Byte
  BY <1>1 DEF Byte
<1> QED BY <1>2, <1>3 DEF q, r

LEMMA DigitsAre ==
  Digits \in [Nat -> Seq(Byte)] /\ \A n \in Nat : Digits[n] = IF n = 0 THEN <<>> ELSE Append(Digits[n \div 256], n % 256)
<1> DEFINE D == Nat
           V == [d \in D |-> Seq(Byte)]
           rank == [d \in D |-> d]
           body(d, g) == IF d = 0 THEN <<>> ELSE Append(g[d \div 256], d % 256)
           step == [z \in D \X Valued(D, V) |-> body(z[1], z[2])]
<1>1. rank \in [D -> Nat]
  OBVIOUS
<1>2. \A d \in D : V[d] # {}
  BY EmptySeq
<1>3. \A d \in D, g \in Valued(D, V) : step[<<d, g>>] = body(d, g)
  OBVIOUS
<1>4. ASSUME NEW d \in D, NEW g \in Valued(D, V) PROVE body(d, g) \in Seq(Byte)
  <2>1. CASE d = 0
    BY <2>1, EmptySeq
  <2>2. CASE d # 0
    <3>1. d \div 256 \in D /\ d % 256 \in Byte
      BY DivIs
    <3>2. g[d \div 256] \in Seq(Byte)
      BY <3>1 DEF Valued
    <3>3. Append(g[d \div 256], d % 256) \in Seq(Byte)
      BY <3>1, <3>2, AppendProperties
    <3> QED BY <2>2, <3>3
  <2> QED BY <2>1, <2>2
<1>5. Stepping(D, V, step)
  <2>1. \A d \in D : V[d] = Seq(Byte)
    OBVIOUS
  <2> HIDE DEF D, V, body, step
  <2> QED BY ZenonT(40), <1>3, <1>4, <2>1 DEF Stepping
<1>6. ASSUME NEW d \in D, NEW g \in Valued(D, V), NEW h \in Valued(D, V), Alike(D, rank, g, h, rank[d])
      PROVE  body(d, g) = body(d, h)
  <2>1. CASE d = 0
    BY <2>1
  <2>2. CASE d # 0
    <3>1. d \div 256 \in D /\ rank[d \div 256] < rank[d]
      BY <2>2, DivLess
    <3>2. g[d \div 256] = h[d \div 256]
      BY <1>6, <3>1 DEF Alike
    <3> QED BY <3>2
  <2> QED BY <2>1, <2>2
<1>7. Grounded(D, V, rank, step)
  <2>1. \A d \in D : \A g, h \in Valued(D, V) : Alike(D, rank, g, h, rank[d]) => step[<<d, g>>] = step[<<d, h>>]
    <3>1. TAKE d \in D
    <3>2. TAKE g, h \in Valued(D, V)
    <3>3. HAVE Alike(D, rank, g, h, rank[d])
    <3> HIDE DEF D, V, rank, body, step
    <3>4. body(d, g) = body(d, h)
      BY <1>6, <3>3
    <3> QED BY <1>3, <3>4
  <2> QED BY <2>1 DEF Grounded
<1>8. WellFounded(D, V, rank, step)
  BY <1>1, <1>2, <1>5, <1>7 DEF WellFounded
<1>9. PICK f : Solves(f, D, V, step)
  <2> HIDE DEF D, V, rank, step
  <2> QED BY <1>8, Recursion
<1>10. f \in [Nat -> Seq(Byte)]
  <2>1. f = [d \in D |-> f[d]]
    BY <1>9 DEF Solves, Valued
  <2>2. \A d \in D : f[d] \in Seq(Byte)
    BY <1>9 DEF Solves, Valued
  <2> QED BY <2>1, <2>2
<1>11. \A d \in Nat : f[d] = body(d, f)
  BY ZenonT(40), <1>3, <1>9 DEF Solves
<1> DEFINE Whole(h) == h = [n \in Nat |-> IF n = 0 THEN <<>> ELSE Append(h[n \div 256], n % 256)]
<1>12. Whole(f)
  <2>1. f = [n \in Nat |-> f[n]]
    BY <1>10
  <2> QED BY ZenonT(40), <1>11, <2>1
<1>13. Digits = CHOOSE h : Whole(h)
  BY DEF Digits
<1>14. Whole(Digits)
  <2> HIDE DEF Whole
  <2> QED BY <1>12, <1>13
<1>15. \A n \in Nat : Digits[n] = IF n = 0 THEN <<>> ELSE Append(Digits[n \div 256], n % 256)
  BY <1>14
<1>16. Digits = [n \in Nat |-> Digits[n]]
  BY <1>14
<1> DEFINE Bad == {n \in Nat : Digits[n] \notin Seq(Byte)}
<1>17. Bad = {}
  <2>1. SUFFICES ASSUME Bad # {} PROVE FALSE
    OBVIOUS
  <2>2. PICK n \in Bad : \A m \in Bad : n <= m
    <3>1. Bad \in SUBSET Nat
      OBVIOUS
    <3> HIDE DEF Bad
    <3> QED BY <2>1, <3>1, LeastNumber
  <2>3. CASE n = 0
    BY ZenonT(40), <1>15, <2>2, <2>3, EmptySeq
  <2>4. CASE n # 0
    <3>1. n \div 256 \in Nat /\ n \div 256 < n /\ n % 256 \in Byte /\ n \in Nat
      BY <2>2, <2>4, DivIs, DivLess
    <3>2. ~ (n <= n \div 256)
      BY <3>1
    <3>3. Digits[n \div 256] \in Seq(Byte)
      BY <2>2, <3>1, <3>2
    <3>4. Digits[n] = Append(Digits[n \div 256], n % 256)
      BY <1>15, <2>4, <3>1
    <3> DEFINE q == n \div 256
               r == n % 256
    <3>5. Digits[q] \in Seq(Byte) /\ r \in Byte /\ Digits[n] = Append(Digits[q], r)
      BY <3>1, <3>3, <3>4
    <3> HIDE DEF q, r
    <3>6. Digits[n] \in Seq(Byte)
      BY <3>5, AppendProperties
    <3> QED BY <2>2, <3>6
  <2> QED BY <2>3, <2>4
<1> QED BY <1>15, <1>16, <1>17

LEMMA DigitsStep ==
  ASSUME NEW n \in Nat, n # 0
  PROVE  /\ Digits[n] = Append(Digits[n \div 256], n % 256) /\ Digits[n] \in Seq(Byte)
         /\ Digits[n \div 256] \in Seq(Byte) /\ Len(Digits[n]) = Len(Digits[n \div 256]) + 1
         /\ Digits[n][Len(Digits[n])] = n % 256
<1> DEFINE q == n \div 256
           r == n % 256
<1>1. q \in Nat /\ r \in Byte
  BY DivIs
<1>2. Digits[n] = Append(Digits[q], r)
  BY DigitsAre
<1> HIDE DEF q, r
<1>3. Digits[n] \in Seq(Byte) /\ Digits[q] \in Seq(Byte)
  BY <1>1, DigitsAre
<1>4. Len(Append(Digits[q], r)) = Len(Digits[q]) + 1 /\ Append(Digits[q], r)[Len(Digits[q]) + 1] = r
  BY <1>1, <1>3, AppendProperties
<1> QED BY <1>2, <1>3, <1>4 DEF q, r

LEMMA DigitsNone == Digits[0] = <<>>
BY DigitsAre

\* What the digits state is the number.
LEMMA DigitsState ==
  ASSUME NEW n \in Nat
  PROVE  BigEndian(Digits[n]) = n
<1> DEFINE Bad == {k \in Nat : BigEndian(Digits[k]) # k}
<1>1. Bad = {}
  <2>1. SUFFICES ASSUME Bad # {} PROVE FALSE
    OBVIOUS
  <2>2. PICK k \in Bad : \A m \in Bad : k <= m
    <3>1. Bad \in SUBSET Nat
      OBVIOUS
    <3> HIDE DEF Bad
    <3> QED BY <2>1, <3>1, LeastNumber
  <2>3. CASE k = 0
    BY <2>2, <2>3, DigitsNone, BigEndianEmpty
  <2>4. CASE k # 0
    <3>1. k \in Nat /\ k \div 256 \in Nat /\ k \div 256 < k /\ k % 256 \in Byte /\ k = (k \div 256) * 256 + (k % 256)
      BY <2>2, <2>4, DivIs, DivLess
    <3>2. ~ (k <= k \div 256)
      BY <3>1
    <3>3. BigEndian(Digits[k \div 256]) = k \div 256
      BY <2>2, <3>1, <3>2
    <3>4. Digits[k] = Append(Digits[k \div 256], k % 256) /\ Digits[k \div 256] \in Seq(Byte)
      BY ZenonT(40), <2>4, <3>1, DigitsStep
    <3> DEFINE q == k \div 256
               r == k % 256
    <3>5. /\ Digits[k] = Append(Digits[q], r) /\ Digits[q] \in Seq(Byte) /\ r \in Byte
          /\ k = q * 256 + r /\ BigEndian(Digits[q]) = q
      BY <3>1, <3>3, <3>4
    <3> HIDE DEF q, r
    <3>6. BigEndian(Digits[k]) = BigEndian(Digits[q]) * 256 + r
      BY <3>5, BigEndianAppend
    <3> QED BY <2>2, <3>5, <3>6
  <2> QED BY <2>3, <2>4
<1> QED BY <1>1

\* Bytes that are not none are bytes and a last one.
LEMMA LastByte ==
  ASSUME NEW c \in Seq(Byte), c # <<>>
  PROVE  \E d \in Seq(Byte), x \in Byte :
           /\ c = Append(d, x) /\ Len(c) = Len(d) + 1 /\ Len(d) \in Nat /\ BigEndian(c) = BigEndian(d) * 256 + x
           /\ BigEndian(d) \in Nat /\ \A i \in 1 .. Len(d) : c[i] = d[i]
<1>1. PICK d \in Seq(Byte), x \in Byte : c = Append(d, x)
  BY SequenceEmptyOrAppend
<1>2. Len(c) = Len(d) + 1 /\ Len(d) \in Nat /\ \A i \in 1 .. Len(d) : c[i] = d[i]
  BY <1>1, AppendProperties, LenProperties
<1>3. BigEndian(c) = BigEndian(d) * 256 + x /\ BigEndian(d) \in Nat
  BY <1>1, BigEndianAppend
<1> QED BY <1>1, <1>2, <1>3

LEMMA DivLeast ==
  ASSUME NEW m \in Nat, NEW n \in Nat, NEW x \in Byte, m <= n * 256 + x
  PROVE  m \div 256 <= n
<1>1. x \in 0 .. 255
  BY DEF Byte
<1> QED BY <1>1

LEMMA DivSum ==
  ASSUME NEW n \in Nat, NEW x \in Byte
  PROVE  (n * 256 + x) \div 256 = n /\ (n * 256 + x) % 256 = x
<1>1. x \in 0 .. 255
  BY DEF Byte
<1> QED BY <1>1

\* No bytes state a number, or a larger one, that are fewer than its digits.
LEMMA DigitsAreFew ==
  ASSUME NEW c \in Seq(Byte), NEW m \in Nat, m <= BigEndian(c)
  PROVE  Len(Digits[m]) <= Len(c)
<1> DEFINE Bad == {k \in Nat : \E d \in Seq(Byte), n \in Nat :
                     Len(d) = k /\ n <= BigEndian(d) /\ ~ (Len(Digits[n]) <= k)}
<1>1. Bad = {}
  <2>1. SUFFICES ASSUME Bad # {} PROVE FALSE
    OBVIOUS
  <2>2. PICK k \in Bad : \A j \in Bad : k <= j
    <3>1. Bad \in SUBSET Nat
      OBVIOUS
    <3> HIDE DEF Bad
    <3> QED BY <2>1, <3>1, LeastNumber
  <2>3. PICK d \in Seq(Byte), n \in Nat : Len(d) = k /\ n <= BigEndian(d) /\ ~ (Len(Digits[n]) <= k)
    BY <2>2
  <2>4. n # 0
    <3>1. Len(Digits[0]) = 0
      BY DigitsNone, EmptySeq
    <3> QED BY <2>2, <2>3, <3>1
  <2>5. d # <<>>
    <3>1. n <= BigEndian(d) /\ n # 0
      BY <2>3, <2>4
    <3>2. n <= 0 => n = 0
      OBVIOUS
    <3> QED BY <3>1, <3>2, BigEndianEmpty
  <2>6. PICK e \in Seq(Byte), x \in Byte :
           /\ Len(d) = Len(e) + 1 /\ Len(e) \in Nat /\ BigEndian(d) = BigEndian(e) * 256 + x
           /\ BigEndian(e) \in Nat
    BY <2>5, LastByte
  <2>7. n \div 256 \in Nat /\ n \div 256 <= BigEndian(e)
    BY <2>3, <2>6, DivIs, DivLeast
  <2>8. Len(e) = k - 1 /\ k - 1 \in Nat /\ ~ (k <= k - 1)
    BY <2>2, <2>3, <2>6
  <2>9. Len(Digits[n \div 256]) <= k - 1
    BY <2>2, <2>7, <2>8
  <2> DEFINE q == n \div 256
  <2>10. Len(Digits[n]) = Len(Digits[q]) + 1 /\ Digits[q] \in Seq(Byte) /\ Len(Digits[q]) <= k - 1
    BY ZenonT(40), <2>4, <2>9, DigitsStep
  <2> HIDE DEF q
  <2>11. Len(Digits[q]) \in Nat
    BY <2>10, LenProperties
  <2> QED BY <2>3, <2>8, <2>10, <2>11
<1>2. Len(c) \in Nat
  BY LenProperties
<1> QED BY <1>1, <1>2

\* Bytes with no zero in front are the digits of what they state.
LEMMA DigitsAreThose ==
  ASSUME NEW c \in Seq(Byte), c # <<>> => c[1] # 0
  PROVE  Digits[BigEndian(c)] = c
<1> DEFINE Bad == {k \in Nat : \E d \in Seq(Byte) : Len(d) = k /\ (d # <<>> => d[1] # 0) /\ Digits[BigEndian(d)] # d}
<1>1. Bad = {}
  <2>1. SUFFICES ASSUME Bad # {} PROVE FALSE
    OBVIOUS
  <2>2. PICK k \in Bad : \A j \in Bad : k <= j
    <3>1. Bad \in SUBSET Nat
      OBVIOUS
    <3> HIDE DEF Bad
    <3> QED BY <2>1, <3>1, LeastNumber
  <2>3. PICK d \in Seq(Byte) : Len(d) = k /\ (d # <<>> => d[1] # 0) /\ Digits[BigEndian(d)] # d
    BY <2>2
  <2>4. d # <<>>
    BY <2>3, BigEndianEmpty, DigitsNone
  <2>5. PICK e \in Seq(Byte), x \in Byte :
           /\ d = Append(e, x) /\ Len(d) = Len(e) + 1 /\ Len(e) \in Nat /\ BigEndian(d) = BigEndian(e) * 256 + x
           /\ BigEndian(e) \in Nat /\ \A i \in 1 .. Len(e) : d[i] = e[i]
    BY <2>4, LastByte
  <2>6. Len(e) = k - 1 /\ k - 1 \in Nat /\ ~ (k <= k - 1)
    BY <2>2, <2>3, <2>5
  <2>7. e # <<>> => e[1] # 0
    <3>1. SUFFICES ASSUME e # <<>> PROVE e[1] # 0
      OBVIOUS
    <3>2. Len(e) \in Nat \ {0}
      BY <3>1, EmptySeq
    <3>3. 1 \in 1 .. Len(e)
      BY <3>2
    <3> QED BY <2>3, <2>4, <2>5, <3>3
  <2>8. Digits[BigEndian(e)] = e
    BY <2>2, <2>6, <2>7
  <2> DEFINE n == BigEndian(e) * 256 + x
  <2>9. n \in Nat /\ n \div 256 = BigEndian(e) /\ n % 256 = x
    <3>1. x \in Nat
      BY ByteIsNat
    <3>2. n \in Nat
      BY <2>5, <3>1
    <3>3. n \div 256 = BigEndian(e) /\ n % 256 = x
      BY <2>5, DivSum
    <3> QED BY <3>2, <3>3
  <2>10. n # 0
    <3>1. SUFFICES ASSUME n = 0 PROVE FALSE
      OBVIOUS
    <3>2. BigEndian(e) = 0 /\ x = 0
      BY <2>5, <3>1, <2>9
    <3>3. e = <<>>
      BY <2>8, <3>2, DigitsNone
    <3>4. Len(e) = 0
      BY <3>3, EmptySeq
    <3>5. d[Len(e) + 1] = x
      BY <2>5, AppendProperties
    <3> QED BY <2>3, <2>4, <3>2, <3>4, <3>5
  <2> HIDE DEF n
  <2>11. Digits[n] = Append(Digits[n \div 256], n % 256)
    BY ZenonT(40), <2>9, <2>10, DigitsStep
  <2>12. Digits[n] = d
    BY ZenonT(40), <2>5, <2>8, <2>9, <2>11
  <2> QED BY <2>3, <2>5, <2>12 DEF n
<1>2. Len(c) \in Nat
  BY LenProperties
<1> QED BY <1>1, <1>2

-----------------------------------------------------------------------------
(* Lengths, as they are read.                                              *)
LengthRead(b, p) ==
  LET d == decodeLength(b, p)
  IN  /\ d.value \in Nat /\ d.next \in p + 1 .. Len(b) /\ States(SubSeq(b, p + 1, d.next), d.value, FALSE)

LEMMA ByteAt ==
  ASSUME NEW b \in Seq(Byte), NEW p \in Nat, p < Len(b)
  PROVE  b[p + 1] \in Byte /\ b[p + 1] \in 0 .. 255 /\ p + 1 \in 1 .. Len(b) /\ Len(b) \in Nat
<1>1. Len(b) \in Nat /\ \A i \in 1 .. Len(b) : b[i] \in Byte
  BY LenProperties
<1>2. p + 1 \in 1 .. Len(b)
  BY <1>1
<1> QED BY <1>1, <1>2 DEF Byte

LEMMA LowBits ==
  ASSUME NEW x \in 0 .. 255, ~ (x < 128)
  PROVE  x % 128 \in 0 .. 127 /\ x = 128 + (x % 128)
OBVIOUS

LEMMA DecodeLengthIs ==
  ASSUME NEW b \in Seq(Byte), NEW p \in Nat, decodeLength(b, p).ok
  PROVE  /\ p < Len(b)
         /\ \/ b[p + 1] < 128 /\ decodeLength(b, p) = [ok |-> TRUE, value |-> b[p + 1], next |-> p + 1]
            \/ \E k \in 0 .. 6 :
                 LET n == BigEndian(SubSeq(b, p + 2, p + 1 + k))
                 IN  /\ b[p + 1] = 128 + k /\ p + 1 + k <= Len(b) /\ n # 0
                     /\ decodeLength(b, p) = [ok |-> TRUE, value |-> n, next |-> p + 1 + k]
<1>0. Len(b) \in Nat
  BY LenProperties
<1> DEFINE d == decodeLength(b, p)
           count == b[p + 1] % 128
           len == BigEndian(SubSeq(b, p + 2, p + 1 + count))
<1>1. d = IF p >= Len(b) THEN Thrown
          ELSE IF b[p + 1] < 128 THEN [ok |-> TRUE, value |-> b[p + 1], next |-> p + 1]
          ELSE IF count > 6 \/ p + 1 + count > Len(b) THEN Thrown
          ELSE IF len = 0 THEN Thrown
          ELSE [ok |-> TRUE, value |-> len, next |-> p + 1 + count]
  BY DEF decodeLength, getUint8, Indefinite
<1>2. d.ok
  OBVIOUS
<1>3. ~ Thrown.ok
  BY DEF Thrown
<1> HIDE DEF d
<1>4. p < Len(b)
  <2>1. ~ (p >= Len(b))
    BY <1>1, <1>2, <1>3
  <2> QED BY <1>0, <2>1
<1>5. b[p + 1] \in 0 .. 255
  BY <1>4, ByteAt
<1>6. CASE b[p + 1] < 128
  <2>1. d = [ok |-> TRUE, value |-> b[p + 1], next |-> p + 1]
    BY <1>0, <1>1, <1>4, <1>6
  <2> QED BY <1>4, <1>6, <2>1 DEF d
<1>7. CASE ~ (b[p + 1] < 128)
  <2>1. count \in 0 .. 127 /\ b[p + 1] = 128 + count
    BY <1>5, <1>7, LowBits
  <2>2. ~ (count > 6 \/ p + 1 + count > Len(b)) /\ len # 0 /\ d = [ok |-> TRUE, value |-> len, next |-> p + 1 + count]
    <3> HIDE DEF count, len
    <3> QED BY <1>0, <1>1, <1>2, <1>3, <1>4, <1>7
  <2> HIDE DEF count
  <2>3. count \in 0 .. 6 /\ p + 1 + count <= Len(b)
    BY <1>0, <2>1, <2>2
  <2> QED BY <1>4, <2>1, <2>2, <2>3 DEF d
<1> QED BY <1>6, <1>7

LEMMA CutOne ==
  ASSUME NEW b \in Seq(Byte), NEW p \in Nat, p < Len(b)
  PROVE  SubSeq(b, p + 1, p + 1) = <<b[p + 1]>>
<1>1. b[p + 1] \in Byte /\ p + 1 \in 1 .. Len(b) /\ Len(b) \in Nat
  BY ByteAt
<1> DEFINE c == SubSeq(b, p + 1, p + 1)
           e == <<b[p + 1]>>
<1>2. c \in Seq(Byte) /\ Len(c) = 1 /\ c[1] = b[p + 1]
  <2>1. p + 1 \in 0 .. Len(b) /\ p \in 0 .. p + 1 /\ p + 1 - p = 1
    BY <1>1
  <2>2. c \in Seq(Byte) /\ Len(c) = p + 1 - p /\ \A i \in 1 .. p + 1 - p : c[i] = b[p + i]
    BY <2>1, Cut
  <2>3. 1 \in 1 .. 1
    OBVIOUS
  <2> HIDE DEF c
  <2> QED BY <2>1, <2>2, <2>3
<1>3. e \in Seq(Byte) /\ Len(e) = 1 /\ e[1] = b[p + 1]
  BY <1>1
<1> HIDE DEF c, e
<1>4. \A i \in 1 .. Len(c) : c[i] = e[i]
  BY <1>2, <1>3
<1>5. c = e
  BY <1>2, <1>3, <1>4, SeqEqual
<1> QED BY <1>5 DEF c, e

LEMMA TailOfCut ==
  ASSUME NEW b \in Seq(Byte), NEW q \in 0 .. Len(b), NEW p \in 0 .. q, p < q
  PROVE  Tail(SubSeq(b, p + 1, q)) = SubSeq(b, p + 2, q) /\ SubSeq(b, p + 1, q)[1] = b[p + 1]
<1>0. Len(b) \in Nat
  BY LenProperties
<1>1. p + 1 \in 1 .. Len(b) /\ q \in p + 1 .. Len(b) /\ (p + 1) + 1 = p + 2
  BY <1>0
<1>2. Tail(SubSeq(b, p + 1, q)) = SubSeq(b, (p + 1) + 1, q)
  BY <1>1, HeadTailOfSubSeq
<1>3. SubSeq(b, p + 1, q)[1] = b[p + 1]
  <2>1. 1 \in 1 .. q - p
    BY <1>0
  <2>2. SubSeq(b, p + 1, q)[1] = b[p + 1]
    BY <2>1, Cut
  <2> QED BY <2>2
<1> QED BY <1>1, <1>2, <1>3

LEMMA DecodeStates ==
  ASSUME NEW b \in Seq(Byte), NEW p \in Nat, decodeLength(b, p).ok
  PROVE  LengthRead(b, p)
<1>0. p < Len(b) /\ Len(b) \in Nat /\ b[p + 1] \in Nat
  <2>1. p < Len(b)
    BY DecodeLengthIs
  <2>2. Len(b) \in Nat /\ b[p + 1] \in Byte
    BY <2>1, ByteAt
  <2> QED BY <2>1, <2>2, ByteIsNat
<1> DEFINE d == decodeLength(b, p)
<1>1. CASE b[p + 1] < 128 /\ d = [ok |-> TRUE, value |-> b[p + 1], next |-> p + 1]
  <2>1. d.value = b[p + 1] /\ d.next = p + 1
    BY <1>1
  <2>2. SubSeq(b, p + 1, p + 1) = <<b[p + 1]>>
    BY <1>0, CutOne
  <2>3. States(SubSeq(b, p + 1, p + 1), b[p + 1], FALSE)
    BY <1>1, <2>2 DEF States
  <2>4. p + 1 \in p + 1 .. Len(b)
    BY <1>0
  <2> HIDE DEF d
  <2>5. d.value \in Nat /\ d.next \in p + 1 .. Len(b) /\ States(SubSeq(b, p + 1, d.next), d.value, FALSE)
    BY <1>0, <2>1, <2>3, <2>4
  <2> QED BY <2>5 DEF LengthRead, d
<1>2. ASSUME NEW k \in 0 .. 6, b[p + 1] = 128 + k, p + 1 + k <= Len(b), BigEndian(SubSeq(b, p + 2, p + 1 + k)) # 0,
             d = [ok |-> TRUE, value |-> BigEndian(SubSeq(b, p + 2, p + 1 + k)), next |-> p + 1 + k]
      PROVE  LengthRead(b, p)
  <2> DEFINE n == BigEndian(SubSeq(b, p + 2, p + 1 + k))
             q == p + 1 + k
             c == SubSeq(b, p + 1, q)
  <2>1. q \in 0 .. Len(b) /\ p \in 0 .. q /\ p < q /\ q \in p + 1 .. Len(b) /\ q - p = k + 1 /\ q \in Nat
    BY <1>0, <1>2
  <2>2. Tail(c) = SubSeq(b, p + 2, q) /\ c[1] = b[p + 1]
    <3> HIDE DEF q
    <3> QED BY <2>1, TailOfCut
  <2>3. Len(c) = k + 1
    <3> HIDE DEF q
    <3>1. Len(c) = q - p
      BY <2>1, Cut
    <3> QED BY <2>1, <3>1
  <2>4. k # 0
    <3>1. SUFFICES ASSUME k = 0 PROVE FALSE
      OBVIOUS
    <3>2. p + 2 \in Int /\ p + 1 + k \in Int /\ p + 1 + k < p + 2
      BY <3>1
    <3>3. SubSeq(b, p + 2, p + 1 + k) = <<>>
      BY <3>2, SubSeqEmpty
    <3> QED BY <1>2, <3>3, BigEndianEmpty
  <2>5. Len(c) \in 2 .. 127 /\ c[1] = 127 + Len(c) /\ BigEndian(Tail(c)) = n
    <3>1. BigEndian(Tail(c)) = n
      BY <2>2
    <3> HIDE DEF c, n, q
    <3> QED BY <1>2, <2>2, <2>3, <2>4, <3>1
  <2>6. States(c, n, FALSE)
    <3> HIDE DEF c, n
    <3> QED BY <2>5 DEF States
  <2>7. n \in Nat
    <3> DEFINE e == SubSeq(b, p + 2, q)
    <3>1. e \in Seq(Byte)
      <4>1. (p + 1) + 1 = p + 2 /\ p + 1 \in 0 .. q
        BY <2>1
      <4> HIDE DEF q
      <4>2. SubSeq(b, (p + 1) + 1, q) \in Seq(Byte)
        BY <2>1, <4>1, Cut
      <4> QED BY <4>1, <4>2
    <3> HIDE DEF e
    <3>2. BigEndian(e) \in Nat
      <4>1. 0 \in Byte
        BY DEF Byte
      <4> QED BY <3>1, <4>1, BigEndianAppend
    <3> QED BY <3>2 DEF e
  <2>8. d.value = n /\ d.next = q
    BY <1>2
  <2> HIDE DEF d, n, q
  <2>9. d.value \in Nat /\ d.next \in p + 1 .. Len(b) /\ States(SubSeq(b, p + 1, d.next), d.value, FALSE)
    BY <2>1, <2>6, <2>7, <2>8
  <2> QED BY <2>9 DEF LengthRead, d
<1> QED BY <1>1, <1>2, DecodeLengthIs

-----------------------------------------------------------------------------
(* Objects of so many levels, and their bytes.                              *)
ObjectsOver(S) == [tag : Tags, value : Seq(Byte), subs : Seq(S)]
Levels(f, n) == f = [k \in 0 .. n |-> IF k = 0 THEN {} ELSE ObjectsOver(f[k - 1])]

LEMMA LevelsExtend ==
  ASSUME NEW n \in Nat, NEW f, Levels(f, n)
  PROVE  \E g : Levels(g, n + 1)
<1> DEFINE g == [k \in 0 .. n + 1 |-> IF k = 0 THEN {} ELSE ObjectsOver(f[k - 1])]
<1>1. ASSUME NEW k \in 0 .. n PROVE g[k] = f[k]
  <2>1. k \in 0 .. n + 1
    OBVIOUS
  <2>2. g[k] = IF k = 0 THEN {} ELSE ObjectsOver(f[k - 1])
    BY <2>1
  <2>3. f[k] = IF k = 0 THEN {} ELSE ObjectsOver(f[k - 1])
    BY DEF Levels
  <2> QED BY <2>2, <2>3
<1>2. \A k \in 0 .. n + 1 : k # 0 => k - 1 \in 0 .. n
  OBVIOUS
<1>3. g = [k \in 0 .. n + 1 |-> IF k = 0 THEN {} ELSE ObjectsOver(g[k - 1])]
  BY <1>1, <1>2
<1> QED BY <1>3 DEF Levels

LEMMA LevelsExist ==
  ASSUME NEW n \in Nat
  PROVE  \E f : Levels(f, n)
<1> DEFINE Missing == {k \in Nat : ~ \E f : Levels(f, k)}
<1>1. SUFFICES ASSUME Missing # {} PROVE FALSE
  OBVIOUS
<1>2. PICK m \in Missing : \A k \in Missing : m <= k
  <2>1. Missing \in SUBSET Nat
    OBVIOUS
  <2> HIDE DEF Missing
  <2> QED BY <1>1, <2>1, LeastNumber
<1>3. CASE m = 0
  <2>1. Levels([k \in 0 .. 0 |-> {}], 0)
    BY DEF Levels
  <2> QED BY <1>2, <1>3, <2>1
<1>4. CASE m # 0
  <2>1. m - 1 \in Nat /\ (m - 1) + 1 = m /\ ~ (m <= m - 1)
    BY <1>2, <1>4
  <2>2. PICK f : Levels(f, m - 1)
    BY <1>2, <2>1
  <2>3. \E g : Levels(g, (m - 1) + 1)
    BY <2>1, <2>2, LevelsExtend
  <2> QED BY <1>2, <2>1, <2>3
<1> QED BY <1>3, <1>4

LEMMA LevelsAgree ==
  ASSUME NEW n \in Nat, NEW f, Levels(f, n), NEW g, Levels(g, n + 1)
  PROVE  \A k \in 0 .. n : f[k] = g[k]
<1> DEFINE Astray == {k \in 0 .. n : f[k] # g[k]}
<1>1. SUFFICES ASSUME Astray # {} PROVE FALSE
  OBVIOUS
<1>2. PICK m \in Astray : \A k \in Astray : m <= k
  <2>1. Astray \in SUBSET Nat
    OBVIOUS
  <2> HIDE DEF Astray
  <2> QED BY <1>1, <2>1, LeastNumber
<1>3. m \in 0 .. n /\ m \in 0 .. n + 1 /\ f[m] # g[m]
  BY <1>2
<1>4. f[m] = (IF m = 0 THEN {} ELSE ObjectsOver(f[m - 1])) /\ g[m] = (IF m = 0 THEN {} ELSE ObjectsOver(g[m - 1]))
  BY <1>3 DEF Levels
<1>5. m # 0 /\ m - 1 \in 0 .. n /\ ~ (m <= m - 1)
  BY <1>3, <1>4
<1>6. f[m - 1] = g[m - 1]
  BY <1>2, <1>5
<1> QED BY <1>3, <1>4, <1>5, <1>6

LEMMA ObjectsAre == Objects[0] = {} /\ \A n \in Nat : Objects[n + 1] = ObjectsOver(Objects[n])
<1> DEFINE part == [n \in Nat |-> CHOOSE f : Levels(f, n)]
           all == [n \in Nat |-> part[n][n]]
<1>1. \A n \in Nat : Levels(part[n], n)
  BY LevelsExist
<1>2. ASSUME NEW n \in Nat PROVE all[n] = IF n = 0 THEN {} ELSE ObjectsOver(all[n - 1])
  <2>1. part[n][n] = IF n = 0 THEN {} ELSE ObjectsOver(part[n][n - 1])
    <3>1. n \in 0 .. n /\ Levels(part[n], n)
      BY <1>1
    <3> HIDE DEF part
    <3> QED BY <3>1 DEF Levels
  <2>2. ASSUME n # 0 PROVE part[n][n - 1] = part[n - 1][n - 1]
    <3>1. n - 1 \in Nat /\ (n - 1) + 1 = n /\ n - 1 \in 0 .. n - 1
      BY <2>2
    <3>2. Levels(part[n - 1], n - 1) /\ Levels(part[n], (n - 1) + 1)
      BY <1>1, <3>1
    <3> HIDE DEF part
    <3> QED BY <3>1, <3>2, LevelsAgree
  <2>3. n # 0 => n - 1 \in Nat
    OBVIOUS
  <2> HIDE DEF part
  <2> QED BY <2>1, <2>2, <2>3
<1> DEFINE Whole(f) == f = [n \in Nat |-> IF n = 0 THEN {} ELSE ObjectsOver(f[n - 1])]
<1>3. Whole(all)
  <2>1. all = [k \in Nat |-> all[k]]
    OBVIOUS
  <2> HIDE DEF all
  <2> QED BY <1>2, <2>1
<1>4. Objects = CHOOSE f : Whole(f)
  BY DEF Objects, ObjectsOver
<1>5. Whole(Objects)
  <2> HIDE DEF Whole, all
  <2> QED BY <1>3, <1>4
<1> HIDE DEF all, part
<1>6. \A n \in Nat : Objects[n] = IF n = 0 THEN {} ELSE ObjectsOver(Objects[n - 1])
  BY <1>5
<1>7. \A n \in Nat : n + 1 \in Nat /\ n + 1 # 0 /\ (n + 1) - 1 = n
  OBVIOUS
<1>8. ASSUME NEW n \in Nat PROVE Objects[n + 1] = ObjectsOver(Objects[n])
  <2>1. Objects[n + 1] = IF n + 1 = 0 THEN {} ELSE ObjectsOver(Objects[(n + 1) - 1])
    BY <1>6, <1>7
  <2> QED BY <1>7, <2>1
<1> QED BY <1>6, <1>8

LEMMA OverGrows ==
  ASSUME NEW S, NEW T, S \subseteq T
  PROVE  ObjectsOver(S) \subseteq ObjectsOver(T)
<1>1. Seq(S) \subseteq Seq(T)
  BY SeqMonotonic
<1> QED BY <1>1 DEF ObjectsOver

LEMMA ObjectsStep ==
  ASSUME NEW n \in Nat
  PROVE  Objects[n] \subseteq Objects[n + 1]
<1> DEFINE Bad == {k \in Nat : ~ (Objects[k] \subseteq Objects[k + 1])}
<1>1. Bad = {}
  <2>1. SUFFICES ASSUME Bad # {} PROVE FALSE
    OBVIOUS
  <2>2. PICK k \in Bad : \A m \in Bad : k <= m
    <3>1. Bad \in SUBSET Nat
      OBVIOUS
    <3> HIDE DEF Bad
    <3> QED BY <2>1, <3>1, LeastNumber
  <2>3. k \in Nat /\ ~ (Objects[k] \subseteq Objects[k + 1])
    BY <2>2
  <2>4. k # 0
    BY <2>3, ObjectsAre
  <2>5. k - 1 \in Nat /\ (k - 1) + 1 = k /\ ~ (k <= k - 1)
    BY <2>3, <2>4
  <2>6. Objects[k - 1] \subseteq Objects[k]
    BY <2>2, <2>5
  <2>7. Objects[k] = ObjectsOver(Objects[k - 1]) /\ Objects[k + 1] = ObjectsOver(Objects[k])
    <3>1. Objects[(k - 1) + 1] = ObjectsOver(Objects[k - 1])
      BY <2>5, ObjectsAre
    <3>2. Objects[k + 1] = ObjectsOver(Objects[k])
      BY <2>3, ObjectsAre
    <3> QED BY <2>5, <3>1, <3>2
  <2> QED BY <2>3, <2>6, <2>7, OverGrows
<1> QED BY <1>1

LEMMA ObjectsGrow ==
  ASSUME NEW m \in Nat, NEW n \in Nat, m <= n
  PROVE  Objects[m] \subseteq Objects[n]
<1> DEFINE Bad == {k \in Nat : m <= k /\ ~ (Objects[m] \subseteq Objects[k])}
<1>1. Bad = {}
  <2>1. SUFFICES ASSUME Bad # {} PROVE FALSE
    OBVIOUS
  <2>2. PICK k \in Bad : \A j \in Bad : k <= j
    <3>1. Bad \in SUBSET Nat
      OBVIOUS
    <3> HIDE DEF Bad
    <3> QED BY <2>1, <3>1, LeastNumber
  <2>3. k \in Nat /\ m <= k /\ ~ (Objects[m] \subseteq Objects[k])
    BY <2>2
  <2>4. k # m
    BY <2>3
  <2>5. k - 1 \in Nat /\ (k - 1) + 1 = k /\ ~ (k <= k - 1) /\ m <= k - 1
    BY <2>3, <2>4
  <2>6. Objects[m] \subseteq Objects[k - 1]
    BY <2>2, <2>5
  <2>7. Objects[k - 1] \subseteq Objects[(k - 1) + 1]
    BY <2>5, ObjectsStep
  <2> QED BY <2>3, <2>5, <2>6, <2>7
<1> QED BY <1>1

LEMMA TileGrows ==
  ASSUME NEW objs, NEW b, NEW P, NEW Q, P \subseteq Q, Tile(objs, b, P)
  PROVE  Tile(objs, b, Q)
BY DEF Tile

LEMMA EncodeGrows ==
  ASSUME NEW o, NEW b, NEW P, NEW Q, P \subseteq Q, NEW der, Encode(o, b, P, der)
  PROVE  Encode(o, b, Q, der)
<1>1. o.subs # <<>> => Tile(o.subs, o.value, P)
  BY DEF Encode
<1>2. o.subs # <<>> => Tile(o.subs, o.value, Q)
  BY <1>1, TileGrows
<1> QED BY <1>2 DEF Encode

LEMMA EncodingsAre ==
  ASSUME NEW der
  PROVE  /\ Encodings(der)[0] = {}
         /\ \A n \in Nat : Encodings(der)[n + 1] =
              {e \in Objects[n + 1] \X Seq(Byte) : Encode(e[1], e[2], Encodings(der)[n], der)}
<1> DEFINE D == Nat
           V == [d \in D |-> SUBSET (Objects[d] \X Seq(Byte))]
           rank == [d \in D |-> d]
           body(d, g) == IF d = 0 THEN {} ELSE {e \in Objects[d] \X Seq(Byte) : Encode(e[1], e[2], g[d - 1], der)}
           step == [z \in D \X Valued(D, V) |-> body(z[1], z[2])]
<1>1. rank \in [D -> Nat]
  OBVIOUS
<1>2. \A d \in D : V[d] # {}
  OBVIOUS
<1>3. \A d \in D, g \in Valued(D, V) : step[<<d, g>>] = body(d, g)
  OBVIOUS
<1>4. \A d \in D : \A g : body(d, g) \in V[d]
  OBVIOUS
<1>5. Stepping(D, V, step)
  <2> HIDE DEF D, V, body, step
  <2> QED BY <1>3, <1>4 DEF Stepping
<1>6. ASSUME NEW d \in D, NEW g, NEW h, Alike(D, rank, g, h, rank[d])
      PROVE  body(d, g) = body(d, h)
  <2>1. CASE d = 0
    BY <2>1
  <2>2. CASE d # 0
    <3>1. d - 1 \in D /\ rank[d - 1] < rank[d]
      BY <2>2
    <3>2. g[d - 1] = h[d - 1]
      BY <1>6, <3>1 DEF Alike
    <3> QED BY <3>2
  <2> QED BY <2>1, <2>2
<1>7. Grounded(D, V, rank, step)
  <2> HIDE DEF D, V, rank, body, step
  <2>1. \A d \in D : \A g, h \in Valued(D, V) : Alike(D, rank, g, h, rank[d]) => step[<<d, g>>] = step[<<d, h>>]
    <3>1. TAKE d \in D
    <3>2. TAKE g, h \in Valued(D, V)
    <3>3. HAVE Alike(D, rank, g, h, rank[d])
    <3>4. body(d, g) = body(d, h)
      BY <1>6, <3>3
    <3> QED BY <1>3, <3>4
  <2> QED BY <2>1 DEF Grounded
<1>8. WellFounded(D, V, rank, step)
  BY <1>1, <1>2, <1>5, <1>7 DEF WellFounded
<1>9. PICK f : Solves(f, D, V, step)
  <2> HIDE DEF D, V, rank, step
  <2> QED BY <1>8, Recursion
<1> DEFINE Whole(h) == h = [n \in Nat |-> IF n = 0 THEN {}
                                          ELSE {e \in Objects[n] \X Seq(Byte) : Encode(e[1], e[2], h[n - 1], der)}]
<1>10. Whole(f)
  <2>1. f = [d \in D |-> f[d]]
    <3> HIDE DEF V, D, step
    <3> QED BY <1>9 DEF Solves, Valued
  <2>2. \A d \in D : f[d] = body(d, f)
    <3> HIDE DEF V, D, step, body
    <3> QED BY <1>3, <1>9 DEF Solves
  <2> HIDE DEF V, step, rank
  <2> QED BY <2>1, <2>2
<1>11. Encodings(der) = CHOOSE h : Whole(h)
  BY Zenon DEF Encodings
<1>12. Whole(Encodings(der))
  <2> HIDE DEF Whole
  <2> QED BY <1>10, <1>11
<1> DEFINE E == Encodings(der)
<1>13. \A n \in Nat : E[n] = IF n = 0 THEN {} ELSE {e \in Objects[n] \X Seq(Byte) : Encode(e[1], e[2], E[n - 1], der)}
  <2> HIDE DEF E
  <2> QED BY <1>12 DEF E
<1> HIDE DEF E, Whole, D, V, rank, step, body
<1>14. E[0] = {}
  BY <1>13
<1>15. ASSUME NEW n \in Nat
       PROVE  E[n + 1] = {e \in Objects[n + 1] \X Seq(Byte) : Encode(e[1], e[2], E[n], der)}
  <2>1. n + 1 \in Nat /\ n + 1 # 0 /\ (n + 1) - 1 = n
    OBVIOUS
  <2>2. E[n + 1] = IF n + 1 = 0 THEN {}
                   ELSE {e \in Objects[n + 1] \X Seq(Byte) : Encode(e[1], e[2], E[(n + 1) - 1], der)}
    BY <1>13, <2>1
  <2> QED BY <2>1, <2>2
<1> QED BY <1>14, <1>15 DEF E

LEMMA EncodingIs ==
  ASSUME NEW der, NEW n \in Nat, NEW o, NEW b
  PROVE  <<o, b>> \in Encodings(der)[n + 1] <=>
           o \in Objects[n + 1] /\ b \in Seq(Byte) /\ Encode(o, b, Encodings(der)[n], der)
<1>1. Encodings(der)[n + 1] = {e \in Objects[n + 1] \X Seq(Byte) : Encode(e[1], e[2], Encodings(der)[n], der)}
  BY EncodingsAre
<1> DEFINE E == Encodings(der)[n]
<1>2. Encodings(der)[n + 1] = {e \in Objects[n + 1] \X Seq(Byte) : Encode(e[1], e[2], E, der)}
  BY <1>1
<1> HIDE DEF E
<1>3. <<o, b>>[1] = o /\ <<o, b>>[2] = b
  OBVIOUS
<1>4. <<o, b>> \in Objects[n + 1] \X Seq(Byte) <=> o \in Objects[n + 1] /\ b \in Seq(Byte)
  OBVIOUS
<1> QED BY <1>2, <1>3, <1>4 DEF E

LEMMA EncodingsStep ==
  ASSUME NEW der, NEW n \in Nat
  PROVE  Encodings(der)[n] \subseteq Encodings(der)[n + 1]
<1> DEFINE E == Encodings(der)
           Bad == {k \in Nat : ~ (E[k] \subseteq E[k + 1])}
<1>1. Bad = {}
  <2>1. SUFFICES ASSUME Bad # {} PROVE FALSE
    OBVIOUS
  <2>2. PICK k \in Bad : \A m \in Bad : k <= m
    <3>1. Bad \in SUBSET Nat
      OBVIOUS
    <3> HIDE DEF Bad
    <3> QED BY <2>1, <3>1, LeastNumber
  <2>3. k \in Nat /\ ~ (E[k] \subseteq E[k + 1])
    BY <2>2
  <2>4. k # 0
    BY <2>3, EncodingsAre
  <2>5. k - 1 \in Nat /\ (k - 1) + 1 = k /\ ~ (k <= k - 1)
    BY <2>3, <2>4
  <2>6. E[k - 1] \subseteq E[k]
    BY <2>2, <2>5
  <2>7. E[(k - 1) + 1] = {e \in Objects[(k - 1) + 1] \X Seq(Byte) : Encode(e[1], e[2], E[k - 1], der)}
    BY <2>5, EncodingsAre
  <2>8. E[k + 1] = {e \in Objects[k + 1] \X Seq(Byte) : Encode(e[1], e[2], E[k], der)}
    BY <2>3, EncodingsAre
  <2> HIDE DEF E
  <2>9. ASSUME NEW e \in E[k] PROVE e \in E[k + 1]
    <3>1. e \in Objects[k] \X Seq(Byte) /\ Encode(e[1], e[2], E[k - 1], der)
      BY <2>5, <2>7
    <3>2. Objects[k] \subseteq Objects[k + 1]
      BY <2>3, ObjectsStep
    <3>3. Encode(e[1], e[2], E[k], der)
      BY <2>6, <3>1, EncodeGrows
    <3>4. e \in Objects[k + 1] \X Seq(Byte)
      BY <3>1, <3>2
    <3> QED BY <2>8, <3>3, <3>4
  <2> QED BY <2>3, <2>9
<1> QED BY <1>1

LEMMA EncodingsGrow ==
  ASSUME NEW der, NEW m \in Nat, NEW n \in Nat, m <= n
  PROVE  Encodings(der)[m] \subseteq Encodings(der)[n]
<1> DEFINE E == Encodings(der)
           Bad == {k \in Nat : m <= k /\ ~ (E[m] \subseteq E[k])}
<1>1. Bad = {}
  <2>1. SUFFICES ASSUME Bad # {} PROVE FALSE
    OBVIOUS
  <2>2. PICK k \in Bad : \A j \in Bad : k <= j
    <3>1. Bad \in SUBSET Nat
      OBVIOUS
    <3> HIDE DEF Bad
    <3> QED BY <2>1, <3>1, LeastNumber
  <2>3. k \in Nat /\ m <= k /\ ~ (E[m] \subseteq E[k])
    BY <2>2
  <2>4. k # m
    BY <2>3
  <2>5. k - 1 \in Nat /\ (k - 1) + 1 = k /\ ~ (k <= k - 1) /\ m <= k - 1
    BY <2>3, <2>4
  <2>6. E[m] \subseteq E[k - 1]
    BY <2>2, <2>5
  <2>7. E[k - 1] \subseteq E[(k - 1) + 1]
    BY <2>5, EncodingsStep
  <2> QED BY <2>3, <2>5, <2>6, <2>7
<1> QED BY <1>1

-----------------------------------------------------------------------------
(* What there is at p before the content: the content is from Begin to End.    *)
Begin(b, p)  == decodeLength(b, p + 1).next
End(b, p)    == decodeLength(b, p + 1).next + decodeLength(b, p + 1).value
Header(b, p) ==
  p < Len(b) /\ Supported(ASN1Tag(b[p + 1])) /\ decodeLength(b, p + 1).ok /\ End(b, p) <= Len(b)
Plain(b, p) ==
  [tag |-> ASN1Tag(b[p + 1]), value |-> SubSeq(b, Begin(b, p) + 1, End(b, p)), subs |-> <<>>]
Inside(b, p, g) == g[<<Begin(b, p), End(b, p)>>]

\* What ObjectAt gives, given what is read of the content.
ObjectOf(b, p, inner) ==
  IF MustHold(Plain(b, p)) /\ ~ inner.ok THEN Thrown
  ELSE [ok |-> TRUE, next |-> End(b, p),
        obj |-> IF MayHold(Plain(b, p)) /\ inner.ok THEN [Plain(b, p) EXCEPT !.subs = inner.subs]
                ELSE Plain(b, p)]

LEMMA ObjectAtIs ==
  ASSUME NEW b \in Seq(Byte), NEW p \in Nat, NEW g
  PROVE  ObjectAt(b, p, g) = IF Header(b, p) THEN ObjectOf(b, p, Inside(b, p, g)) ELSE Thrown
<1>0. Len(b) \in Nat
  BY LenProperties
<1> DEFINE tag == ASN1Tag(getUint8(b, p))
           len == decodeLength(b, p + 1)
           end == len.next + len.value
           inner == g[<<len.next, end>>]
           plain == [tag |-> tag, value |-> SubSeq(b, len.next + 1, end), subs |-> <<>>]
           result == [ok |-> TRUE, next |-> end,
                      obj |-> IF MayHold(plain) /\ inner.ok THEN [plain EXCEPT !.subs = inner.subs] ELSE plain]
<1>1. ObjectAt(b, p, g) =
        IF p >= Len(b) THEN Thrown
        ELSE IF ~ Supported(tag) \/ ~ len.ok THEN Thrown
        ELSE IF end > Len(b) THEN Thrown
        ELSE IF MustHold(plain) /\ ~ inner.ok THEN Thrown
        ELSE result
  BY DEF ObjectAt
<1>2. end = End(b, p) /\ plain = Plain(b, p) /\ inner = Inside(b, p, g)
  BY DEF End, Begin, Plain, Inside, getUint8
<1>3. Header(b, p) <=> p < Len(b) /\ Supported(tag) /\ len.ok /\ end <= Len(b)
  BY DEF Header, End, getUint8
<1>4. ObjectOf(b, p, Inside(b, p, g)) = IF MustHold(plain) /\ ~ inner.ok THEN Thrown ELSE result
  <2> HIDE DEF plain, inner, end
  <2> QED BY <1>2 DEF ObjectOf
<1> HIDE DEF plain, inner, result, tag, len
<1>5. CASE p >= Len(b)
  <2>1. ~ (p < Len(b))
    BY <1>0, <1>5
  <2> QED BY <1>1, <1>3, <1>5, <2>1
<1>6. CASE ~ (p >= Len(b)) /\ (~ Supported(tag) \/ ~ len.ok)
  BY <1>1, <1>3, <1>6
<1>7. CASE ~ (p >= Len(b)) /\ Supported(tag) /\ len.ok
  <2>0. p < Len(b)
    BY <1>0, <1>7
  <2>1. end \in Nat
    <3>1. p + 1 \in Nat
      OBVIOUS
    <3>2. LengthRead(b, p + 1)
      BY <1>7, <3>1, DecodeStates DEF len
    <3>3. len.value \in Nat /\ len.next \in (p + 1) + 1 .. Len(b)
      BY <3>2 DEF LengthRead, len
    <3>4. len.next \in Nat
      BY <1>0, <3>3
    <3> QED BY <3>3, <3>4
  <2> HIDE DEF end
  <2>2. CASE end <= Len(b)
    <3>1. ~ (end > Len(b))
      BY <1>0, <2>1, <2>2
    <3> QED BY <1>1, <1>3, <1>4, <1>7, <2>0, <2>2, <3>1
  <2>3. CASE ~ (end <= Len(b))
    <3>1. end > Len(b)
      BY <1>0, <2>1, <2>3
    <3> QED BY <1>1, <1>3, <1>7, <2>3, <3>1
  <2> QED BY <2>2, <2>3
<1> QED BY <1>5, <1>6, <1>7

LEMMA HeaderIs ==
  ASSUME NEW b \in Seq(Byte), NEW p \in Nat, Header(b, p)
  PROVE  /\ Len(b) \in Nat /\ p < Len(b) /\ b[p + 1] \in 0 .. 255
         /\ Begin(b, p) \in p + 2 .. Len(b) /\ End(b, p) \in Begin(b, p) .. Len(b)
         /\ States(SubSeq(b, p + 2, Begin(b, p)), End(b, p) - Begin(b, p), FALSE)
<1>0. Len(b) \in Nat /\ p < Len(b) /\ End(b, p) <= Len(b) /\ p + 1 \in Nat
  BY LenProperties DEF Header
<1>1. LengthRead(b, p + 1)
  BY <1>0, DecodeStates DEF Header
<1> DEFINE n == decodeLength(b, p + 1).value
           x == decodeLength(b, p + 1).next
<1>2. n \in Nat /\ x \in (p + 1) + 1 .. Len(b) /\ States(SubSeq(b, (p + 1) + 1, x), n, FALSE)
  BY <1>1 DEF LengthRead
<1>3. Begin(b, p) = x /\ End(b, p) = x + n
  BY DEF Begin, End
<1> HIDE DEF n, x
<1>4. (p + 1) + 1 = p + 2
  OBVIOUS
<1>5. x \in p + 2 .. Len(b) /\ x + n \in x .. Len(b) /\ (x + n) - x = n
  BY <1>0, <1>2, <1>3
<1>6. b[p + 1] \in 0 .. 255
  BY <1>0, ByteAt
<1> QED BY <1>0, <1>2, <1>3, <1>4, <1>5, <1>6

LEMMA TagByte ==
  ASSUME NEW x \in 0 .. 255
  PROVE  /\ ASN1Tag(x) \in Tags
         /\ x = ASN1Tag(x).number + 64 * ASN1Tag(x).class + (IF ASN1Tag(x).constructed THEN 32 ELSE 0)
<1> DEFINE n == x % 32
           y == x \div 32
           c == y % 2
           d == x \div 64
<1>1. n \in 0 .. 31 /\ y \in 0 .. 7 /\ x = 32 * y + n
  OBVIOUS
<1>2. d \in 0 .. 3 /\ d = y \div 2
  OBVIOUS
<1> HIDE DEF n, y, d
<1>3. c \in 0 .. 1 /\ y = 2 * d + c
  BY <1>1, <1>2
<1> HIDE DEF c
<1>4. x = n + 64 * d + 32 * c
  BY <1>1, <1>2, <1>3
<1>5. ASN1Tag(x) = [number |-> n, constructed |-> c = 1, class |-> d]
  BY DEF ASN1Tag, n, c, y, d
<1>6. x = n + 64 * d + (IF c = 1 THEN 32 ELSE 0)
  BY <1>1, <1>2, <1>3, <1>4
<1> DEFINE k == (c = 1)
           t == [number |-> n, constructed |-> k, class |-> d]
<1>7. k \in BOOLEAN
  OBVIOUS
<1>8. ASN1Tag(x) = t
  BY <1>5
<1>9. x = n + 64 * d + (IF k THEN 32 ELSE 0)
  BY <1>6
<1> HIDE DEF k
<1>10. t \in Tags
  BY <1>1, <1>2, <1>7 DEF Tags
<1>11. t.number = n /\ t.class = d /\ t.constructed = k
  OBVIOUS
<1> HIDE DEF t
<1>12. x = t.number + 64 * t.class + (IF t.constructed THEN 32 ELSE 0)
  BY <1>9, <1>11
<1> QED BY <1>8, <1>10, <1>12

-----------------------------------------------------------------------------
(* One more object in front.                                               *)
NoneEmpty(P) == \A x, y : <<x, y>> \in P => y # <<>>
Beside(b, p, m, q) == /\ b \in Seq(Byte) /\ p \in Nat /\ m \in p .. Len(b) /\ q \in m .. Len(b)

LEMMA ConsIs ==
  ASSUME NEW S, NEW x \in S, NEW s \in Seq(S)
  PROVE  /\ <<x>> \o s \in Seq(S) /\ Len(<<x>> \o s) = Len(s) + 1 /\ Len(s) \in Nat /\ (<<x>> \o s)[1] = x
         /\ \A i \in 1 .. Len(s) : (<<x>> \o s)[i + 1] = s[i]
<1> DEFINE e == <<x>>
<1>1. e \in Seq(S) /\ Len(e) = 1 /\ e[1] = x
  OBVIOUS
<1>2. Len(s) \in Nat
  BY LenProperties
<1> HIDE DEF e
<1>3. /\ e \o s \in Seq(S) /\ Len(e \o s) = Len(e) + Len(s)
      /\ \A i \in 1 .. Len(e) + Len(s) : (e \o s)[i] = IF i <= Len(e) THEN e[i] ELSE s[i - Len(e)]
  BY <1>1, ConcatProperties
<1>4. (e \o s)[1] = x
  BY <1>1, <1>2, <1>3
<1>5. ASSUME NEW i \in 1 .. Len(s) PROVE (e \o s)[i + 1] = s[i]
  <2>1. i + 1 \in 1 .. 1 + Len(s) /\ ~ (i + 1 <= 1) /\ (i + 1) - 1 = i
    BY <1>2
  <2> QED BY <1>1, <1>3, <2>1
<1>6. Len(e \o s) = Len(s) + 1
  BY <1>1, <1>2, <1>3
<1> QED BY <1>2, <1>3, <1>4, <1>5, <1>6 DEF e

LEMMA TileCons ==
  ASSUME NEW P, NoneEmpty(P), NEW S, NEW b, NEW p, NEW m, NEW q, Beside(b, p, m, q),
         NEW o \in S, NEW os \in Seq(S), <<o, SubSeq(b, p + 1, m)>> \in P, Tile(os, SubSeq(b, m + 1, q), P)
  PROVE  Tile(<<o>> \o os, SubSeq(b, p + 1, q), P)
<1>0. /\ b \in Seq(Byte) /\ Len(b) \in Nat /\ p \in Nat /\ m \in Nat /\ q \in Nat /\ p <= m /\ m <= q /\ q <= Len(b)
  BY LenProperties DEF Beside
<1> DEFINE c == SubSeq(b, p + 1, q)
           d == SubSeq(b, m + 1, q)
           n == Len(os)
           all == <<o>> \o os
<1>1. all \in Seq(S) /\ Len(all) = n + 1 /\ n \in Nat /\ all[1] = o /\ \A i \in 1 .. n : all[i + 1] = os[i]
  BY ConsIs
<1>2. c \in Seq(Byte) /\ Len(c) = q - p
  <2>1. q \in 0 .. Len(b) /\ p \in 0 .. q
    BY <1>0
  <2> QED BY <1>0, <2>1, Cut
<1>3. d \in Seq(Byte) /\ Len(d) = q - m
  <2>1. q \in 0 .. Len(b) /\ m \in 0 .. q
    BY <1>0
  <2> QED BY <1>0, <2>1, Cut
<1>4. PICK cut \in [0 .. n -> 0 .. Len(d)] :
        /\ cut[0] = 0 /\ cut[n] = Len(d)
        /\ \A k \in 1 .. n : <<os[k], SubSeq(d, cut[k - 1] + 1, cut[k])>> \in P
  BY DEF Tile
<1> DEFINE w == m - p
           new == [k \in 0 .. n + 1 |-> IF k = 0 THEN 0 ELSE w + cut[k - 1]]
<1>5. w \in Nat /\ p + w = m /\ w + (q - m) = q - p /\ w <= q - p
  BY <1>0
<1> HIDE DEF all, c, d, n, w
<1>6. ASSUME NEW k \in 0 .. n PROVE cut[k] \in Nat /\ cut[k] <= q - m
  <2>1. cut[k] \in 0 .. Len(d)
    BY <1>4
  <2> DEFINE j == cut[k]
  <2>2. j \in 0 .. Len(d)
    BY <2>1
  <2> HIDE DEF j
  <2>3. j \in Nat /\ j <= q - m
    BY <1>0, <1>3, <2>2
  <2> QED BY <2>3 DEF j
<1>7. new \in [0 .. n + 1 -> 0 .. Len(c)]
  <2>1. ASSUME NEW k \in 0 .. n + 1 PROVE (IF k = 0 THEN 0 ELSE w + cut[k - 1]) \in 0 .. Len(c)
    <3>1. CASE k = 0
      BY <1>0, <1>2, <3>1
    <3>2. CASE k # 0
      <4>1. k - 1 \in 0 .. n
        BY <1>1, <3>2
      <4>2. cut[k - 1] \in Nat /\ cut[k - 1] <= q - m
        BY <1>6, <4>1
      <4> DEFINE j == cut[k - 1]
      <4>3. j \in Nat /\ j <= q - m
        BY <4>2
      <4> HIDE DEF j
      <4>4. w + j \in 0 .. Len(c)
        BY <1>0, <1>2, <1>5, <4>3
      <4> QED BY <3>2, <4>4 DEF j
    <3> QED BY <3>1, <3>2
  <2> QED BY <2>1
<1>8. new[0] = 0 /\ new[n + 1] = Len(c)
  <2>1. 0 \in 0 .. n + 1 /\ n + 1 \in 0 .. n + 1 /\ n + 1 # 0 /\ (n + 1) - 1 = n
    BY <1>1
  <2>2. new[n + 1] = w + cut[n]
    BY <2>1
  <2> QED BY <1>2, <1>3, <1>4, <1>5, <2>1, <2>2
<1>9. ASSUME NEW k \in 1 .. n + 1 PROVE <<all[k], SubSeq(c, new[k - 1] + 1, new[k])>> \in P
  <2>1. CASE k = 1
    <3>1. new[0] = 0 /\ new[1] = w
      <4>1. 0 \in 0 .. n + 1 /\ 1 \in 0 .. n + 1 /\ 1 - 1 = 0
        BY <1>1
      <4>2. new[1] = w + cut[0]
        BY <4>1
      <4> QED BY <1>4, <1>5, <1>8, <4>2
    <3>2. SubSeq(c, 0 + 1, w) = SubSeq(b, p + 0 + 1, p + w)
      <4>1. q \in 0 .. Len(b) /\ p \in 0 .. q /\ w \in 0 .. q - p /\ 0 \in 0 .. w
        BY <1>0, <1>5
      <4> QED BY <1>0, <4>1, CutOfCut DEF c
    <3>3. p + 0 + 1 = p + 1
      BY <1>0
    <3>4. SubSeq(c, 0 + 1, w) = SubSeq(b, p + 1, m)
      BY <1>5, <3>2, <3>3
    <3>5. k - 1 = 0
      BY <2>1
    <3> HIDE DEF new
    <3> QED BY <1>1, <2>1, <3>1, <3>4, <3>5
  <2>2. CASE k # 1
    <3>1. k - 1 \in 1 .. n /\ (k - 1) + 1 = k /\ k \in 0 .. n + 1 /\ k - 1 \in 0 .. n + 1 /\ k # 0 /\ k - 1 # 0
          /\ k - 1 \in 0 .. n /\ (k - 1) - 1 \in 0 .. n
      BY <1>1, <2>2
    <3> DEFINE i == cut[(k - 1) - 1]
               j == cut[k - 1]
    <3>2. new[k] = w + j /\ new[k - 1] = w + i
      BY <3>1
    <3>3. <<os[k - 1], SubSeq(d, i + 1, j)>> \in P
      BY <1>4, <3>1
    <3>4. i \in Nat /\ j \in Nat /\ i <= q - m /\ j <= q - m
      BY <1>6, <3>1
    <3> HIDE DEF i, j, new
    <3>5. i <= j
      <4>1. SUFFICES ASSUME ~ (i <= j) PROVE FALSE
        OBVIOUS
      <4>2. i + 1 \in Int /\ j \in Int /\ j < i + 1
        BY <3>4, <4>1
      <4>3. SubSeq(d, i + 1, j) = <<>>
        BY <4>2, SubSeqEmpty
      <4> QED BY <3>3, <4>3 DEF NoneEmpty
    <3>6. SubSeq(d, i + 1, j) = SubSeq(b, m + i + 1, m + j)
      <4>1. q \in 0 .. Len(b) /\ m \in 0 .. q /\ j \in 0 .. q - m /\ i \in 0 .. j
        BY <1>0, <3>4, <3>5
      <4> QED BY <1>0, <4>1, CutOfCut DEF d
    <3>7. SubSeq(c, (w + i) + 1, w + j) = SubSeq(b, p + (w + i) + 1, p + (w + j))
      <4>1. q \in 0 .. Len(b) /\ p \in 0 .. q /\ w + j \in 0 .. q - p /\ w + i \in 0 .. w + j
        BY <1>0, <1>5, <3>4, <3>5
      <4> QED BY <1>0, <4>1, CutOfCut DEF c
    <3>8. p + (w + i) + 1 = m + i + 1 /\ p + (w + j) = m + j
      BY <1>0, <1>5, <3>4
    <3>9. all[k] = os[k - 1]
      BY <1>1, <3>1
    <3> QED BY <3>2, <3>3, <3>6, <3>7, <3>8, <3>9
  <2> QED BY <2>1, <2>2
<1> HIDE DEF new
<1>10. \E h \in [0 .. Len(all) -> 0 .. Len(c)] :
         /\ h[0] = 0 /\ h[Len(all)] = Len(c)
         /\ \A k \in 1 .. Len(all) : <<all[k], SubSeq(c, h[k - 1] + 1, h[k])>> \in P
  <2>1. new \in [0 .. Len(all) -> 0 .. Len(c)] /\ new[Len(all)] = Len(c)
    BY <1>1, <1>7, <1>8
  <2>2. \A k \in 1 .. Len(all) : <<all[k], SubSeq(c, new[k - 1] + 1, new[k])>> \in P
    BY <1>1, <1>9
  <2> QED BY <1>8, <2>1, <2>2
<1> QED BY <1>10 DEF Tile, all, c

LEMMA TileNone ==
  ASSUME NEW P
  PROVE  Tile(<<>>, <<>>, P)
<1> DEFINE cut == [k \in 0 .. 0 |-> 0]
<1>1. Len(<<>>) = 0
  BY EmptySeq
<1>2. cut \in [0 .. 0 -> 0 .. 0] /\ cut[0] = 0
  OBVIOUS
<1>3. \A k \in 1 .. 0 : FALSE
  OBVIOUS
<1> HIDE DEF cut
<1> QED BY <1>1, <1>2, <1>3 DEF Tile

LEMMA TileOfNone ==
  ASSUME NEW P, NEW b \in Seq(Byte), Tile(<<>>, b, P)
  PROVE  b = <<>>
<1>1. Len(<<>>) = 0
  BY EmptySeq
<1>2. Len(b) = 0
  BY <1>1 DEF Tile
<1> QED BY <1>2, EmptySeq

-----------------------------------------------------------------------------
(* What may be read between two places, and what may be read at one.          *)
Read(n) == {Thrown} \cup [ok : BOOLEAN, subs : Seq(Objects[n])]
Good(b, p, q, v) ==
  /\ v \in Read(Len(b) - p)
  /\ v.ok => p <= q /\ Tile(v.subs, SubSeq(b, p + 1, q), Encodings(FALSE)[Len(b) - p])

ObjectRead(b, p, x) ==
  /\ x.next \in p + 2 .. Len(b) /\ x.obj \in Objects[Len(b) - p]
  /\ <<x.obj, SubSeq(b, p + 1, x.next)>> \in Encodings(FALSE)[Len(b) - p]

LEMMA ReadSubs ==
  ASSUME NEW n, NEW v \in Read(n), v.ok
  PROVE  v = [ok |-> TRUE, subs |-> v.subs] /\ v.subs \in Seq(Objects[n])
<1>1. ~ Thrown.ok
  BY DEF Thrown
<1>2. v \in [ok : BOOLEAN, subs : Seq(Objects[n])]
  BY <1>1 DEF Read
<1>3. v = [ok |-> v.ok, subs |-> v.subs] /\ v.ok \in BOOLEAN /\ v.subs \in Seq(Objects[n])
  BY <1>2
<1>4. v.ok = TRUE
  BY <1>3
<1> QED BY <1>3, <1>4

LEMMA NoneEmptyEncodings ==
  ASSUME NEW der, NEW n \in Nat
  PROVE  NoneEmpty(Encodings(der)[n])
<1>1. SUFFICES ASSUME NEW x, NEW y, <<x, y>> \in Encodings(der)[n] PROVE y # <<>>
  BY DEF NoneEmpty
<1>2. n # 0
  BY <1>1, EncodingsAre
<1>3. n - 1 \in Nat /\ (n - 1) + 1 = n
  BY <1>2
<1>4. Encode(x, y, Encodings(der)[n - 1], der)
  BY <1>1, <1>3, EncodingIs
<1> QED BY <1>4 DEF Encode

\* Whether what was read of the content, if anything, is in the object.
Holding(o, b, p, n) ==
  /\ o.tag = Plain(b, p).tag /\ o.value = Plain(b, p).value /\ o.subs \in Seq(Objects[n])
  /\ o = [tag |-> o.tag, value |-> o.value, subs |-> o.subs]
  /\ o.subs = <<>> /\ o.tag.constructed => o.value = <<>>
  /\ o.subs # <<>> => MayHold(o) /\ Tile(o.subs, o.value, Encodings(FALSE)[n])

LEMMA ObjectHolds ==
  ASSUME NEW b \in Seq(Byte), NEW p \in Nat, Header(b, p), NEW inner, Good(b, Begin(b, p), End(b, p), inner),
         NEW n \in Nat, Len(b) = p + (n + 1), ObjectOf(b, p, inner).ok
  PROVE  Holding(ObjectOf(b, p, inner).obj, b, p, n) /\ ObjectOf(b, p, inner).next = End(b, p)
<1> DEFINE plain == Plain(b, p)
           r == ObjectOf(b, p, inner)
           o == r.obj
           m == Len(b) - Begin(b, p)
<1>0. /\ Len(b) \in Nat /\ Begin(b, p) \in p + 2 .. Len(b) /\ End(b, p) \in Begin(b, p) .. Len(b)
  BY HeaderIs
<1>1. m \in Nat /\ m <= n
  BY <1>0
<1>2. Objects[m] \subseteq Objects[n] /\ Encodings(FALSE)[m] \subseteq Encodings(FALSE)[n]
  <2> HIDE DEF m
  <2> QED BY <1>1, ObjectsGrow, EncodingsGrow
<1>3. plain = [tag |-> plain.tag, value |-> plain.value, subs |-> <<>>]
      /\ plain.value = SubSeq(b, Begin(b, p) + 1, End(b, p))
  BY DEF Plain
<1>4. ~ (MustHold(plain) /\ ~ inner.ok) /\ r.next = End(b, p)
      /\ o = IF MayHold(plain) /\ inner.ok THEN [plain EXCEPT !.subs = inner.subs] ELSE plain
  <2>1. ~ Thrown.ok
    BY DEF Thrown
  <2> HIDE DEF plain
  <2> DEFINE x == IF MayHold(plain) /\ inner.ok THEN [plain EXCEPT !.subs = inner.subs] ELSE plain
  <2>2. r = IF MustHold(plain) /\ ~ inner.ok THEN Thrown ELSE [ok |-> TRUE, next |-> End(b, p), obj |-> x]
    BY DEF ObjectOf, plain
  <2> HIDE DEF x, r
  <2>3. r.ok
    BY DEF r
  <2>4. ~ (MustHold(plain) /\ ~ inner.ok)
    BY <2>1, <2>2, <2>3
  <2>5. r = [ok |-> TRUE, next |-> End(b, p), obj |-> x]
    BY <2>2, <2>4
  <2>6. r.next = End(b, p) /\ r.obj = x
    BY <2>5
  <2> QED BY <2>4, <2>6 DEF x
<1> HIDE DEF plain, r, m
<1>5. inner.ok => inner.subs \in Seq(Objects[n]) /\ Tile(inner.subs, plain.value, Encodings(FALSE)[n])
  <2>1. SUFFICES ASSUME inner.ok
                 PROVE  inner.subs \in Seq(Objects[n]) /\ Tile(inner.subs, plain.value, Encodings(FALSE)[n])
    OBVIOUS
  <2>2. inner \in Read(m) /\ Tile(inner.subs, SubSeq(b, Begin(b, p) + 1, End(b, p)), Encodings(FALSE)[m])
    BY <2>1 DEF Good, m
  <2>3. inner.subs \in Seq(Objects[m])
    BY <2>1, <2>2, ReadSubs
  <2>4. inner.subs \in Seq(Objects[n])
    BY <1>2, <2>3, SeqMonotonic
  <2>5. Tile(inner.subs, plain.value, Encodings(FALSE)[n])
    BY <1>2, <1>3, <2>2, TileGrows
  <2> QED BY <2>4, <2>5
<1>6. plain.value \in Seq(Byte)
  <2>1. End(b, p) \in 0 .. Len(b) /\ Begin(b, p) \in 0 .. End(b, p)
    BY <1>0
  <2> QED BY <1>3, <2>1, Cut
<1>7. CASE MayHold(plain) /\ inner.ok
  <2>1. o = [tag |-> plain.tag, value |-> plain.value, subs |-> inner.subs]
    BY <1>3, <1>4, <1>7
  <2>2. o.tag = plain.tag /\ o.value = plain.value /\ o.subs = inner.subs
    BY <2>1
  <2>3. o.subs = <<>> => o.value = <<>>
    BY <1>5, <1>6, <1>7, <2>2, TileOfNone
  <2>4. MayHold(o)
    BY <1>7, <2>2 DEF MayHold, isUniversal
  <2>5. o = [tag |-> o.tag, value |-> o.value, subs |-> o.subs]
    BY <2>1, <2>2
  <2>6. o.subs \in Seq(Objects[n]) /\ Tile(o.subs, o.value, Encodings(FALSE)[n])
    BY <1>5, <1>7, <2>2
  <2>7. o.tag = Plain(b, p).tag /\ o.value = Plain(b, p).value
    BY <2>2 DEF plain
  <2> HIDE DEF o
  <2>8. Holding(o, b, p, n)
    BY <2>3, <2>4, <2>5, <2>6, <2>7 DEF Holding
  <2> QED BY <1>4, <2>8 DEF r, o
<1>8. CASE ~ (MayHold(plain) /\ inner.ok)
  <2>1. o = plain
    BY <1>4, <1>8
  <2>2. plain.subs = <<>> /\ <<>> \in Seq(Objects[n])
    <3>1. plain.subs = <<>>
      BY DEF plain, Plain
    <3> QED BY <3>1, EmptySeq
  <2>3. ~ plain.tag.constructed
    BY <1>4, <1>8 DEF MayHold, MustHold
  <2>5. o = [tag |-> o.tag, value |-> o.value, subs |-> o.subs] /\ o.subs = <<>>
    BY <1>3, <2>1, <2>2
  <2>6. o.subs \in Seq(Objects[n]) /\ ~ o.tag.constructed
    BY <2>1, <2>2, <2>3
  <2>7. o.tag = Plain(b, p).tag /\ o.value = Plain(b, p).value
    BY <2>1 DEF plain
  <2> HIDE DEF o
  <2>8. Holding(o, b, p, n)
    BY <2>5, <2>6, <2>7 DEF Holding
  <2> QED BY <1>4, <2>8 DEF r, o
<1> QED BY <1>7, <1>8 DEF r

LEMMA ObjectIsRead ==
  ASSUME NEW b \in Seq(Byte), NEW p \in Nat, Header(b, p), NEW inner, Good(b, Begin(b, p), End(b, p), inner),
         ObjectOf(b, p, inner).ok
  PROVE  ObjectRead(b, p, ObjectOf(b, p, inner))
<1> DEFINE r == ObjectOf(b, p, inner)
           o == r.obj
           n == Len(b) - (p + 1)
           x == Begin(b, p)
           e == End(b, p)
           c == SubSeq(b, p + 1, e)
<1>0. /\ Len(b) \in Nat /\ p < Len(b) /\ b[p + 1] \in 0 .. 255
      /\ x \in p + 2 .. Len(b) /\ e \in x .. Len(b) /\ States(SubSeq(b, p + 2, x), e - x, FALSE)
  BY HeaderIs
<1>1. n \in Nat /\ Len(b) = p + (n + 1) /\ Len(b) - p = n + 1
  BY <1>0
<1> HIDE DEF n
<1>2. Holding(o, b, p, n) /\ r.next = e
  BY <1>1, ObjectHolds
<1>3. o.tag = ASN1Tag(b[p + 1]) /\ o.value = SubSeq(b, x + 1, e)
  BY <1>2 DEF Holding, Plain
<1> HIDE DEF r, x, e
<1>4. c \in Seq(Byte) /\ Len(c) = e - p /\ c[1] = b[p + 1]
  <2>1. e \in 0 .. Len(b) /\ p \in 0 .. e /\ 1 \in 1 .. e - p
    BY <1>0
  <2>2. c \in Seq(Byte) /\ Len(c) = e - p /\ \A i \in 1 .. e - p : c[i] = b[p + i]
    BY <2>1, Cut
  <2> QED BY <2>1, <2>2
<1>5. o.value \in Seq(Byte) /\ Len(o.value) = e - x
  <2>1. e \in 0 .. Len(b) /\ x \in 0 .. e
    BY <1>0
  <2> QED BY <1>3, <2>1, Cut
<1>6. o.tag \in Tags /\ c[1] = o.tag.number + 64 * o.tag.class + (IF o.tag.constructed THEN 32 ELSE 0)
  <2>1. /\ ASN1Tag(b[p + 1]) \in Tags
        /\ b[p + 1] = ASN1Tag(b[p + 1]).number + 64 * ASN1Tag(b[p + 1]).class
                        + (IF ASN1Tag(b[p + 1]).constructed THEN 32 ELSE 0)
    BY <1>0, TagByte
  <2> QED BY <1>3, <1>4, <2>1
<1>7. o \in Objects[n + 1]
  <2>1. o = [tag |-> o.tag, value |-> o.value, subs |-> o.subs] /\ o.subs \in Seq(Objects[n])
    BY <1>2 DEF Holding
  <2>2. o \in ObjectsOver(Objects[n])
    BY <1>5, <1>6, <2>1 DEF ObjectsOver
  <2> QED BY <1>1, <2>2, ObjectsAre
<1>8. c # <<>>
  <2>1. Len(c) # 0
    BY <1>0, <1>4
  <2> QED BY <2>1, EmptySeq
<1> DEFINE k == x - p
<1>9. k \in 2 .. Len(c) /\ SubSeq(c, 2, k) = SubSeq(b, p + 2, x) /\ SubSeq(c, k + 1, Len(c)) = o.value
  <2>1. k \in 2 .. e - p /\ e \in 0 .. Len(b) /\ p \in 0 .. e /\ k \in 0 .. e - p /\ 1 \in 0 .. k /\ e - p \in 0 .. e - p
        /\ k \in 0 .. (e - p) /\ p + k = x /\ p + (e - p) = e /\ 1 + 1 = 2 /\ p + 1 + 1 = p + 2
    BY <1>0
  <2> HIDE DEF k, c
  <2>2. SubSeq(c, 1 + 1, k) = SubSeq(b, p + 1 + 1, p + k)
    BY <2>1, CutOfCut DEF c
  <2>3. SubSeq(c, k + 1, e - p) = SubSeq(b, p + k + 1, p + (e - p))
    BY <2>1, CutOfCut DEF c
  <2> QED BY <1>3, <1>4, <2>1, <2>2, <2>3
<1>10. Encode(o, c, Encodings(FALSE)[n], FALSE)
  <2>1. \E j \in 2 .. Len(c) : States(SubSeq(c, 2, j), Len(o.value), FALSE) /\ SubSeq(c, j + 1, Len(c)) = o.value
    <3> HIDE DEF k, c, o
    <3> QED BY <1>0, <1>5, <1>9
  <2>2. /\ o.subs = <<>> /\ o.tag.constructed => o.value = <<>>
        /\ o.subs # <<>> => MayHold(o) /\ Tile(o.subs, o.value, Encodings(FALSE)[n])
    BY <1>2 DEF Holding
  <2> HIDE DEF k, c, o
  <2> QED BY <1>6, <1>8, <2>1, <2>2 DEF Encode
<1>11. <<o, c>> \in Encodings(FALSE)[n + 1]
  BY <1>1, <1>4, <1>7, <1>10, EncodingIs
<1>12. r.next \in p + 2 .. Len(b)
  BY <1>0, <1>2
<1> QED BY <1>1, <1>2, <1>7, <1>11, <1>12 DEF ObjectRead, r

-----------------------------------------------------------------------------
(* What Between does from one place to another, given what is there further on. *)
Places(b) == (0 .. Len(b)) \X (0 .. Len(b))
BetweenStep(b, r, g) ==
  LET first == ObjectAt(b, r[1], g)
      rest  == g[<<first.next, r[2]>>]
  IN  IF r[1] >= r[2] THEN [ok |-> r[1] = r[2], subs |-> <<>>]
      ELSE IF first.ok /\ rest.ok THEN [ok |-> TRUE, subs |-> <<first.obj>> \o rest.subs]
      ELSE Thrown

Beyond(b, p, g, h) == \A x \in p + 1 .. Len(b), y \in 0 .. Len(b) : g[<<x, y>>] = h[<<x, y>>]
GoodBeyond(b, p, g) == \A x \in p + 1 .. Len(b), y \in 0 .. Len(b) : Good(b, x, y, g[<<x, y>>])

LEMMA ObjectGood ==
  ASSUME NEW b \in Seq(Byte), NEW p \in Nat, NEW g, GoodBeyond(b, p, g), ObjectAt(b, p, g).ok
  PROVE  /\ ObjectRead(b, p, ObjectAt(b, p, g)) /\ Header(b, p)
         /\ ObjectAt(b, p, g) = ObjectOf(b, p, Inside(b, p, g)) /\ Good(b, Begin(b, p), End(b, p), Inside(b, p, g))
<1>1. Header(b, p)
  <2>1. ~ Thrown.ok
    BY DEF Thrown
  <2> QED BY <2>1, ObjectAtIs
<1>2. ObjectAt(b, p, g) = ObjectOf(b, p, Inside(b, p, g))
  BY <1>1, ObjectAtIs
<1>3. Good(b, Begin(b, p), End(b, p), Inside(b, p, g))
  <2>1. /\ Len(b) \in Nat /\ Begin(b, p) \in p + 2 .. Len(b) /\ End(b, p) \in Begin(b, p) .. Len(b)
    BY <1>1, HeaderIs
  <2>2. Begin(b, p) \in p + 1 .. Len(b) /\ End(b, p) \in 0 .. Len(b)
    BY <2>1
  <2> QED BY <2>2 DEF GoodBeyond, Inside
<1>4. ObjectRead(b, p, ObjectOf(b, p, Inside(b, p, g)))
  BY <1>1, <1>2, <1>3, ObjectIsRead
<1> QED BY <1>1, <1>2, <1>3, <1>4

LEMMA ObjectAlike ==
  ASSUME NEW b \in Seq(Byte), NEW p \in Nat, NEW g, NEW h, Beyond(b, p, g, h)
  PROVE  ObjectAt(b, p, g) = ObjectAt(b, p, h)
<1>1. CASE Header(b, p)
  <2>1. /\ Len(b) \in Nat /\ Begin(b, p) \in p + 2 .. Len(b) /\ End(b, p) \in Begin(b, p) .. Len(b)
    BY <1>1, HeaderIs
  <2>2. Begin(b, p) \in p + 1 .. Len(b) /\ End(b, p) \in 0 .. Len(b)
    BY <2>1
  <2>3. Inside(b, p, g) = Inside(b, p, h)
    BY <2>2 DEF Beyond, Inside
  <2> QED BY <1>1, <2>3, ObjectAtIs
<1>2. CASE ~ Header(b, p)
  BY <1>2, ObjectAtIs
<1> QED BY <1>1, <1>2

LEMMA ObjectNext ==
  ASSUME NEW b \in Seq(Byte), NEW p \in Nat, NEW g, ObjectAt(b, p, g).ok
  PROVE  ObjectAt(b, p, g).next \in p + 2 .. Len(b) /\ Header(b, p) /\ ObjectAt(b, p, g).next = End(b, p)
<1>0. ~ Thrown.ok
  BY DEF Thrown
<1>1. Header(b, p) /\ ObjectAt(b, p, g) = ObjectOf(b, p, Inside(b, p, g))
  BY <1>0, ObjectAtIs
<1>2. ObjectAt(b, p, g).next = End(b, p)
  BY <1>0, <1>1 DEF ObjectOf
<1>3. Len(b) \in Nat /\ Begin(b, p) \in p + 2 .. Len(b) /\ End(b, p) \in Begin(b, p) .. Len(b)
  BY <1>1, HeaderIs
<1>4. End(b, p) \in p + 2 .. Len(b)
  BY <1>3
<1> QED BY <1>1, <1>2, <1>4

LEMMA StepAlike ==
  ASSUME NEW b \in Seq(Byte), NEW p \in 0 .. Len(b), NEW q \in 0 .. Len(b), NEW g, NEW h, Beyond(b, p, g, h)
  PROVE  BetweenStep(b, <<p, q>>, g) = BetweenStep(b, <<p, q>>, h)
<1>0. p \in Nat /\ Len(b) \in Nat
  BY LenProperties
<1>1. ObjectAt(b, p, g) = ObjectAt(b, p, h)
  BY <1>0, ObjectAlike
<1> DEFINE first == ObjectAt(b, p, g)
<1>2. first.ok => g[<<first.next, q>>] = h[<<first.next, q>>]
  <2>1. SUFFICES ASSUME first.ok PROVE g[<<first.next, q>>] = h[<<first.next, q>>]
    OBVIOUS
  <2>2. first.next \in p + 2 .. Len(b)
    BY <1>0, <2>1, ObjectNext
  <2> DEFINE x == first.next
  <2>3. x \in p + 2 .. Len(b)
    BY <2>2
  <2> HIDE DEF x
  <2>4. x \in p + 1 .. Len(b)
    BY <1>0, <2>3
  <2>5. g[<<x, q>>] = h[<<x, q>>]
    BY <2>4 DEF Beyond
  <2> QED BY <2>5 DEF x
<1>3. <<p, q>>[1] = p /\ <<p, q>>[2] = q
  OBVIOUS
<1>4. \A k : BetweenStep(b, <<p, q>>, k) =
        IF p >= q THEN [ok |-> p = q, subs |-> <<>>]
        ELSE IF ObjectAt(b, p, k).ok /\ k[<<ObjectAt(b, p, k).next, q>>].ok
             THEN [ok |-> TRUE, subs |-> <<ObjectAt(b, p, k).obj>> \o k[<<ObjectAt(b, p, k).next, q>>].subs]
        ELSE Thrown
  BY DEF BetweenStep
<1> HIDE DEF first
<1>5. /\ BetweenStep(b, <<p, q>>, g) =
          IF p >= q THEN [ok |-> p = q, subs |-> <<>>]
          ELSE IF first.ok /\ g[<<first.next, q>>].ok
               THEN [ok |-> TRUE, subs |-> <<first.obj>> \o g[<<first.next, q>>].subs]
          ELSE Thrown
      /\ BetweenStep(b, <<p, q>>, h) =
          IF p >= q THEN [ok |-> p = q, subs |-> <<>>]
          ELSE IF first.ok /\ h[<<first.next, q>>].ok
               THEN [ok |-> TRUE, subs |-> <<first.obj>> \o h[<<first.next, q>>].subs]
          ELSE Thrown
  BY <1>1, <1>4 DEF first
<1>6. CASE first.ok
  <2>1. g[<<first.next, q>>] = h[<<first.next, q>>]
    BY <1>2, <1>6
  <2> DEFINE x == g[<<first.next, q>>]
             y == h[<<first.next, q>>]
             none == [ok |-> p = q, subs |-> <<>>]
  <2>2. x = y
    BY <2>1
  <2>3. /\ BetweenStep(b, <<p, q>>, g) =
            IF p >= q THEN none
            ELSE IF first.ok /\ x.ok THEN [ok |-> TRUE, subs |-> <<first.obj>> \o x.subs] ELSE Thrown
        /\ BetweenStep(b, <<p, q>>, h) =
            IF p >= q THEN none
            ELSE IF first.ok /\ y.ok THEN [ok |-> TRUE, subs |-> <<first.obj>> \o y.subs] ELSE Thrown
    BY <1>5
  <2> HIDE DEF x, y, none
  <2> QED BY <2>2, <2>3
<1>7. CASE ~ first.ok
  BY <1>5, <1>7
<1> QED BY <1>6, <1>7

LEMMA StepGood ==
  ASSUME NEW b \in Seq(Byte), NEW p \in 0 .. Len(b), NEW q \in 0 .. Len(b), NEW g, GoodBeyond(b, p, g)
  PROVE  Good(b, p, q, BetweenStep(b, <<p, q>>, g))
<1>0. p \in Nat /\ q \in Nat /\ Len(b) \in Nat /\ Len(b) - p \in Nat /\ q <= Len(b)
  BY LenProperties
<1> DEFINE first == ObjectAt(b, p, g)
           rest == g[<<first.next, q>>]
           v == BetweenStep(b, <<p, q>>, g)
           n == Len(b) - p
           E == Encodings(FALSE)
<1>1. v = IF p >= q THEN [ok |-> p = q, subs |-> <<>>]
          ELSE IF first.ok /\ rest.ok THEN [ok |-> TRUE, subs |-> <<first.obj>> \o rest.subs]
          ELSE Thrown
  BY DEF BetweenStep
<1>2. Thrown \in Read(n) /\ ~ Thrown.ok
  BY DEF Read, Thrown
<1> HIDE DEF first, rest, v, n, E
<1>3. CASE p >= q
  <2> DEFINE k == (p = q)
  <2>1. v = [ok |-> k, subs |-> <<>>] /\ k \in BOOLEAN /\ <<>> \in Seq(Objects[n])
    BY <1>1, <1>3, EmptySeq
  <2>2. v.ok => p <= q /\ SubSeq(b, p + 1, q) = <<>>
    <3>1. SUFFICES ASSUME p = q PROVE p <= q /\ SubSeq(b, p + 1, q) = <<>>
      BY <2>1
    <3>2. p + 1 \in Int /\ q \in Int /\ q < p + 1
      BY <1>0, <3>1
    <3> QED BY <1>0, <3>1, <3>2, SubSeqEmpty
  <2> HIDE DEF k
  <2>3. v \in Read(n) /\ v.subs = <<>>
    BY <2>1 DEF Read
  <2>4. v.ok => Tile(v.subs, SubSeq(b, p + 1, q), E[n])
    BY <2>2, <2>3, TileNone
  <2> QED BY <2>2, <2>3, <2>4 DEF Good, v, n, E
<1>4. CASE ~ (p >= q) /\ first.ok /\ rest.ok
  <2>1. ObjectRead(b, p, first)
    BY <1>0, <1>4, ObjectGood DEF first
  <2> DEFINE m == first.next
             o == first.obj
             k == Len(b) - m
  <2>2. m \in p + 2 .. Len(b) /\ o \in Objects[n] /\ <<o, SubSeq(b, p + 1, m)>> \in E[n]
    BY <2>1 DEF ObjectRead, n, E
  <2>3. Good(b, m, q, rest)
    <3> HIDE DEF m
    <3>1. m \in p + 1 .. Len(b)
      BY <1>0, <2>2
    <3> QED BY <3>1 DEF GoodBeyond, rest, m
  <2>4. rest \in Read(k) /\ m <= q /\ Tile(rest.subs, SubSeq(b, m + 1, q), E[k])
    BY <1>4, <2>3 DEF Good, E
  <2>5. k \in Nat /\ k <= n /\ n \in Nat /\ m \in Nat
    <3> HIDE DEF m
    <3> QED BY <1>0, <2>2 DEF n
  <2> HIDE DEF m, o, k
  <2>6. rest.subs \in Seq(Objects[n])
    <3>1. rest.subs \in Seq(Objects[k])
      BY <1>4, <2>4, ReadSubs
    <3>2. Objects[k] \subseteq Objects[n]
      BY <2>5, ObjectsGrow
    <3> QED BY <3>1, <3>2, SeqMonotonic
  <2>7. Tile(rest.subs, SubSeq(b, m + 1, q), E[n])
    <3>1. E[k] \subseteq E[n]
      BY <2>5, EncodingsGrow DEF E
    <3> QED BY <2>4, <3>1, TileGrows
  <2>8. Tile(<<o>> \o rest.subs, SubSeq(b, p + 1, q), E[n])
    <3>1. Beside(b, p, m, q)
      <4>1. m \in p .. Len(b) /\ q \in m .. Len(b)
        BY <1>0, <2>2, <2>4, <2>5
      <4> QED BY <1>0, <4>1 DEF Beside
    <3>2. NoneEmpty(E[n])
      BY <2>5, NoneEmptyEncodings DEF E
    <3> QED BY <2>2, <2>6, <2>7, <3>1, <3>2, TileCons
  <2>9. <<o>> \o rest.subs \in Seq(Objects[n])
    BY <2>2, <2>6, ConsIs
  <2>10. v = [ok |-> TRUE, subs |-> <<o>> \o rest.subs]
    BY <1>1, <1>4 DEF o
  <2>11. v \in Read(n) /\ v.subs = <<o>> \o rest.subs
    BY <2>9, <2>10 DEF Read
  <2>12. p <= q
    BY <1>0, <1>4
  <2> QED BY <2>8, <2>11, <2>12 DEF Good, v, n, E
<1>5. CASE ~ (p >= q) /\ ~ (first.ok /\ rest.ok)
  <2>1. v = Thrown
    BY <1>1, <1>5
  <2> QED BY <1>2, <2>1 DEF Good, v, n
<1> QED BY <1>3, <1>4, <1>5

BetweenIs(b, f) == f = [r \in Places(b) |-> BetweenStep(b, r, f)]
AllGood(b, f) == \A x, y \in 0 .. Len(b) : Good(b, x, y, f[<<x, y>>])

LEMMA GoodThrown ==
  ASSUME NEW b, NEW p, NEW q
  PROVE  Good(b, p, q, Thrown)
BY DEF Good, Read, Thrown

LEMMA BetweenExists ==
  ASSUME NEW b \in Seq(Byte)
  PROVE  \E f : BetweenIs(b, f) /\ AllGood(b, f)
<1> DEFINE D == Places(b)
           L == Len(b)
           V == [d \in D |-> {v \in Read(L - d[1]) : Good(b, d[1], d[2], v)}]
           rank == [d \in D |-> L - d[1]]
           step == [z \in D \X Valued(D, V) |-> BetweenStep(b, z[1], z[2])]
<1>0. L \in Nat
  BY LenProperties
<1>1. \A d \in D : d[1] \in 0 .. L /\ d[2] \in 0 .. L /\ d = <<d[1], d[2]>>
  BY DEF Places
<1>2. \A x, y \in 0 .. L : <<x, y>> \in D /\ <<x, y>>[1] = x /\ <<x, y>>[2] = y
  BY DEF Places
<1> HIDE DEF D
<1>3. rank \in [D -> Nat]
  <2>1. \A d \in D : L - d[1] \in Nat
    BY <1>0, <1>1
  <2> QED BY <2>1
<1>4. \A d \in D : V[d] # {}
  <2>1. \A d \in D : Thrown \in V[d]
    BY GoodThrown DEF Read
  <2> QED BY <2>1
<1>5. \A d \in D, g \in Valued(D, V) : step[<<d, g>>] = BetweenStep(b, d, g)
  OBVIOUS
<1>6. ASSUME NEW d \in D, NEW g \in Valued(D, V) PROVE BetweenStep(b, d, g) \in V[d]
  <2>1. GoodBeyond(b, d[1], g)
    <3>1. SUFFICES ASSUME NEW x \in d[1] + 1 .. L, NEW y \in 0 .. L PROVE Good(b, x, y, g[<<x, y>>])
      BY DEF GoodBeyond
    <3>2. x \in 0 .. L
      BY <1>0, <1>1
    <3>3. <<x, y>> \in D /\ <<x, y>>[1] = x /\ <<x, y>>[2] = y
      BY <1>2, <3>2
    <3>4. g[<<x, y>>] \in V[<<x, y>>]
      <4> HIDE DEF V
      <4> QED BY <3>3 DEF Valued
    <3>5. V[<<x, y>>] = {v \in Read(L - x) : Good(b, x, y, v)}
      BY <3>3
    <3> HIDE DEF V
    <3> QED BY <3>4, <3>5
  <2>2. Good(b, d[1], d[2], BetweenStep(b, <<d[1], d[2]>>, g))
    <3> DEFINE p == d[1]
               q == d[2]
    <3>1. p \in 0 .. Len(b) /\ q \in 0 .. Len(b) /\ GoodBeyond(b, p, g)
      BY <1>1, <2>1
    <3> HIDE DEF p, q
    <3>2. Good(b, p, q, BetweenStep(b, <<p, q>>, g))
      BY <3>1, StepGood
    <3> QED BY <3>2 DEF p, q
  <2>3. Good(b, d[1], d[2], BetweenStep(b, d, g))
    BY <1>1, <2>2
  <2>4. BetweenStep(b, d, g) \in Read(L - d[1])
    BY <2>3 DEF Good
  <2> QED BY <2>3, <2>4
<1>7. Stepping(D, V, step)
  <2> HIDE DEF V, step
  <2> QED BY <1>5, <1>6 DEF Stepping
<1>8. ASSUME NEW d \in D, NEW g, NEW h, Alike(D, rank, g, h, rank[d])
      PROVE  BetweenStep(b, d, g) = BetweenStep(b, d, h)
  <2> DEFINE p == d[1]
             q == d[2]
  <2>1. p \in 0 .. Len(b) /\ q \in 0 .. Len(b) /\ d = <<p, q>> /\ rank[d] = L - p
    BY <1>1
  <2> HIDE DEF p, q
  <2>2. Beyond(b, p, g, h)
    <3>1. SUFFICES ASSUME NEW x \in p + 1 .. L, NEW y \in 0 .. L PROVE g[<<x, y>>] = h[<<x, y>>]
      BY DEF Beyond
    <3>2. x \in 0 .. L /\ L - x < L - p
      BY <1>0, <2>1
    <3>3. <<x, y>> \in D /\ rank[<<x, y>>] = L - x
      BY <1>2, <3>2
    <3>4. rank[<<x, y>>] < rank[d]
      BY <2>1, <3>2, <3>3
    <3> QED BY <1>8, <3>3, <3>4 DEF Alike
  <2> QED BY <2>1, <2>2, StepAlike
<1>9. Grounded(D, V, rank, step)
  <2> HIDE DEF V, step, rank
  <2>1. \A d \in D : \A g, h \in Valued(D, V) : Alike(D, rank, g, h, rank[d]) => step[<<d, g>>] = step[<<d, h>>]
    <3>1. TAKE d \in D
    <3>2. TAKE g, h \in Valued(D, V)
    <3>3. HAVE Alike(D, rank, g, h, rank[d])
    <3>4. BetweenStep(b, d, g) = BetweenStep(b, d, h)
      BY <1>8, <3>3
    <3> QED BY <1>5, <3>4
  <2> QED BY <2>1 DEF Grounded
<1>10. WellFounded(D, V, rank, step)
  <2> HIDE DEF V, step, rank
  <2> QED BY <1>3, <1>4, <1>7, <1>9 DEF WellFounded
<1>11. PICK f : Solves(f, D, V, step)
  <2> HIDE DEF V, rank, step
  <2> QED BY <1>10, Recursion
<1>12. f = [d \in D |-> f[d]] /\ \A d \in D : f[d] = BetweenStep(b, d, f)
  <2> HIDE DEF V, step
  <2> QED BY <1>5, <1>11 DEF Solves, Valued
<1>13. BetweenIs(b, f)
  <2>1. f = [d \in D |-> BetweenStep(b, d, f)]
    BY <1>12
  <2> QED BY <2>1 DEF BetweenIs, D
<1>14. AllGood(b, f)
  <2>1. SUFFICES ASSUME NEW x \in 0 .. L, NEW y \in 0 .. L PROVE Good(b, x, y, f[<<x, y>>])
    BY DEF AllGood
  <2>2. <<x, y>> \in D /\ <<x, y>>[1] = x /\ <<x, y>>[2] = y
    BY <1>2
  <2>3. f[<<x, y>>] \in V[<<x, y>>]
    <3> HIDE DEF V
    <3> QED BY <1>11, <2>2 DEF Solves, Valued
  <2>4. V[<<x, y>>] = {v \in Read(L - x) : Good(b, x, y, v)}
    BY <2>2
  <2> HIDE DEF V
  <2> QED BY <2>3, <2>4
<1> QED BY <1>13, <1>14

LEMMA BetweenUnique ==
  ASSUME NEW b \in Seq(Byte), NEW f, NEW g, BetweenIs(b, f), BetweenIs(b, g)
  PROVE  f = g
<1>0. Len(b) \in Nat
  BY LenProperties
<1> DEFINE L == Len(b)
           Bad == {n \in Nat : \E x, y \in 0 .. L : n = L - x /\ f[<<x, y>>] # g[<<x, y>>]}
<1>1. \A x, y \in 0 .. L : f[<<x, y>>] = BetweenStep(b, <<x, y>>, f) /\ g[<<x, y>>] = BetweenStep(b, <<x, y>>, g)
  BY DEF BetweenIs, Places
<1>2. Bad = {}
  <2>1. SUFFICES ASSUME Bad # {} PROVE FALSE
    OBVIOUS
  <2>2. PICK n \in Bad : \A m \in Bad : n <= m
    <3>1. Bad \in SUBSET Nat
      OBVIOUS
    <3> HIDE DEF Bad
    <3> QED BY <2>1, <3>1, LeastNumber
  <2>3. PICK x, y \in 0 .. L : n = L - x /\ f[<<x, y>>] # g[<<x, y>>]
    BY <2>2
  <2>4. Beyond(b, x, f, g)
    <3>1. SUFFICES ASSUME NEW z \in x + 1 .. L, NEW w \in 0 .. L PROVE f[<<z, w>>] = g[<<z, w>>]
      BY DEF Beyond
    <3>2. z \in 0 .. L /\ L - z \in Nat /\ ~ (n <= L - z)
      BY <1>0, <2>3
    <3>3. L - z \notin Bad
      BY <2>2, <3>2
    <3> QED BY <3>2, <3>3
  <2>5. BetweenStep(b, <<x, y>>, f) = BetweenStep(b, <<x, y>>, g)
    BY <2>4, StepAlike
  <2> QED BY <1>1, <2>3, <2>5
<1>3. ASSUME NEW x \in 0 .. L, NEW y \in 0 .. L PROVE f[<<x, y>>] = g[<<x, y>>]
  <2>1. L - x \in Nat
    BY <1>0
  <2> QED BY <1>2, <2>1
<1>4. f = [r \in Places(b) |-> f[r]] /\ g = [r \in Places(b) |-> g[r]]
  BY DEF BetweenIs
<1>5. \A r \in Places(b) : f[r] = g[r]
  <2>1. \A r \in Places(b) : \E x, y \in 0 .. L : r = <<x, y>>
    BY DEF Places
  <2> QED BY <1>3, <2>1
<1> QED BY <1>4, <1>5

LEMMA BetweenIsThat ==
  ASSUME NEW b \in Seq(Byte)
  PROVE  BetweenIs(b, Between(b)) /\ AllGood(b, Between(b))
<1>1. Between(b) = CHOOSE f : BetweenIs(b, f)
  BY Zenon DEF Between, BetweenIs, BetweenStep, Places
<1>2. PICK f : BetweenIs(b, f) /\ AllGood(b, f)
  BY BetweenExists
<1>3. BetweenIs(b, Between(b))
  BY <1>1, <1>2
<1>4. Between(b) = f
  BY <1>2, <1>3, BetweenUnique
<1> QED BY <1>2, <1>4

\* What is read of bytes is what some of them stand for.
LEMMA ParsedIsThere ==
  ASSUME NEW b \in Seq(Byte), parseBuffer(b).ok, MaxDepth \in Nat, Len(b) <= MaxDepth
  PROVE  \E n \in 1 .. Len(b) : Encodes(parseBuffer(b).obj, SubSeq(b, 1, n), FALSE)
<1> DEFINE x == parseBuffer(b)
<1>0. Len(b) \in Nat
  BY LenProperties
<1>1. x = ObjectAt(b, 0, Between(b))
  BY DEF parseBuffer, parseStream
<1>2. GoodBeyond(b, 0, Between(b))
  <2>1. \A i \in 0 + 1 .. Len(b) : i \in 0 .. Len(b)
    BY <1>0
  <2> QED BY <2>1, BetweenIsThat DEF AllGood, GoodBeyond
<1>3. ObjectRead(b, 0, x)
  BY <1>1, <1>2, ObjectGood
<1> HIDE DEF x
<1> DEFINE n == x.next
<1>4. n \in 2 .. Len(b) /\ <<x.obj, SubSeq(b, 1, n)>> \in Encodings(FALSE)[Len(b)]
  <2>1. 0 + 2 = 2 /\ 0 + 1 = 1 /\ Len(b) - 0 = Len(b)
    BY <1>0
  <2> QED BY <1>3, <2>1 DEF ObjectRead
<1>5. Encodings(FALSE)[Len(b)] \subseteq Encodings(FALSE)[MaxDepth]
  BY <1>0, EncodingsGrow
<1>6. Encodes(x.obj, SubSeq(b, 1, n), FALSE)
  BY <1>4, <1>5 DEF Encodes
<1> HIDE DEF n
<1>7. n \in 1 .. Len(b)
  BY <1>0, <1>4
<1> QED BY <1>6, <1>7 DEF x

-----------------------------------------------------------------------------
(* Any few bytes stay what they are; what is read of them is cloned.         *)
BytesInv ==
  doc.as = "bytes" =>
    /\ doc.bytes \in Seq(Byte) /\ Len(doc.bytes) <= MaxBytes
    /\ stage \in {"bytes", "read", "cloned"}
    /\ stage = "read" => object = parseBuffer(doc.bytes)
    /\ stage = "cloned" => parseBuffer(doc.bytes).ok /\ object = clone(parseBuffer(doc.bytes).obj)

LEMMA BoundsAre == Bytes \subseteq Byte /\ MaxBytes \in Nat /\ MaxDepth \in Nat /\ MaxBytes <= MaxDepth
BY Zenon, BytesAssumption, DepthAssumption

LEMMA BytesInvInit == Init => BytesInv
<1>1. CASE InclusionInit /\ NoDocument
  BY <1>1 DEF NoDocument, BytesInv
<1>2. CASE DocumentInit
  <2>0. stage = "bytes"
    BY <1>2 DEF DocumentInit
  <2>1. ASSUME NEW n \in 0 .. MaxBytes, NEW b \in [1 .. n -> Bytes], doc = [as |-> "bytes", bytes |-> b]
        PROVE  BytesInv
    <3>1. n \in Nat /\ n <= MaxBytes
      BY BoundsAre
    <3>2. b \in [1 .. n -> Byte]
      BY BoundsAre
    <3>3. b \in Seq(Byte) /\ Len(b) = n
      BY <3>1, <3>2
    <3>4. doc.bytes = b
      BY <2>1
    <3> QED BY <2>0, <3>1, <3>3, <3>4 DEF BytesInv
  <2>2. CASE \E tag \in {1, 2, 3, 4, 6}, n \in 1 .. 3 : \E v \in [1 .. n -> Edges] :
               doc = [as |-> "value", bytes |-> SEQ(<<TLV(tag, v)>>), tag |-> tag, value |-> v]
    BY <2>2 DEF BytesInv
  <2>3. CASE \E scts \in Lists, damage \in {"none", "behind", "cut", "short", "longer"} :
               /\ scts = <<>> => damage \in {"none", "behind"}
               /\ doc = [as |-> "scts", scts |-> scts, damage |-> damage, bytes |-> Damaged(scts, damage)]
    BY <2>3 DEF BytesInv
  <2>4. CASE \E exts \in ExtensionLists, validity \in Validities :
               LET c == [serial |-> <<0, 200>>, issuer |-> <<105>>, subject |-> <<115>>, key |-> <<107>>,
                         from |-> validity[1], until |-> validity[2], exts |-> exts, signature |-> <<103>>]
               IN  doc = [as |-> "certificate", says |-> c, bytes |-> Certificate(c)]
    BY <2>4 DEF BytesInv
  <2>5. CASE \E t \in Responses : doc = [as |-> "response", says |-> t, bytes |-> Response(t)]
    BY <2>5 DEF BytesInv
  <2> QED BY <1>2, <2>1, <2>2, <2>3, <2>4, <2>5 DEF DocumentInit
<1> QED BY <1>1, <1>2 DEF Init

LEMMA BytesInvNext == BytesInv /\ [Next]_vars => BytesInv'
<1> SUFFICES ASSUME BytesInv, [Next]_vars, doc'.as = "bytes"
             PROVE  BytesInv'
  BY DEF BytesInv
<1>1. doc' = doc
  BY DEF Next, DocumentNext, Parse, ReadSCTs, Clone, PreCert, vars, documentVars
<1>2. doc.as = "bytes" /\ BytesInv
  BY <1>1
<1>3. CASE Parse
  BY <1>1, <1>2, <1>3 DEF Parse, BytesInv
<1>4. CASE Clone
  BY <1>1, <1>2, <1>4 DEF Clone, BytesInv
<1>5. CASE UNCHANGED documentVars
  BY <1>1, <1>2, <1>5 DEF documentVars, BytesInv
<1>6. ~ ReadSCTs /\ ~ PreCert
  BY <1>2 DEF ReadSCTs, PreCert
<1> QED BY <1>3, <1>4, <1>5, <1>6 DEF Next, DocumentNext, vars

(* Whatever bytes there are, as many as there are levels at most: what is read  *)
(* of them is what some of them, from the first on, stand for (parseStream,    *)
(* obj.ts, and decodeLength, length.ts).                                    *)
THEOREM ReadHolds == Spec => []ReadIsWhatIsThere
<1>1. BytesInv => ReadIsWhatIsThere
  <2>1. SUFFICES ASSUME BytesInv, doc.as = "bytes", stage = "read", object.ok
                 PROVE  \E n \in 1 .. Len(doc.bytes) : Encodes(object.obj, SubSeq(doc.bytes, 1, n), FALSE)
    BY DEF ReadIsWhatIsThere
  <2> DEFINE b == doc.bytes
  <2>2. b \in Seq(Byte) /\ Len(b) <= MaxBytes /\ object = parseBuffer(b)
    BY <2>1 DEF BytesInv
  <2> HIDE DEF b
  <2>3. Len(b) <= MaxDepth /\ MaxDepth \in Nat
    <3>1. Len(b) \in Nat
      BY <2>2, LenProperties
    <3> QED BY <2>2, <3>1, BoundsAre
  <2>4. \E n \in 1 .. Len(b) : Encodes(object.obj, SubSeq(b, 1, n), FALSE)
    BY <2>1, <2>2, <2>3, ParsedIsThere
  <2> QED BY <2>4 DEF b
<1>2. Init => BytesInv
  BY BytesInvInit
<1>3. BytesInv /\ [Next]_vars => BytesInv'
  BY BytesInvNext
<1> QED BY <1>1, <1>2, <1>3, PTL DEF Spec

-----------------------------------------------------------------------------
(* What is written to a stream, by however much it grows, is what was appended. *)
Streams(S) == {s \in [view : Seq(S), start : Nat] : s.start <= Len(s.view)}

LEMMA BlockIs == BLOCK_SIZE \in Nat /\ BLOCK_SIZE # 0
BY BlockSizeAssumption

LEMMA CapacityIs ==
  ASSUME NEW S, 0 \in S, NEW s \in Streams(S), NEW size \in Nat
  PROVE  LET t == ensureCapacity(s, size)
         IN  /\ t \in [view : Seq(S), start : Nat] /\ t.start = s.start /\ s.start + size <= Len(t.view)
             /\ Len(s.view) <= Len(t.view) /\ \A i \in 1 .. Len(s.view) : t.view[i] = s.view[i]
<1> DEFINE t == ensureCapacity(s, size)
           more == BLOCK_SIZE + (IF size > BLOCK_SIZE THEN size ELSE 0)
           v == s.view
<1>0. s = [view |-> s.view, start |-> s.start] /\ v \in Seq(S) /\ s.start \in Nat /\ s.start <= Len(v)
  BY DEF Streams
<1>1. Len(v) \in Nat /\ more \in Nat /\ size <= more
  <2>1. Len(v) \in Nat
    BY <1>0, LenProperties
  <2>2. CASE size > BLOCK_SIZE
    BY <2>1, <2>2, BlockIs
  <2>3. CASE ~ (size > BLOCK_SIZE)
    BY <2>1, <2>3, BlockIs
  <2> QED BY <2>2, <2>3
<1> HIDE DEF more, v
<1>2. CASE s.start + size <= Len(s.view)
  <2>1. t = s
    BY <1>2 DEF ensureCapacity
  <2>2. s \in [view : Seq(S), start : Nat]
    BY DEF Streams
  <2> HIDE DEF t
  <2> QED BY <1>0, <1>1, <1>2, <2>1, <2>2 DEF t, v
<1>3. CASE ~ (s.start + size <= Len(s.view))
  <2> DEFINE w == v \o Zeros(more)
  <2>1. t = [s EXCEPT !.view = w]
    BY <1>3 DEF ensureCapacity, more, v
  <2>2. t.view = w /\ t.start = s.start /\ t = [view |-> w, start |-> s.start]
    BY <1>0, <2>1
  <2>3. Zeros(more) \in Seq(S) /\ Len(Zeros(more)) = more
    BY <1>1 DEF Zeros
  <2>4. w \in Seq(S) /\ Len(w) = Len(v) + more
    BY <1>0, <2>3, ConcatProperties
  <2>5. \A i \in 1 .. Len(v) : w[i] = v[i]
    BY <1>0, <2>3, ConcatFirst
  <2> HIDE DEF t, w
  <2>6. s.start + size <= Len(w) /\ Len(v) <= Len(w)
    <3> DEFINE x == s.start
               y == Len(v)
               z == Len(w)
    <3>1. x \in Nat /\ y \in Nat /\ x <= y /\ z = y + more
      BY <1>0, <1>1, <2>4
    <3> HIDE DEF x, y, z
    <3>2. x + size <= z /\ y <= z
      BY <1>1, <3>1
    <3> QED BY <3>2 DEF x, y, z
  <2>7. t \in [view : Seq(S), start : Nat]
    BY <1>0, <2>2, <2>4
  <2> QED BY <2>2, <2>5, <2>6, <2>7 DEF t, v
<1> QED BY <1>2, <1>3

LEMMA AppendStream ==
  ASSUME NEW S, 0 \in S, NEW s \in Streams(S), NEW c \in Seq(S)
  PROVE  /\ append(s, c) \in Streams(S)
         /\ SubSeq(append(s, c).view, 1, append(s, c).start) = SubSeq(s.view, 1, s.start) \o c
<1> DEFINE t == ensureCapacity(s, Len(c))
           r == append(s, c)
           Put(i) == IF i - t.start \in DOMAIN c THEN c[i - t.start] ELSE t.view[i]
           w == [i \in DOMAIN t.view |-> Put(i)]
           a == s.start
           n == Len(c)
           m == Len(t.view)
<1>0. s.view \in Seq(S) /\ a \in Nat /\ a <= Len(s.view) /\ n \in Nat /\ DOMAIN c = 1 .. n /\ Len(s.view) \in Nat
  BY LenProperties DEF Streams
<1>1. /\ t \in [view : Seq(S), start : Nat] /\ t.start = a /\ a + n <= m
      /\ Len(s.view) <= m /\ \A i \in 1 .. Len(s.view) : t.view[i] = s.view[i]
  <2> HIDE DEF t
  <2> QED BY <1>0, CapacityIs DEF t
<1>2. t.view \in Seq(S) /\ m \in Nat /\ DOMAIN t.view = 1 .. m
  BY <1>1, LenProperties
<1>3. r = [view |-> w, start |-> a + n]
  BY <1>1 DEF append
<1> HIDE DEF t, r, n, m, a
<1>4. ASSUME NEW i \in 1 .. m PROVE Put(i) \in S
  <2>1. CASE i - a \in 1 .. n
    <3>1. c[i - a] \in S
      BY <1>0, <2>1, ElementOfSeq DEF n
    <3> QED BY <1>0, <1>1, <2>1, <3>1
  <2>2. CASE ~ (i - a \in 1 .. n)
    <3>1. t.view[i] \in S
      BY <1>2, ElementOfSeq DEF m
    <3> QED BY <1>0, <1>1, <2>2, <3>1
  <2> QED BY <2>1, <2>2
<1>5. w \in Seq(S) /\ Len(w) = m
  <2> HIDE DEF Put
  <2>1. w = [i \in 1 .. m |-> Put(i)]
    BY <1>2
  <2> HIDE DEF w
  <2>2. w \in [1 .. m -> S]
    BY <1>4, <2>1
  <2> QED BY <1>2, <2>2
<1>6. \A i \in 1 .. m : w[i] = IF i - a \in 1 .. n THEN c[i - a] ELSE t.view[i]
  BY <1>0, <1>1, <1>2
<1> HIDE DEF w, Put
<1>7. r \in Streams(S)
  <2>1. r.view = w /\ r.start = a + n /\ a + n \in Nat
    BY <1>0, <1>3
  <2>2. r \in [view : Seq(S), start : Nat]
    BY <1>3, <1>5, <2>1
  <2> QED BY <1>1, <1>5, <2>1, <2>2 DEF Streams
<1> DEFINE x == SubSeq(w, 0 + 1, a + n)
           y == SubSeq(s.view, 0 + 1, a)
           z == y \o c
<1>8. x \in Seq(S) /\ Len(x) = a + n /\ \A i \in 1 .. a + n : x[i] = w[0 + i]
  <2>1. a + n \in 0 .. Len(w) /\ 0 \in 0 .. a + n /\ (a + n) - 0 = a + n
    BY <1>0, <1>1, <1>2, <1>5
  <2>2. x \in Seq(S) /\ Len(x) = (a + n) - 0 /\ \A i \in 1 .. (a + n) - 0 : x[i] = w[0 + i]
    BY <1>5, <2>1, Cut
  <2> HIDE DEF x
  <2> QED BY <2>1, <2>2
<1>9. y \in Seq(S) /\ Len(y) = a /\ \A i \in 1 .. a : y[i] = s.view[0 + i]
  <2>1. a \in 0 .. Len(s.view) /\ 0 \in 0 .. a /\ a - 0 = a
    BY <1>0
  <2>2. y \in Seq(S) /\ Len(y) = a - 0 /\ \A i \in 1 .. a - 0 : y[i] = s.view[0 + i]
    BY <1>0, <2>1, Cut
  <2> HIDE DEF y
  <2> QED BY <2>1, <2>2
<1> HIDE DEF x, y
<1>10. z \in Seq(S) /\ Len(z) = a + n /\ \A i \in 1 .. a + n : z[i] = IF i <= a THEN y[i] ELSE c[i - a]
  BY <1>9, ConcatProperties DEF n
<1> HIDE DEF z
<1>11. ASSUME NEW i \in 1 .. a + n PROVE x[i] = z[i]
  <2>1. i \in 1 .. m /\ 0 + i = i
    BY <1>0, <1>1, <1>2
  <2>2. CASE i <= a
    <3>1. i \in 1 .. a /\ ~ (i - a \in 1 .. n) /\ i \in 1 .. Len(s.view)
      BY <1>0, <2>2
    <3> QED BY <1>1, <1>6, <1>8, <1>9, <1>10, <2>1, <2>2, <3>1
  <2>3. CASE ~ (i <= a)
    <3>1. i - a \in 1 .. n
      BY <1>0, <2>3
    <3> QED BY <1>6, <1>8, <1>10, <2>1, <2>3, <3>1
  <2> QED BY <2>2, <2>3
<1>12. x = z
  BY <1>8, <1>10, <1>11, SeqEqual
<1>13. r.view = w /\ r.start = a + n /\ 0 + 1 = 1
  BY <1>3
<1>14. SubSeq(r.view, 1, r.start) = x
  BY <1>13 DEF x
<1>15. SubSeq(s.view, 1, s.start) = y
  BY <1>13 DEF y, a
<1> QED BY <1>7, <1>12, <1>14, <1>15 DEF r, z

StreamIs(f, parts) ==
  f = [k \in 0 .. Len(parts) |-> IF k = 0 THEN EmptyStream ELSE append(f[k - 1], parts[k])]

LEMMA StreamExists ==
  ASSUME NEW S, 0 \in S, NEW parts \in Seq(Seq(S))
  PROVE  \E f : StreamIs(f, parts)
<1> DEFINE D == 0 .. Len(parts)
           V == [d \in D |-> Streams(S)]
           rank == [d \in D |-> d]
           body(d, g) == IF d = 0 THEN EmptyStream ELSE append(g[d - 1], parts[d])
           step == [z \in D \X Valued(D, V) |-> body(z[1], z[2])]
<1>0. Len(parts) \in Nat /\ EmptyStream \in Streams(S)
  <2>1. <<>> \in Seq(S) /\ Len(<<>>) = 0
    BY EmptySeq
  <2> QED BY <2>1, LenProperties DEF EmptyStream, Streams
<1>1. rank \in [D -> Nat]
  BY <1>0
<1>2. \A d \in D : V[d] # {}
  BY <1>0
<1>3. \A d \in D, g \in Valued(D, V) : step[<<d, g>>] = body(d, g)
  OBVIOUS
<1>4. ASSUME NEW d \in D, NEW g \in Valued(D, V) PROVE body(d, g) \in Streams(S)
  <2>1. CASE d = 0
    BY <1>0, <2>1
  <2>2. CASE d # 0
    <3>1. d - 1 \in D /\ d \in 1 .. Len(parts)
      BY <1>0, <2>2
    <3>2. g[d - 1] \in Streams(S)
      BY <3>1 DEF Valued
    <3>3. parts[d] \in Seq(S)
      BY <3>1, ElementOfSeq
    <3>4. append(g[d - 1], parts[d]) \in Streams(S)
      BY <3>2, <3>3, AppendStream
    <3> QED BY <2>2, <3>4
  <2> QED BY <2>1, <2>2
<1>5. Stepping(D, V, step)
  <2>1. \A d \in D : V[d] = Streams(S)
    OBVIOUS
  <2> HIDE DEF D, V, body, step
  <2> QED BY ZenonT(40), <1>3, <1>4, <2>1 DEF Stepping
<1>6. ASSUME NEW d \in D, NEW g, NEW h, Alike(D, rank, g, h, rank[d])
      PROVE  body(d, g) = body(d, h)
  <2>1. CASE d = 0
    BY <2>1
  <2>2. CASE d # 0
    <3>1. d - 1 \in D /\ rank[d - 1] < rank[d]
      BY <1>0, <2>2
    <3>2. g[d - 1] = h[d - 1]
      BY <1>6, <3>1 DEF Alike
    <3> QED BY <3>2
  <2> QED BY <2>1, <2>2
<1>7. Grounded(D, V, rank, step)
  <2> HIDE DEF D, V, rank, body, step
  <2>1. \A d \in D : \A g, h \in Valued(D, V) : Alike(D, rank, g, h, rank[d]) => step[<<d, g>>] = step[<<d, h>>]
    <3>1. TAKE d \in D
    <3>2. TAKE g, h \in Valued(D, V)
    <3>3. HAVE Alike(D, rank, g, h, rank[d])
    <3>4. body(d, g) = body(d, h)
      BY <1>6, <3>3
    <3> QED BY <1>3, <3>4
  <2> QED BY <2>1 DEF Grounded
<1>8. WellFounded(D, V, rank, step)
  BY <1>1, <1>2, <1>5, <1>7 DEF WellFounded
<1>9. PICK f : Solves(f, D, V, step)
  <2> HIDE DEF D, V, rank, step
  <2> QED BY <1>8, Recursion
<1>10. f = [d \in D |-> f[d]] /\ \A d \in D : f[d] = body(d, f)
  <2> HIDE DEF V, step, D, body
  <2> QED BY <1>3, <1>9 DEF Solves, Valued
<1>11. f = [d \in D |-> body(d, f)]
  <2> HIDE DEF D, body
  <2> QED BY <1>10
<1>12. StreamIs(f, parts)
  BY <1>11 DEF StreamIs
<1> QED BY <1>12

\* What is written is what was appended, one after the other (Written, stream.ts).
LEMMA WrittenIs ==
  ASSUME NEW S, 0 \in S, NEW parts \in Seq(Seq(S))
  PROVE  Written(parts) = FlattenSeq(parts) /\ Written(parts) \in Seq(S)
<1> DEFINE f == CHOOSE f : StreamIs(f, parts)
           n == Len(parts)
<1>1. Written(parts) = buffer(f[n])
  BY Zenon DEF Written, StreamIs
<1>2. StreamIs(f, parts)
  BY StreamExists
<1> HIDE DEF f
<1>3. PICK acc : Joins(acc, parts, S)
  BY JoinsExists
<1>4. acc \in [0 .. n -> Seq(S)] /\ acc[0] = <<>> /\ \A k \in 1 .. n : acc[k] = acc[k - 1] \o parts[k]
  BY <1>3 DEF Joins
<1>5. n \in Nat
  BY LenProperties
<1> HIDE DEF n
<1>6. f[0] = EmptyStream /\ \A k \in 1 .. n : f[k] = append(f[k - 1], parts[k])
  <2>1. \A k \in 0 .. n : f[k] = IF k = 0 THEN EmptyStream ELSE append(f[k - 1], parts[k])
    BY <1>2 DEF StreamIs, n
  <2>2. 0 \in 0 .. n /\ \A k \in 1 .. n : k \in 0 .. n /\ k # 0
    BY <1>5
  <2> QED BY <2>1, <2>2
<1> DEFINE Right(k) == f[k] \in Streams(S) /\ SubSeq(f[k].view, 1, f[k].start) = acc[k]
           Bad == {k \in 0 .. n : ~ Right(k)}
<1>7. Bad = {}
  <2>1. SUFFICES ASSUME Bad # {} PROVE FALSE
    OBVIOUS
  <2>2. PICK k \in Bad : \A j \in Bad : k <= j
    <3>1. Bad \in SUBSET Nat
      BY <1>5
    <3> HIDE DEF Bad
    <3> QED BY <2>1, <3>1, LeastNumber
  <2>3. k \in 0 .. n /\ ~ Right(k)
    BY <2>2
  <2>4. CASE k = 0
    <3>1. <<>> \in Seq(S) /\ Len(<<>>) = 0 /\ SubSeq(<<>>, 1, 0) = <<>>
      BY EmptySeq, SubSeqEmpty
    <3>2. EmptyStream \in Streams(S)
      BY <3>1 DEF EmptyStream, Streams
    <3>3. EmptyStream.view = <<>> /\ EmptyStream.start = 0
      BY DEF EmptyStream
    <3> QED BY <1>4, <1>6, <2>3, <2>4, <3>1, <3>2, <3>3
  <2>5. CASE k # 0
    <3>1. k \in 1 .. n /\ k - 1 \in 0 .. n /\ ~ (k <= k - 1)
      BY <1>5, <2>3, <2>5
    <3>2. Right(k - 1)
      <4> HIDE DEF Right
      <4> QED BY <2>2, <3>1
    <3>3. parts[k] \in Seq(S)
      BY <3>1, ElementOfSeq DEF n
    <3> DEFINE s == f[k - 1]
    <3>4. s \in Streams(S) /\ SubSeq(s.view, 1, s.start) = acc[k - 1]
      BY <3>2
    <3>5. f[k] = append(s, parts[k]) /\ acc[k] = acc[k - 1] \o parts[k]
      BY <1>4, <1>6, <3>1
    <3> HIDE DEF s
    <3>6. /\ append(s, parts[k]) \in Streams(S)
          /\ SubSeq(append(s, parts[k]).view, 1, append(s, parts[k]).start) = SubSeq(s.view, 1, s.start) \o parts[k]
      BY <3>3, <3>4, AppendStream
    <3> QED BY <2>3, <3>4, <3>5, <3>6
  <2> QED BY <2>4, <2>5
<1>8. Right(n)
  <2>1. n \in 0 .. n
    BY <1>5
  <2> HIDE DEF Right
  <2> QED BY <1>7, <2>1
<1>9. buffer(f[n]) = acc[n]
  <2>1. f[n].start <= Len(f[n].view)
    BY <1>8 DEF Streams
  <2> QED BY <1>8, <2>1 DEF buffer
<1>10. acc[n] \in Seq(S)
  BY <1>4, <1>5
<1>11. FlattenSeq(parts) = acc[n]
  BY <1>3, JoinsIs DEF n
<1> QED BY <1>1, <1>9, <1>10, <1>11

LEMMA FlattenNone == FlattenSeq(<<>>) = <<>>
<1>1. <<>> \in Seq(Seq(Nat)) /\ Len(<<>>) = 0
  BY EmptySeq
<1>2. PICK acc : Joins(acc, <<>>, Nat)
  BY <1>1, JoinsExists
<1>3. FlattenSeq(<<>>) = acc[0]
  BY <1>1, <1>2, JoinsIs
<1> QED BY <1>2, <1>3 DEF Joins

LEMMA FlattenCons ==
  ASSUME NEW S, NEW x \in Seq(S), NEW seqs \in Seq(Seq(S))
  PROVE  FlattenSeq(<<x>> \o seqs) = x \o FlattenSeq(seqs) /\ FlattenSeq(seqs) \in Seq(S)
<1> DEFINE all == <<x>> \o seqs
           w == FlattenSeq(seqs)
           b == x \o w
           n == Len(seqs)
           l == Len(x)
<1>1. all \in Seq(Seq(S)) /\ Len(all) = n + 1 /\ n \in Nat /\ all[1] = x /\ \A i \in 1 .. n : all[i + 1] = seqs[i]
  BY ConsIs
<1>2. PICK at : Cuts(at, seqs, w)
  BY FlattenCuts
<1>3. w \in Seq(S)
  BY FlattenCuts
<1>4. b \in Seq(S) /\ Len(b) = l + Len(w) /\ l \in Nat /\ Len(w) \in Nat
  BY <1>3, Concat
<1> HIDE DEF all, b, w
<1>5. /\ at \in [0 .. n -> Nat] /\ at[0] = 0 /\ at[n] = Len(w)
      /\ \A k \in 1 .. n : at[k] = at[k - 1] + Len(seqs[k]) /\ at[k] <= Len(w) /\ SubSeq(w, at[k - 1] + 1, at[k]) = seqs[k]
  BY <1>2 DEF Cuts
<1> DEFINE new == [k \in 0 .. n + 1 |-> IF k = 0 THEN 0 ELSE l + at[k - 1]]
<1> HIDE DEF n, l
<1>6. new \in [0 .. n + 1 -> Nat] /\ new[0] = 0 /\ new[n + 1] = Len(b)
  <2>1. \A k \in 0 .. n + 1 : k # 0 => k - 1 \in 0 .. n
    BY <1>1
  <2>2. \A k \in 0 .. n + 1 : (IF k = 0 THEN 0 ELSE l + at[k - 1]) \in Nat
    BY <1>4, <1>5, <2>1
  <2>3. 0 \in 0 .. n + 1 /\ n + 1 \in 0 .. n + 1 /\ n + 1 # 0 /\ (n + 1) - 1 = n
    BY <1>1
  <2> QED BY <1>4, <1>5, <2>2, <2>3
<1>7. ASSUME NEW k \in 1 .. n + 1
      PROVE  new[k] = new[k - 1] + Len(all[k]) /\ new[k] <= Len(b) /\ SubSeq(b, new[k - 1] + 1, new[k]) = all[k]
  <2>1. CASE k = 1
    <3>1. 1 \in 0 .. n + 1 /\ 1 - 1 = 0
      BY <1>1
    <3>2. new[1] = l + at[0]
      BY <3>1
    <3>3. new[0] = 0 /\ new[1] = l
      BY <1>4, <1>5, <1>6, <3>2
    <3>4. SubSeq(b, 1, l) = x
      BY <1>3, CutParts DEF b, l
    <3>5. l = 0 + l /\ l <= Len(b) /\ 0 + 1 = 1
      BY <1>4
    <3> HIDE DEF new
    <3> QED BY <1>1, <2>1, <3>1, <3>3, <3>4, <3>5 DEF l
  <2>2. CASE k # 1
    <3>1. k - 1 \in 1 .. n /\ (k - 1) + 1 = k /\ k \in 0 .. n + 1 /\ k - 1 \in 0 .. n + 1 /\ k # 0 /\ k - 1 # 0
          /\ k - 1 \in 0 .. n /\ (k - 1) - 1 \in 0 .. n
      BY <1>1, <2>2
    <3> DEFINE i == at[(k - 1) - 1]
               j == at[k - 1]
               e == seqs[k - 1]
    <3>2. new[k] = l + j /\ new[k - 1] = l + i
      BY <3>1
    <3>3. j = i + Len(e) /\ j <= Len(w) /\ SubSeq(w, i + 1, j) = e
      BY <1>5, <3>1
    <3>4. i \in Nat /\ j \in Nat
      BY <1>5, <3>1
    <3>5. e \in Seq(S)
      BY <3>1, ElementOfSeq DEF n
    <3>6. all[k] = e
      BY <1>1, <3>1
    <3> HIDE DEF i, j, e, new
    <3>7. Len(e) \in Nat
      BY <3>5, LenProperties
    <3> DEFINE m == Len(e)
    <3>8. m \in Nat /\ j = i + m
      BY <3>3, <3>7
    <3> HIDE DEF m
    <3>9. j \in 0 .. Len(w) /\ i \in 0 .. j /\ l + j = (l + i) + m /\ l + j <= Len(b)
      <4> DEFINE y == Len(w)
                 z == Len(b)
      <4>1. y \in Nat /\ z = l + y /\ l \in Nat /\ j <= y
        BY <1>4, <3>3
      <4> HIDE DEF y, z
      <4>2. j \in 0 .. y /\ i \in 0 .. j
        BY <3>4, <3>8, <4>1
      <4>3. l + j = (l + i) + m /\ l + j <= z
        BY <3>4, <3>8, <4>1
      <4> QED BY <4>2, <4>3 DEF y, z
    <3>10. SubSeq(b, l + i + 1, l + j) = SubSeq(w, i + 1, j)
      BY <1>3, <3>9, CutRight DEF b, l
    <3> QED BY <3>2, <3>3, <3>6, <3>9, <3>10 DEF m
  <2> QED BY <2>1, <2>2
<1>8. Cuts(new, all, b)
  <2> HIDE DEF new
  <2> QED BY <1>1, <1>6, <1>7 DEF Cuts
<1>9. FlattenSeq(all) = b
  <2> HIDE DEF new
  <2> QED BY <1>1, <1>4, <1>8, CutsFlatten
<1> QED BY <1>3, <1>9 DEF all, b, w

LEMMA FlattenOne ==
  ASSUME NEW S, NEW x \in Seq(S)
  PROVE  FlattenSeq(<<x>>) = x
<1>1. <<>> \in Seq(Seq(S)) /\ <<x>> \in Seq(Seq(S))
  BY EmptySeq
<1>2. <<x>> \o <<>> = <<x>>
  BY <1>1, ConcatEmptySeq
<1>3. FlattenSeq(<<x>> \o <<>>) = x \o FlattenSeq(<<>>)
  BY <1>1, FlattenCons
<1>4. x \o <<>> = x
  BY ConcatEmptySeq
<1> QED BY <1>2, <1>3, <1>4, FlattenNone

-----------------------------------------------------------------------------
(* The bytes that are written of an object.                                *)
Each(s, g)   == [k \in 1 .. Len(s) |-> g[s[k]]]
Inner(o, g)  == IF o.subs # <<>> THEN FlattenSeq(Each(o.subs, g)) ELSE o.value
Wrap(tag, c) == <<tagToDER(tag)>> \o encodeLength(Len(c)) \o c

LEMMA ByteSeq ==
  ASSUME NEW c \in Seq(Byte)
  PROVE  c \in Seq(Nat)
BY ByteIsNat, SeqMonotonic

LEMMA TagIsByte ==
  ASSUME NEW tag \in Tags
  PROVE  tagToDER(tag) \in Byte /\ tagToDER(tag) \in 0 .. 255 /\ ASN1Tag(tagToDER(tag)) = tag
<1> DEFINE n == tag.number
           k == tag.constructed
           d == tag.class
           c == IF k THEN 1 ELSE 0
           x == tagToDER(tag)
<1>1. n \in 0 .. 31 /\ k \in BOOLEAN /\ d \in 0 .. 3 /\ tag = [number |-> n, constructed |-> k, class |-> d]
  BY DEF Tags
<1>2. x = n + (IF k THEN 32 ELSE 0) + 64 * d
  BY DEF tagToDER
<1> HIDE DEF n, k, d, x
<1>3. c \in 0 .. 1 /\ (k <=> c = 1)
  OBVIOUS
<1>4. x = n + 32 * c + 64 * d
  BY <1>1, <1>2
<1> HIDE DEF c
<1>5. x \in 0 .. 255
  BY <1>1, <1>3, <1>4
<1>6. x % 32 = n /\ x \div 32 = c + 2 * d /\ x \div 64 = d
  BY <1>1, <1>3, <1>4
<1>7. (c + 2 * d) % 2 = c
  BY <1>1, <1>3
<1>8. ((x \div 32) % 2 = 1) <=> (c = 1)
  BY <1>6, <1>7
<1> DEFINE h == ((x \div 32) % 2 = 1)
<1>9. h = k
  <2>1. h \in BOOLEAN /\ (h <=> k)
    BY <1>3, <1>8
  <2> HIDE DEF h
  <2> QED BY <1>1, <2>1
<1>10. ASN1Tag(x) = [number |-> x % 32, constructed |-> h, class |-> x \div 64]
  BY DEF ASN1Tag
<1>11. ASN1Tag(x) = tag
  <2> HIDE DEF h
  <2> QED BY <1>1, <1>6, <1>9, <1>10
<1>12. x \in Byte
  BY <1>5 DEF Byte
<1> QED BY <1>5, <1>11, <1>12 DEF x

LEMMA EncodeLengthIs ==
  ASSUME NEW n \in Nat
  PROVE  encodeLength(n) \in Seq(Nat) /\ Len(encodeLength(n)) = (IF n < 128 THEN 1 ELSE 1 + Len(Digits[n]))
         /\ Len(Digits[n]) \in Nat /\ Len(encodeLength(n)) \in Nat \ {0}
<1> DEFINE d == Digits[n]
           e == encodeLength(n)
<1>1. d \in Seq(Byte) /\ d \in Seq(Nat)
  BY DigitsAre, ByteSeq
<1>2. Len(d) \in Nat
  BY <1>1, LenProperties
<1>3. CASE n < 128
  <2>1. e = <<n>>
    BY <1>3 DEF encodeLength
  <2>2. e \in Seq(Nat) /\ Len(e) = 1
    BY <2>1
  <2> HIDE DEF e
  <2> QED BY <1>2, <1>3, <2>2 DEF e
<1>4. CASE ~ (n < 128)
  <2> DEFINE x == 128 + Len(d)
  <2>1. e = <<x>> \o d
    BY <1>4 DEF encodeLength
  <2>2. x \in Nat
    BY <1>2
  <2> HIDE DEF x, d, e
  <2>3. e \in Seq(Nat) /\ Len(e) = Len(d) + 1
    BY <1>1, <2>1, <2>2, ConsIs
  <2>4. Len(e) = 1 + Len(d) /\ Len(e) \in Nat \ {0}
    BY <1>2, <2>3
  <2> QED BY <1>2, <1>4, <2>3, <2>4 DEF d, e
<1> QED BY <1>3, <1>4

LEMMA ThreeAre ==
  ASSUME NEW S, NEW a \in S, NEW e \in S, NEW c \in S
  PROVE  <<a, e, c>> = <<a>> \o (<<e>> \o <<c>>) /\ <<c>> \in Seq(S) /\ <<e>> \o <<c>> \in Seq(S)
<1> DEFINE y == <<c>>
           z == <<e>> \o y
           w == <<a>> \o z
           parts == <<a, e, c>>
<1>1. y \in Seq(S) /\ Len(y) = 1 /\ y[1] = c
  OBVIOUS
<1>2. parts \in Seq(S) /\ Len(parts) = 3 /\ parts[1] = a /\ parts[2] = e /\ parts[3] = c
  OBVIOUS
<1> HIDE DEF y, parts
<1>3. z \in Seq(S) /\ Len(z) = Len(y) + 1 /\ z[1] = e /\ \A i \in 1 .. Len(y) : z[i + 1] = y[i]
  BY <1>1, ConsIs
<1>4. z \in Seq(S) /\ Len(z) = 2 /\ z[1] = e /\ z[2] = c
  <2> HIDE DEF z
  <2>1. 1 \in 1 .. Len(y) /\ 1 + 1 = 2 /\ Len(y) + 1 = 2
    BY <1>1
  <2>2. z[1 + 1] = y[1]
    BY <1>3, <2>1
  <2> QED BY <1>1, <1>3, <2>1, <2>2
<1> HIDE DEF z
<1>40. z \in Seq(S)
  BY <1>4
<1>5. w \in Seq(S) /\ Len(w) = Len(z) + 1 /\ w[1] = a /\ \A i \in 1 .. Len(z) : w[i + 1] = z[i]
  BY <1>40, ConsIs
<1> HIDE DEF w
<1>6. Len(w) = 3 /\ w[2] = e /\ w[3] = c
  <2>1. 1 \in 1 .. Len(z) /\ 2 \in 1 .. Len(z) /\ 1 + 1 = 2 /\ 2 + 1 = 3 /\ Len(z) + 1 = 3
    BY <1>4
  <2>2. w[1 + 1] = z[1] /\ w[2 + 1] = z[2]
    BY <1>5, <2>1
  <2> QED BY <1>4, <1>5, <2>1, <2>2
<1>7. \A i \in 1 .. 3 : i = 1 \/ i = 2 \/ i = 3
  OBVIOUS
<1>8. \A i \in 1 .. Len(w) : w[i] = parts[i]
  BY <1>2, <1>5, <1>6, <1>7
<1>9. w = parts
  BY <1>2, <1>5, <1>6, <1>8, SeqEqual
<1> QED BY <1>1, <1>4, <1>9 DEF w, z, y, parts

LEMMA FlattenThree ==
  ASSUME NEW S, NEW a \in Seq(S), NEW e \in Seq(S), NEW c \in Seq(S)
  PROVE  FlattenSeq(<<a, e, c>>) = a \o e \o c /\ <<a, e, c>> \in Seq(Seq(S))
<1>1. <<a, e, c>> = <<a>> \o (<<e>> \o <<c>>) /\ <<c>> \in Seq(Seq(S)) /\ <<e>> \o <<c>> \in Seq(Seq(S))
  BY ZenonT(40), ThreeAre
<1>2. FlattenSeq(<<c>>) = c
  BY FlattenOne
<1>3. FlattenSeq(<<e>> \o <<c>>) = e \o c
  BY ZenonT(40), <1>1, <1>2, FlattenCons
<1>4. FlattenSeq(<<a>> \o (<<e>> \o <<c>>)) = a \o (e \o c)
  <2> DEFINE y == <<e>> \o <<c>>
  <2>1. y \in Seq(Seq(S))
    BY <1>1
  <2>2. FlattenSeq(y) = e \o c
    BY <1>3
  <2> HIDE DEF y
  <2>3. FlattenSeq(<<a>> \o y) = a \o FlattenSeq(y)
    BY <2>1, FlattenCons
  <2> QED BY <2>2, <2>3 DEF y
<1>5. (a \o e) \o c = a \o (e \o c)
  BY ConcatAssociative
<1>6. <<a, e, c>> \in Seq(Seq(S))
  OBVIOUS
<1> QED BY <1>1, <1>4, <1>5, <1>6

LEMMA WrapIs ==
  ASSUME NEW tag \in Tags, NEW c \in Seq(Nat)
  PROVE  /\ Wrap(tag, c) \in Seq(Nat) /\ Len(c) \in Nat
         /\ Len(Wrap(tag, c)) = 1 + Len(encodeLength(Len(c))) + Len(c)
         /\ Written(<< <<tagToDER(tag)>>, encodeLength(Len(c)), c>>) = Wrap(tag, c)
<1> DEFINE a == <<tagToDER(tag)>>
           e == encodeLength(Len(c))
           parts == <<a, e, c>>
<1>0. 0 \in Nat /\ Len(c) \in Nat
  BY LenProperties
<1>1. a \in Seq(Nat) /\ Len(a) = 1
  <2>1. tagToDER(tag) \in Nat
    BY TagIsByte, ByteIsNat
  <2> QED BY <2>1
<1>2. e \in Seq(Nat)
  BY <1>0, EncodeLengthIs
<1> HIDE DEF a, e
<1>3. a \o e \in Seq(Nat) /\ Len(a \o e) = 1 + Len(e) /\ Len(a \o e) \in Nat
  BY <1>1, <1>2, Concat
<1>4. (a \o e) \o c \in Seq(Nat) /\ Len((a \o e) \o c) = 1 + Len(e) + Len(c)
  BY <1>3, Concat
<1>5. FlattenSeq(parts) = (a \o e) \o c /\ parts \in Seq(Seq(Nat))
  BY <1>1, <1>2, FlattenThree
<1>6. Written(parts) = FlattenSeq(parts)
  <2> HIDE DEF parts
  <2> QED BY <1>0, <1>5, WrittenIs
<1>7. Wrap(tag, c) = (a \o e) \o c
  BY DEF Wrap, a, e
<1> QED BY <1>0, <1>4, <1>5, <1>6, <1>7 DEF a, e

LEMMA ContentIs ==
  ASSUME NEW X, NEW o \in ObjectsOver(X), NEW g \in [X -> Seq(Nat)]
  PROVE  Content(o, g) = Inner(o, g) /\ Inner(o, g) \in Seq(Nat)
<1>1. o.subs \in Seq(X) /\ o.value \in Seq(Byte) /\ o.tag \in Tags
  BY DEF ObjectsOver
<1> DEFINE n == Len(o.subs)
           parts == [k \in 1 .. n |-> g[o.subs[k]]]
<1>2. n \in Nat /\ \A k \in 1 .. n : o.subs[k] \in X
  BY <1>1, LenProperties
<1>3. parts \in Seq(Seq(Nat)) /\ Len(parts) = n
  <2>1. \A k \in 1 .. n : g[o.subs[k]] \in Seq(Nat)
    BY <1>2
  <2>2. parts \in [1 .. n -> Seq(Nat)]
    BY <2>1
  <2> HIDE DEF n
  <2> QED BY <1>2, <2>2
<1>4. 0 \in Nat
  OBVIOUS
<1>5. CASE o.subs # <<>>
  <2>1. SubSeq(parts, 1, n) = parts
    <3> HIDE DEF parts, n
    <3> QED BY <1>3, SubSeqFull
  <2>2. Content(o, g) = Written(parts)
    BY <1>5, <2>1 DEF Content
  <2>3. Inner(o, g) = FlattenSeq(parts)
    BY <1>5 DEF Inner, Each
  <2> HIDE DEF parts, n
  <2> QED BY <1>3, <1>4, <2>2, <2>3, WrittenIs
<1>6. CASE o.subs = <<>>
  <2>1. Content(o, g) = Written(<<o.value>>)
    BY <1>6 DEF Content
  <2>2. o.value \in Seq(Nat)
    BY <1>1, ByteSeq
  <2>3. <<o.value>> \in Seq(Seq(Nat))
    BY <2>2
  <2>4. Written(<<o.value>>) = FlattenSeq(<<o.value>>)
    BY <1>4, <2>3, WrittenIs
  <2>5. FlattenSeq(<<o.value>>) = o.value
    BY <2>2, FlattenOne
  <2> QED BY <1>6, <2>1, <2>2, <2>4, <2>5 DEF Inner
<1> QED BY <1>5, <1>6

DERStep(o, h) ==
  LET value == Content(o, h)
  IN  Written(<< <<tagToDER(o.tag)>>, encodeLength(Len(value)), value>>)

LEMMA DERStepIs ==
  ASSUME NEW X, NEW o \in ObjectsOver(X), NEW g \in [X -> Seq(Nat)]
  PROVE  DERStep(o, g) = Wrap(o.tag, Inner(o, g)) /\ DERStep(o, g) \in Seq(Nat)
<1>1. Content(o, g) = Inner(o, g) /\ Inner(o, g) \in Seq(Nat)
  BY ContentIs
<1>2. o.tag \in Tags
  BY DEF ObjectsOver
<1> DEFINE c == Inner(o, g)
<1>3. DERStep(o, g) = Written(<< <<tagToDER(o.tag)>>, encodeLength(Len(c)), c>>)
  BY <1>1 DEF DERStep
<1>4. c \in Seq(Nat)
  BY <1>1
<1> HIDE DEF c
<1>5. Written(<< <<tagToDER(o.tag)>>, encodeLength(Len(c)), c>>) = Wrap(o.tag, c) /\ Wrap(o.tag, c) \in Seq(Nat)
  BY <1>2, <1>4, WrapIs
<1> QED BY <1>3, <1>5 DEF c

LEMMA NoFunction == <<>> \in [{} -> Seq(Nat)]
<1>1. <<>> \in Seq(Seq(Nat)) /\ Len(<<>>) = 0
  BY EmptySeq
<1>2. <<>> \in [1 .. 0 -> Seq(Nat)]
  BY <1>1, LenProperties
<1>3. 1 .. 0 = {}
  OBVIOUS
<1> QED BY <1>2, <1>3

LEMMA DERExists ==
  \E f : /\ f = [n \in Nat |-> IF n = 0 THEN <<>> ELSE [o \in Objects[n] |-> DERStep(o, f[n - 1])]]
         /\ \A n \in Nat : f[n] \in [Objects[n] -> Seq(Nat)]
<1> DEFINE D == Nat
           V == [d \in D |-> [Objects[d] -> Seq(Nat)]]
           rank == [d \in D |-> d]
           body(d, g) == IF d = 0 THEN <<>> ELSE [o \in Objects[d] |-> DERStep(o, g[d - 1])]
           step == [z \in D \X Valued(D, V) |-> body(z[1], z[2])]
<1>1. rank \in [D -> Nat]
  OBVIOUS
<1>2. \A d \in D : V[d] # {}
  <2>1. ASSUME NEW d \in D PROVE [o \in Objects[d] |-> <<>>] \in [Objects[d] -> Seq(Nat)]
    BY EmptySeq
  <2> QED BY <2>1
<1>3. \A d \in D, g \in Valued(D, V) : step[<<d, g>>] = body(d, g)
  OBVIOUS
<1>4. ASSUME NEW d \in D, NEW g \in Valued(D, V) PROVE body(d, g) \in [Objects[d] -> Seq(Nat)]
  <2>1. CASE d = 0
    <3>1. Objects[d] = {} /\ body(d, g) = <<>>
      BY <2>1, ObjectsAre
    <3> HIDE DEF body
    <3> QED BY <3>1, NoFunction
  <2>2. CASE d # 0
    <3>1. d - 1 \in D /\ (d - 1) + 1 = d
      BY <2>2
    <3>2. g[d - 1] \in [Objects[d - 1] -> Seq(Nat)]
      <4>1. g[d - 1] \in V[d - 1]
        <5> HIDE DEF V
        <5> QED BY <3>1 DEF Valued
      <4> QED BY <3>1, <4>1
    <3>3. Objects[d] = ObjectsOver(Objects[d - 1])
      <4>1. Objects[(d - 1) + 1] = ObjectsOver(Objects[d - 1])
        BY <3>1, ObjectsAre
      <4> QED BY <3>1, <4>1
    <3>4. \A o \in Objects[d] : DERStep(o, g[d - 1]) \in Seq(Nat)
      BY <3>2, <3>3, DERStepIs
    <3>5. body(d, g) = [o \in Objects[d] |-> DERStep(o, g[d - 1])]
      BY <2>2
    <3> HIDE DEF body
    <3> QED BY <3>4, <3>5
  <2> QED BY <2>1, <2>2
<1>5. Stepping(D, V, step)
  <2>1. \A d \in D : V[d] = [Objects[d] -> Seq(Nat)]
    OBVIOUS
  <2> HIDE DEF D, V, body, step
  <2> QED BY <1>3, <1>4, <2>1 DEF Stepping
<1>6. ASSUME NEW d \in D, NEW g, NEW h, Alike(D, rank, g, h, rank[d])
      PROVE  body(d, g) = body(d, h)
  <2>1. CASE d = 0
    BY <2>1
  <2>2. CASE d # 0
    <3>1. d - 1 \in D /\ rank[d - 1] < rank[d]
      BY <2>2
    <3>2. g[d - 1] = h[d - 1]
      BY <1>6, <3>1 DEF Alike
    <3> QED BY <3>2
  <2> QED BY <2>1, <2>2
<1>7. Grounded(D, V, rank, step)
  <2> HIDE DEF D, V, rank, body, step
  <2>1. \A d \in D : \A g, h \in Valued(D, V) : Alike(D, rank, g, h, rank[d]) => step[<<d, g>>] = step[<<d, h>>]
    <3>1. TAKE d \in D
    <3>2. TAKE g, h \in Valued(D, V)
    <3>3. HAVE Alike(D, rank, g, h, rank[d])
    <3>4. body(d, g) = body(d, h)
      BY <1>6, <3>3
    <3> QED BY <1>3, <3>4
  <2> QED BY <2>1 DEF Grounded
<1>8. WellFounded(D, V, rank, step)
  BY <1>1, <1>2, <1>5, <1>7 DEF WellFounded
<1>9. PICK f : Solves(f, D, V, step)
  <2> HIDE DEF D, V, rank, step
  <2> QED BY <1>8, Recursion
<1>10. f = [d \in D |-> f[d]] /\ \A d \in D : f[d] = body(d, f)
  <2> HIDE DEF V, step, D, body
  <2> QED BY <1>3, <1>9 DEF Solves, Valued
<1>11. f = [d \in D |-> body(d, f)]
  <2> HIDE DEF D, body
  <2> QED BY <1>10
<1>12. \A d \in D : f[d] \in [Objects[d] -> Seq(Nat)]
  <2>1. \A d \in D : f[d] \in V[d]
    <3> HIDE DEF V, D, step
    <3> QED BY <1>9 DEF Solves, Valued
  <2> QED BY <2>1
<1> HIDE DEF V, rank, step
<1> QED BY <1>11, <1>12

LEMMA DERAre ==
  \A n \in Nat : /\ DER[n] \in [Objects[n] -> Seq(Nat)]
                 /\ \A o \in Objects[n + 1] : DER[n + 1][o] = Wrap(o.tag, Inner(o, DER[n]))
<1> DEFINE Whole(f) == f = [n \in Nat |-> IF n = 0 THEN <<>> ELSE [o \in Objects[n] |-> DERStep(o, f[n - 1])]]
<1>1. DER = CHOOSE f : Whole(f)
  BY Zenon DEF DER, DERStep
<1>2. \E f : Whole(f)
  BY DERExists
<1>3. Whole(DER)
  <2> HIDE DEF Whole
  <2> QED BY <1>1, <1>2
<1>4. \A n \in Nat : DER[n] = IF n = 0 THEN <<>> ELSE [o \in Objects[n] |-> DERStep(o, DER[n - 1])]
  BY <1>3
<1> HIDE DEF Whole
<1>5. DER[0] = <<>> /\ DER[0] \in [Objects[0] -> Seq(Nat)]
  <2>1. DER[0] = <<>>
    BY <1>4
  <2> QED BY <2>1, NoFunction, ObjectsAre
<1>6. ASSUME NEW n \in Nat PROVE DER[n + 1] = [o \in Objects[n + 1] |-> DERStep(o, DER[n])]
  <2>1. n + 1 \in Nat /\ n + 1 # 0 /\ (n + 1) - 1 = n
    OBVIOUS
  <2>2. DER[n + 1] = IF n + 1 = 0 THEN <<>> ELSE [o \in Objects[n + 1] |-> DERStep(o, DER[(n + 1) - 1])]
    BY <1>4, <2>1
  <2> QED BY <2>1, <2>2
<1> DEFINE Bad == {n \in Nat : ~ (DER[n] \in [Objects[n] -> Seq(Nat)])}
<1>7. Bad = {}
  <2>1. SUFFICES ASSUME Bad # {} PROVE FALSE
    OBVIOUS
  <2>2. PICK k \in Bad : \A j \in Bad : k <= j
    <3>1. Bad \in SUBSET Nat
      OBVIOUS
    <3> HIDE DEF Bad
    <3> QED BY <2>1, <3>1, LeastNumber
  <2>3. k # 0
    BY <1>5, <2>2
  <2>4. k - 1 \in Nat /\ (k - 1) + 1 = k /\ ~ (k <= k - 1)
    BY <2>2, <2>3
  <2>5. DER[k - 1] \in [Objects[k - 1] -> Seq(Nat)]
    BY <2>2, <2>4
  <2>6. Objects[(k - 1) + 1] = ObjectsOver(Objects[k - 1])
    BY <2>4, ObjectsAre
  <2>7. \A o \in Objects[(k - 1) + 1] : DERStep(o, DER[k - 1]) \in Seq(Nat)
    BY <2>5, <2>6, DERStepIs
  <2>8. DER[(k - 1) + 1] = [o \in Objects[(k - 1) + 1] |-> DERStep(o, DER[k - 1])]
    BY <1>6, <2>4
  <2>9. DER[(k - 1) + 1] \in [Objects[(k - 1) + 1] -> Seq(Nat)]
    BY <2>7, <2>8
  <2> QED BY <2>2, <2>4, <2>9
<1>8. \A n \in Nat : DER[n] \in [Objects[n] -> Seq(Nat)]
  BY <1>7
<1>9. ASSUME NEW n \in Nat, NEW o \in Objects[n + 1] PROVE DER[n + 1][o] = Wrap(o.tag, Inner(o, DER[n]))
  <2>1. DER[n + 1][o] = DERStep(o, DER[n])
    BY <1>6
  <2>2. DER[n] \in [Objects[n] -> Seq(Nat)] /\ o \in ObjectsOver(Objects[n])
    BY <1>8, ObjectsAre
  <2> QED BY <2>1, <2>2, DERStepIs
<1> QED BY <1>8, <1>9

\* What is written of an object is the same at every level that has it.
LEMMA DERStays ==
  ASSUME NEW n \in Nat, NEW o \in Objects[n]
  PROVE  DER[n + 1][o] = DER[n][o]
<1> DEFINE Bad == {m \in Nat : \E x \in Objects[m] : DER[m + 1][x] # DER[m][x]}
<1>1. Bad = {}
  <2>1. SUFFICES ASSUME Bad # {} PROVE FALSE
    OBVIOUS
  <2>2. PICK k \in Bad : \A j \in Bad : k <= j
    <3>1. Bad \in SUBSET Nat
      OBVIOUS
    <3> HIDE DEF Bad
    <3> QED BY <2>1, <3>1, LeastNumber
  <2>3. PICK x \in Objects[k] : DER[k + 1][x] # DER[k][x]
    BY <2>2
  <2>4. k # 0
    BY <2>3, ObjectsAre
  <2> DEFINE m == k - 1
  <2>5. m \in Nat /\ m + 1 = k /\ ~ (k <= m) /\ k \in Nat
    BY <2>2, <2>4
  <2>6. \A y \in Objects[m] : DER[m + 1][y] = DER[m][y]
    BY <2>2, <2>5
  <2> HIDE DEF m, Bad
  <2>7. x \in Objects[m + 1] /\ x \in Objects[k + 1]
    BY <2>5, ObjectsStep
  <2>8. DER[m + 1][x] = Wrap(x.tag, Inner(x, DER[m])) /\ DER[k + 1][x] = Wrap(x.tag, Inner(x, DER[k]))
    BY <2>5, <2>7, DERAre
  <2>9. Each(x.subs, DER[m]) = Each(x.subs, DER[k])
    <3>1. x.subs \in Seq(Objects[m])
      <4>1. x \in ObjectsOver(Objects[m])
        BY <2>5, <2>7, ObjectsAre
      <4> QED BY <4>1 DEF ObjectsOver
    <3>2. \A i \in 1 .. Len(x.subs) : x.subs[i] \in Objects[m]
      BY <3>1, ElementOfSeq
    <3>3. \A i \in 1 .. Len(x.subs) : DER[m][x.subs[i]] = DER[k][x.subs[i]]
      BY <2>5, <2>6, <3>2
    <3> QED BY <3>3 DEF Each
  <2>10. Inner(x, DER[m]) = Inner(x, DER[k])
    BY <2>9 DEF Inner
  <2> QED BY <2>3, <2>5, <2>8, <2>10
<1> QED BY <1>1

\* The contents of an object, and its bytes (toDER, obj.ts).
Contents(s) == FlattenSeq([k \in 1 .. Len(s) |-> toDER(s[k])])
ContentOf(o)   == IF o.subs # <<>> THEN Contents(o.subs) ELSE o.value
LEMMA ToDERIs ==
  ASSUME MaxDepth \in Nat, NEW o \in Objects[MaxDepth]
  PROVE  /\ toDER(o) = Wrap(o.tag, ContentOf(o)) /\ toDER(o) \in Seq(Nat) /\ ContentOf(o) \in Seq(Nat)
         /\ o.tag \in Tags /\ o.value \in Seq(Byte) /\ o.subs \in Seq(Objects[MaxDepth])
<1> DEFINE n == MaxDepth - 1
<1>1. MaxDepth # 0
  BY ObjectsAre
<1>2. n \in Nat /\ n + 1 = MaxDepth
  BY <1>1
<1> HIDE DEF n
<1>3. o \in ObjectsOver(Objects[n])
  BY <1>2, ObjectsAre
<1>4. o.tag \in Tags /\ o.value \in Seq(Byte) /\ o.subs \in Seq(Objects[n])
  BY <1>3 DEF ObjectsOver
<1>5. Objects[n] \subseteq Objects[MaxDepth]
  BY <1>2, ObjectsStep
<1>6. toDER(o) = Wrap(o.tag, Inner(o, DER[n]))
  <2>1. DER[n + 1][o] = Wrap(o.tag, Inner(o, DER[n]))
    BY <1>2, DERAre
  <2> QED BY <1>2, <2>1 DEF toDER
<1>7. Inner(o, DER[n]) \in Seq(Nat)
  <2>1. DER[n] \in [Objects[n] -> Seq(Nat)]
    BY <1>2, DERAre
  <2> QED BY <1>3, <2>1, ContentIs
<1>8. Inner(o, DER[n]) = ContentOf(o)
  <2>1. ASSUME NEW k \in 1 .. Len(o.subs) PROVE DER[n][o.subs[k]] = toDER(o.subs[k])
    <3>1. o.subs[k] \in Objects[n]
      BY <1>4, ElementOfSeq
    <3>2. DER[n + 1][o.subs[k]] = DER[n][o.subs[k]]
      BY <1>2, <3>1, DERStays
    <3> QED BY <1>2, <3>2 DEF toDER
  <2>2. Each(o.subs, DER[n]) = [k \in 1 .. Len(o.subs) |-> toDER(o.subs[k])]
    BY <2>1 DEF Each
  <2> QED BY <2>2 DEF Inner, ContentOf, Contents
<1>9. Wrap(o.tag, Inner(o, DER[n])) \in Seq(Nat)
  BY <1>4, <1>7, WrapIs
<1>10. o.subs \in Seq(Objects[MaxDepth])
  BY <1>4, <1>5, SeqMonotonic
<1> QED BY <1>4, <1>6, <1>7, <1>8, <1>9, <1>10

-----------------------------------------------------------------------------
(* The same bytes are read alike, wherever they are.                         *)
Same(b, p, c, u, n) ==
  /\ b \in Seq(Byte) /\ c \in Seq(Byte) /\ p \in Nat /\ u \in Nat /\ n \in Nat
  /\ p + n <= Len(b) /\ u + n <= Len(c) /\ \A i \in 1 .. n : b[p + i] = c[u + i]

CutAlike(b, p, c, u, i, j) == SubSeq(b, p + i + 1, p + j) = SubSeq(c, u + i + 1, u + j)

LEMMA SameTurns ==
  ASSUME NEW b, NEW p, NEW c, NEW u, NEW n, Same(b, p, c, u, n)
  PROVE  Same(c, u, b, p, n)
BY DEF Same

LEMMA SamePart ==
  ASSUME NEW b, NEW p, NEW c, NEW u, NEW n, Same(b, p, c, u, n), NEW j \in 0 .. n, NEW i \in 0 .. j
  PROVE  Same(b, p + i, c, u + i, j - i)
<1>0. /\ b \in Seq(Byte) /\ c \in Seq(Byte) /\ p \in Nat /\ u \in Nat /\ n \in Nat /\ Len(b) \in Nat /\ Len(c) \in Nat
      /\ p + n <= Len(b) /\ u + n <= Len(c) /\ \A k \in 1 .. n : b[p + k] = c[u + k]
  BY LenProperties DEF Same
<1> DEFINE L == Len(b)
           M == Len(c)
<1>1. /\ p + i \in Nat /\ u + i \in Nat /\ j - i \in Nat /\ (p + i) + (j - i) <= L /\ (u + i) + (j - i) <= M
  <2>1. L \in Nat /\ M \in Nat /\ p + n <= L /\ u + n <= M
    BY <1>0
  <2> HIDE DEF L, M
  <2> QED BY <1>0, <2>1
<1>2. ASSUME NEW k \in 1 .. j - i PROVE b[(p + i) + k] = c[(u + i) + k]
  <2>1. i + k \in 1 .. n /\ p + (i + k) = (p + i) + k /\ u + (i + k) = (u + i) + k
    BY <1>0
  <2>2. b[p + (i + k)] = c[u + (i + k)]
    BY <1>0, <2>1
  <2> QED BY <2>1, <2>2
<1> QED BY <1>0, <1>1, <1>2 DEF Same

LEMMA SameCut ==
  ASSUME NEW b, NEW p, NEW c, NEW u, NEW n, Same(b, p, c, u, n), NEW j \in 0 .. n, NEW i \in 0 .. j
  PROVE  CutAlike(b, p, c, u, i, j)
<1>0. /\ b \in Seq(Byte) /\ c \in Seq(Byte) /\ p \in Nat /\ u \in Nat /\ n \in Nat /\ Len(b) \in Nat /\ Len(c) \in Nat
      /\ p + n <= Len(b) /\ u + n <= Len(c) /\ \A k \in 1 .. n : b[p + k] = c[u + k]
  BY LenProperties DEF Same
<1> DEFINE L == Len(b)
           M == Len(c)
           x == SubSeq(b, (p + i) + 1, p + j)
           y == SubSeq(c, (u + i) + 1, u + j)
<1>1. p + j \in 0 .. L /\ p + i \in 0 .. p + j /\ (p + j) - (p + i) = j - i /\ j - i \in Nat
      /\ u + j \in 0 .. M /\ u + i \in 0 .. u + j /\ (u + j) - (u + i) = j - i
  <2>1. L \in Nat /\ M \in Nat /\ p + n <= L /\ u + n <= M
    BY <1>0
  <2> HIDE DEF L, M
  <2> QED BY <1>0, <2>1
<1>2. x \in Seq(Byte) /\ Len(x) = (p + j) - (p + i) /\ \A k \in 1 .. (p + j) - (p + i) : x[k] = b[(p + i) + k]
  BY <1>0, <1>1, Cut
<1>3. y \in Seq(Byte) /\ Len(y) = (u + j) - (u + i) /\ \A k \in 1 .. (u + j) - (u + i) : y[k] = c[(u + i) + k]
  BY <1>0, <1>1, Cut
<1> HIDE DEF x, y, L, M
<1>4. ASSUME NEW k \in 1 .. Len(x) PROVE x[k] = y[k]
  <2>1. k \in 1 .. j - i
    BY <1>1, <1>2
  <2>2. i + k \in 1 .. n /\ p + (i + k) = (p + i) + k /\ u + (i + k) = (u + i) + k
    BY <1>0, <2>1
  <2>3. b[p + (i + k)] = c[u + (i + k)]
    BY <1>0, <2>2
  <2> QED BY <1>1, <1>2, <1>3, <2>1, <2>2, <2>3
<1>5. x = y
  BY <1>1, <1>2, <1>3, <1>4, SeqEqual
<1> QED BY <1>5 DEF x, y, CutAlike

LEMMA SameDecode ==
  ASSUME NEW b, NEW p, NEW c, NEW u, NEW n, Same(b, p, c, u, n), decodeLength(b, p).ok, decodeLength(b, p).next <= p + n
  PROVE  decodeLength(c, u) =
           [ok |-> TRUE, value |-> decodeLength(b, p).value, next |-> u + (decodeLength(b, p).next - p)]
<1>0. /\ b \in Seq(Byte) /\ c \in Seq(Byte) /\ p \in Nat /\ u \in Nat /\ n \in Nat /\ Len(b) \in Nat /\ Len(c) \in Nat
      /\ p + n <= Len(b) /\ u + n <= Len(c) /\ \A k \in 1 .. n : b[p + k] = c[u + k]
  BY LenProperties DEF Same
<1> DEFINE L == Len(c)
           count == c[u + 1] % 128
           len == BigEndian(SubSeq(c, u + 2, u + 1 + count))
<1>1. decodeLength(c, u) =
        IF u >= L THEN Thrown
        ELSE IF c[u + 1] < 128 THEN [ok |-> TRUE, value |-> c[u + 1], next |-> u + 1]
        ELSE IF count > 6 \/ u + 1 + count > L THEN Thrown
        ELSE IF len = 0 THEN Thrown
        ELSE [ok |-> TRUE, value |-> len, next |-> u + 1 + count]
  BY DEF decodeLength, getUint8, Indefinite
<1>2. L \in Nat /\ u + n <= L
  BY <1>0
<1>3. CASE b[p + 1] < 128 /\ decodeLength(b, p) = [ok |-> TRUE, value |-> b[p + 1], next |-> p + 1]
  <2>1. decodeLength(b, p).next = p + 1 /\ decodeLength(b, p).value = b[p + 1]
    BY <1>3
  <2>2. p + 1 <= p + n
    BY <2>1
  <2> HIDE DEF L, count, len
  <2>3. 1 \in 1 .. n /\ ~ (u >= L) /\ (p + 1) - p = 1
    BY <1>0, <1>2, <2>2
  <2>4. b[p + 1] = c[u + 1]
    BY <1>0, <2>3
  <2> QED BY <1>1, <1>3, <2>1, <2>3, <2>4
<1>4. ASSUME NEW k \in 0 .. 6, b[p + 1] = 128 + k, p + 1 + k <= Len(b), BigEndian(SubSeq(b, p + 2, p + 1 + k)) # 0,
             decodeLength(b, p) = [ok |-> TRUE, value |-> BigEndian(SubSeq(b, p + 2, p + 1 + k)), next |-> p + 1 + k]
      PROVE  decodeLength(c, u) =
               [ok |-> TRUE, value |-> decodeLength(b, p).value, next |-> u + (decodeLength(b, p).next - p)]
  <2> DEFINE e == BigEndian(SubSeq(b, p + 2, p + 1 + k))
  <2>1. decodeLength(b, p).next = p + 1 + k /\ decodeLength(b, p).value = e
    BY <1>4
  <2>2. p + 1 + k <= p + n
    BY <2>1
  <2>3. 1 \in 1 .. n /\ 1 + k \in 0 .. n /\ 1 \in 0 .. 1 + k
    BY <1>0, <2>2
  <2>4. ~ (u >= L) /\ u + 1 + k <= L
    <3> HIDE DEF L
    <3> QED BY <1>0, <1>2, <2>2
  <2>5. c[u + 1] = 128 + k
    BY <1>0, <1>4, <2>3
  <2>6. count = k
    <3>1. (128 + k) % 128 = k
      OBVIOUS
    <3> QED BY <2>5, <3>1
  <2>7. len = e
    <3>1. SubSeq(b, p + 1 + 1, p + (1 + k)) = SubSeq(c, u + 1 + 1, u + (1 + k))
      <4> DEFINE j == 1 + k
      <4>1. j \in 0 .. n /\ 1 \in 0 .. j
        BY <2>3
      <4> HIDE DEF j
      <4>2. CutAlike(b, p, c, u, 1, j)
        BY <4>1, SameCut
      <4> QED BY <4>2 DEF CutAlike, j
    <3>2. p + 1 + 1 = p + 2 /\ p + (1 + k) = p + 1 + k /\ u + 1 + 1 = u + 2 /\ u + (1 + k) = u + 1 + k
      BY <1>0
    <3>3. SubSeq(b, p + 2, p + 1 + k) = SubSeq(c, u + 2, u + 1 + k)
      BY <3>1, <3>2
    <3>4. len = BigEndian(SubSeq(c, u + 2, u + 1 + k))
      BY <2>6
    <3> QED BY <3>3, <3>4
  <2>8. e # 0
    BY <1>4
  <2> HIDE DEF L, count, len, e
  <2>9. ~ (c[u + 1] < 128) /\ ~ (count > 6 \/ u + 1 + count > L) /\ len # 0
    BY <1>0, <1>2, <2>4, <2>5, <2>6, <2>7, <2>8
  <2>10. decodeLength(c, u) = [ok |-> TRUE, value |-> len, next |-> u + 1 + count]
    BY <1>1, <2>4, <2>9
  <2>11. u + 1 + k = u + ((p + 1 + k) - p)
    BY <1>0
  <2> QED BY <2>1, <2>6, <2>7, <2>10, <2>11
<1> QED
  <2>1. \/ b[p + 1] < 128 /\ decodeLength(b, p) = [ok |-> TRUE, value |-> b[p + 1], next |-> p + 1]
        \/ \E k \in 0 .. 6 :
             LET m == BigEndian(SubSeq(b, p + 2, p + 1 + k))
             IN  /\ b[p + 1] = 128 + k /\ p + 1 + k <= Len(b) /\ m # 0
                 /\ decodeLength(b, p) = [ok |-> TRUE, value |-> m, next |-> p + 1 + k]
    BY <1>0, DecodeLengthIs
  <2> QED BY <1>3, <1>4, <2>1

LEMMA SameHeader ==
  ASSUME NEW b, NEW p, NEW c, NEW u, NEW n, Same(b, p, c, u, n), Header(b, p), End(b, p) <= p + n
  PROVE  /\ Header(c, u) /\ Begin(c, u) = u + (Begin(b, p) - p) /\ End(c, u) = u + (End(b, p) - p)
         /\ Plain(c, u) = Plain(b, p)
         /\ Same(b, Begin(b, p), c, Begin(c, u), End(b, p) - Begin(b, p))
<1>0. /\ b \in Seq(Byte) /\ c \in Seq(Byte) /\ p \in Nat /\ u \in Nat /\ n \in Nat /\ Len(b) \in Nat /\ Len(c) \in Nat
      /\ p + n <= Len(b) /\ u + n <= Len(c) /\ \A k \in 1 .. n : b[p + k] = c[u + k]
  BY LenProperties DEF Same
<1> DEFINE x == Begin(b, p)
           y == End(b, p)
           d == decodeLength(b, p + 1)
           f == decodeLength(c, u + 1)
           L == Len(b)
           M == Len(c)
<1>1. x \in p + 2 .. L /\ y \in x .. L /\ p < L
  BY <1>0, HeaderIs
<1>2. d.next = x /\ x + d.value = y
  BY DEF Begin, End
<1>20. d.ok /\ Supported(ASN1Tag(b[p + 1]))
  BY DEF Header
<1>21. y <= p + n /\ L \in Nat /\ M \in Nat /\ p + n <= L /\ u + n <= M
  BY <1>0
<1>3. d.value \in Nat
  <2>1. p + 1 \in Nat
    BY <1>0
  <2>2. LengthRead(b, p + 1)
    BY <1>0, <1>20, <2>1, DecodeStates
  <2> QED BY <2>2 DEF LengthRead
<1> HIDE DEF x, y, d, f, L, M
<1>4. 1 \in 0 .. n /\ n \in 0 .. n /\ 1 \in 1 .. n /\ d.next <= (p + 1) + (n - 1)
  BY <1>0, <1>1, <1>2, <1>21
<1>5. Same(b, p + 1, c, u + 1, n - 1)
  BY <1>4, SamePart
<1>6. f = [ok |-> TRUE, value |-> d.value, next |-> (u + 1) + (d.next - (p + 1))]
  BY <1>4, <1>5, <1>20, SameDecode DEF d, f
<1>7. f.ok /\ f.value = d.value /\ f.next = u + (x - p)
  <2>1. (u + 1) + (x - (p + 1)) = u + (x - p)
    BY <1>0, <1>1, <1>21
  <2> QED BY <1>2, <1>6, <2>1
<1>8. Begin(c, u) = u + (x - p) /\ End(c, u) = u + (y - p)
  <2>1. Begin(c, u) = f.next /\ End(c, u) = f.next + f.value
    BY DEF Begin, End, f
  <2>2. (u + (x - p)) + d.value = u + (y - p)
    <3> DEFINE v == d.value
    <3>1. v \in Nat /\ x + v = y
      BY <1>2, <1>3
    <3> HIDE DEF v
    <3>2. (u + (x - p)) + v = u + (y - p)
      BY <1>0, <1>1, <1>21, <3>1
    <3> QED BY <3>2 DEF v
  <2> QED BY <1>7, <2>1, <2>2
<1>9. b[p + 1] = c[u + 1]
  BY <1>0, <1>4
<1>10. u < M /\ u + (y - p) <= M /\ y - p \in 0 .. n /\ x - p \in 0 .. y - p /\ p + (x - p) = x /\ p + (y - p) = y
       /\ (y - p) - (x - p) = y - x
  BY <1>0, <1>1, <1>4, <1>21
<1>11. Header(c, u)
  BY <1>7, <1>8, <1>9, <1>10, <1>20 DEF Header, f, M
<1> DEFINE i == x - p
           j == y - p
<1>12. i \in 0 .. j /\ j \in 0 .. n /\ p + i = x /\ p + j = y /\ j - i = y - x
  BY <1>10
<1>120. Begin(c, u) = u + i /\ End(c, u) = u + j
  BY <1>8
<1> HIDE DEF i, j
<1>13. SubSeq(b, p + i + 1, p + j) = SubSeq(c, u + i + 1, u + j)
  <2>1. CutAlike(b, p, c, u, i, j)
    BY <1>12, SameCut
  <2> QED BY <2>1 DEF CutAlike
<1>14. Plain(c, u) = Plain(b, p)
  <2>1. SubSeq(b, x + 1, y) = SubSeq(c, Begin(c, u) + 1, End(c, u))
    BY <1>12, <1>120, <1>13
  <2> QED BY <1>9, <2>1 DEF Plain, x, y
<1>15. Same(b, x, c, Begin(c, u), y - x)
  <2>1. Same(b, p + i, c, u + i, j - i)
    BY <1>12, SamePart
  <2> QED BY <1>12, <1>120, <2>1
<1> QED BY <1>8, <1>11, <1>14, <1>15 DEF x, y

Fits(b, p, q) == Header(b, p) /\ End(b, p) <= q
InsideOf(b, p) == collectSubs(b, Begin(b, p), End(b, p))
CollectedFrom(x, y) ==
  IF x.ok /\ y.ok THEN [ok |-> TRUE, subs |-> <<x.obj>> \o y.subs] ELSE Thrown

LEMMA ParsedIs ==
  ASSUME NEW b \in Seq(Byte), NEW p \in Nat
  PROVE  /\ parseStream(b, p) = IF Header(b, p) THEN ObjectOf(b, p, InsideOf(b, p)) ELSE Thrown
         /\ parseStream(b, p).ok => Header(b, p) /\ parseStream(b, p).next = End(b, p)
<1>1. parseStream(b, p) = ObjectAt(b, p, Between(b))
  BY DEF parseStream
<1>2. Inside(b, p, Between(b)) = InsideOf(b, p)
  BY DEF Inside, InsideOf, collectSubs
<1>3. parseStream(b, p) = IF Header(b, p) THEN ObjectOf(b, p, InsideOf(b, p)) ELSE Thrown
  BY <1>1, <1>2, ObjectAtIs
<1>4. parseStream(b, p).ok => Header(b, p) /\ parseStream(b, p).next = End(b, p)
  BY <1>1, ObjectNext
<1> QED BY <1>3, <1>4

LEMMA CollectedIs ==
  ASSUME NEW b \in Seq(Byte), NEW p \in 0 .. Len(b), NEW q \in 0 .. Len(b)
  PROVE  /\ p = q => collectSubs(b, p, q) = [ok |-> TRUE, subs |-> <<>>]
         /\ q < p => ~ collectSubs(b, p, q).ok
         /\ p < q => collectSubs(b, p, q) =
                       CollectedFrom(parseStream(b, p), collectSubs(b, parseStream(b, p).next, q))
<1>0. Len(b) \in Nat /\ p \in Nat /\ q \in Nat
  BY LenProperties
<1> DEFINE first == ObjectAt(b, p, Between(b))
           rest == Between(b)[<<first.next, q>>]
           v == Between(b)[<<p, q>>]
<1>1. v = BetweenStep(b, <<p, q>>, Between(b))
  <2>1. <<p, q>> \in Places(b)
    BY DEF Places
  <2>2. BetweenIs(b, Between(b))
    BY BetweenIsThat
  <2> DEFINE f == Between(b)
  <2>3. f = [r \in Places(b) |-> BetweenStep(b, r, f)]
    BY <2>2 DEF BetweenIs
  <2> HIDE DEF f
  <2>4. f[<<p, q>>] = BetweenStep(b, <<p, q>>, f)
    BY <2>1, <2>3
  <2> QED BY <2>4 DEF f
<1> DEFINE k == (p = q)
<1>2. v = IF p >= q THEN [ok |-> k, subs |-> <<>>]
          ELSE IF first.ok /\ rest.ok THEN [ok |-> TRUE, subs |-> <<first.obj>> \o rest.subs]
          ELSE Thrown
  BY <1>1 DEF BetweenStep
<1>3. v = collectSubs(b, p, q) /\ first = parseStream(b, p) /\ rest = collectSubs(b, parseStream(b, p).next, q)
  BY DEF collectSubs, parseStream
<1> HIDE DEF first, rest, v
<1>4. ASSUME p = q PROVE v = [ok |-> TRUE, subs |-> <<>>]
  <2>1. p >= q /\ k = TRUE
    BY <1>0, <1>4
  <2> HIDE DEF k
  <2>2. v = [ok |-> k, subs |-> <<>>]
    BY <1>2, <2>1
  <2> QED BY <2>1, <2>2
<1>5. ASSUME q < p PROVE ~ v.ok
  <2>1. p >= q /\ ~ k
    BY <1>0, <1>5
  <2> HIDE DEF k
  <2>2. v = [ok |-> k, subs |-> <<>>]
    BY <1>2, <2>1
  <2> QED BY <2>1, <2>2
<1>6. ASSUME p < q PROVE v = CollectedFrom(first, rest)
  <2>1. ~ (p >= q)
    BY <1>0, <1>6
  <2> QED BY <1>2, <2>1 DEF CollectedFrom
<1> QED BY <1>3, <1>4, <1>5, <1>6

LEMMA Misfit ==
  ASSUME NEW b \in Seq(Byte), NEW p \in 0 .. Len(b), NEW q \in 0 .. Len(b), p < q, ~ Fits(b, p, q)
  PROVE  collectSubs(b, p, q) = Thrown
<1>0. Len(b) \in Nat /\ p \in Nat /\ q \in Nat
  BY LenProperties
<1> DEFINE x == parseStream(b, p)
           y == collectSubs(b, x.next, q)
<1>1. collectSubs(b, p, q) = CollectedFrom(x, y)
  BY CollectedIs
<1>2. x.ok => Header(b, p) /\ x.next = End(b, p)
  BY <1>0, ParsedIs
<1>3. ASSUME x.ok PROVE ~ y.ok
  <2>1. x.next \in 0 .. Len(b) /\ q < x.next
    <3>1. Header(b, p) /\ x.next = End(b, p)
      BY <1>2, <1>3
    <3>2. ~ (End(b, p) <= q)
      BY <3>1 DEF Fits
    <3>3. Begin(b, p) \in p + 2 .. Len(b) /\ End(b, p) \in Begin(b, p) .. Len(b)
      BY <1>0, <3>1, HeaderIs
    <3> DEFINE e == End(b, p)
               L == Len(b)
    <3>4. e \in Begin(b, p) .. L /\ Begin(b, p) \in p + 2 .. L /\ ~ (e <= q) /\ L \in Nat
      BY <1>0, <3>2, <3>3
    <3> HIDE DEF e, L
    <3>5. e \in 0 .. L /\ q < e
      BY <1>0, <3>4
    <3> QED BY <3>1, <3>5 DEF e, L
  <2> DEFINE z == x.next
  <2>2. z \in 0 .. Len(b) /\ q < z
    BY <2>1
  <2> HIDE DEF z
  <2>3. ~ collectSubs(b, z, q).ok
    BY <2>2, CollectedIs
  <2> QED BY <2>3 DEF z
<1> HIDE DEF x, y
<1> QED BY <1>1, <1>3 DEF CollectedFrom

LEMMA ObjectOfSame ==
  ASSUME NEW b, NEW p, NEW c, NEW u, Plain(c, u) = Plain(b, p), NEW inner
  PROVE  /\ ObjectOf(c, u, inner).ok <=> ObjectOf(b, p, inner).ok
         /\ ObjectOf(b, p, inner).ok =>
              ObjectOf(c, u, inner) = [ok |-> TRUE, next |-> End(c, u), obj |-> ObjectOf(b, p, inner).obj]
<1> DEFINE plain == Plain(b, p)
           obj == IF MayHold(plain) /\ inner.ok THEN [plain EXCEPT !.subs = inner.subs] ELSE plain
           bad == MustHold(plain) /\ ~ inner.ok
<1>1. ObjectOf(b, p, inner) = IF bad THEN Thrown ELSE [ok |-> TRUE, next |-> End(b, p), obj |-> obj]
  BY DEF ObjectOf
<1>2. ObjectOf(c, u, inner) = IF bad THEN Thrown ELSE [ok |-> TRUE, next |-> End(c, u), obj |-> obj]
  BY DEF ObjectOf
<1>3. ~ Thrown.ok
  BY DEF Thrown
<1> HIDE DEF obj, bad, plain
<1> QED BY <1>1, <1>2, <1>3

LEMMA SameFits ==
  ASSUME NEW b, NEW p, NEW c, NEW u, NEW n, Same(b, p, c, u, n), Fits(b, p, p + n)
  PROVE  Fits(c, u, u + n)
<1>1. /\ Header(c, u) /\ End(c, u) = u + (End(b, p) - p)
  BY SameHeader DEF Fits
<1>0. p \in Nat /\ u \in Nat /\ n \in Nat /\ b \in Seq(Byte)
  BY DEF Same
<1>2. End(b, p) \in Nat /\ End(b, p) <= p + n
  <2>1. Header(b, p) /\ End(b, p) <= p + n
    BY DEF Fits
  <2>2. Len(b) \in Nat /\ Begin(b, p) \in p + 2 .. Len(b) /\ End(b, p) \in Begin(b, p) .. Len(b)
    BY <1>0, <2>1, HeaderIs
  <2>3. End(b, p) \in Nat
    BY <1>0, <2>2
  <2> QED BY <2>1, <2>3
<1> DEFINE e == End(b, p)
<1>3. e \in Nat /\ e <= p + n
  BY <1>2
<1> HIDE DEF e
<1>4. u + (e - p) <= u + n
  BY <1>0, <1>3
<1> QED BY <1>1, <1>4 DEF Fits, e

\* The object at p, if what is in it is read alike.
LEMMA SameParsed ==
  ASSUME NEW b, NEW p, NEW c, NEW u, NEW n, Same(b, p, c, u, n), Fits(b, p, p + n), InsideOf(b, p) = InsideOf(c, u)
  PROVE  /\ parseStream(c, u).ok <=> parseStream(b, p).ok
         /\ parseStream(b, p).ok =>
              parseStream(c, u) = [ok |-> TRUE, next |-> u + (End(b, p) - p), obj |-> parseStream(b, p).obj]
<1>0. p \in Nat /\ u \in Nat /\ b \in Seq(Byte) /\ c \in Seq(Byte)
  BY DEF Same
<1>1. Header(b, p) /\ Header(c, u) /\ Plain(c, u) = Plain(b, p) /\ End(c, u) = u + (End(b, p) - p)
  BY SameHeader DEF Fits
<1>2. parseStream(b, p) = ObjectOf(b, p, InsideOf(b, p)) /\ parseStream(c, u) = ObjectOf(c, u, InsideOf(b, p))
  <2>1. parseStream(b, p) = ObjectOf(b, p, InsideOf(b, p))
    BY <1>0, <1>1, ParsedIs
  <2>2. parseStream(c, u) = ObjectOf(c, u, InsideOf(c, u))
    BY <1>0, <1>1, ParsedIs
  <2> QED BY <2>1, <2>2
<1> DEFINE v == InsideOf(b, p)
<1> HIDE DEF v
<1>3. /\ ObjectOf(c, u, v).ok <=> ObjectOf(b, p, v).ok
      /\ ObjectOf(b, p, v).ok =>
           ObjectOf(c, u, v) = [ok |-> TRUE, next |-> End(c, u), obj |-> ObjectOf(b, p, v).obj]
  BY <1>1, ObjectOfSame
<1> QED BY <1>1, <1>2, <1>3 DEF v

LEMMA HeaderEnds ==
  ASSUME NEW b \in Seq(Byte), NEW p \in Nat, NEW q \in Nat, Fits(b, p, q), q <= Len(b)
  PROVE  /\ Begin(b, p) \in p + 2 .. q /\ End(b, p) \in Begin(b, p) .. q /\ Header(b, p)
         /\ Begin(b, p) \in Nat /\ End(b, p) \in Nat /\ p + 2 <= Begin(b, p) /\ Begin(b, p) <= End(b, p) /\ End(b, p) <= q
         /\ Begin(b, p) \in 0 .. Len(b) /\ End(b, p) \in 0 .. Len(b)
<1>1. Header(b, p) /\ End(b, p) <= q
  BY DEF Fits
<1> DEFINE x == Begin(b, p)
           y == End(b, p)
           L == Len(b)
<1>2. L \in Nat /\ x \in p + 2 .. L /\ y \in x .. L /\ y <= q /\ q <= L
  BY <1>1, HeaderIs
<1> HIDE DEF x, y, L
<1>3. /\ x \in p + 2 .. q /\ y \in x .. q /\ x \in Nat /\ y \in Nat /\ p + 2 <= x /\ x <= y /\ y <= q
      /\ x \in 0 .. L /\ y \in 0 .. L
  BY <1>2
<1> QED BY <1>1, <1>3 DEF x, y, L

Alikes(m) ==
  \A b, c \in Seq(Byte) : \A p, u \in Nat :
    Same(b, p, c, u, m) => collectSubs(b, p, p + m) = collectSubs(c, u, u + m)

\* One more byte.
LEMMA AlikesNext ==
  ASSUME NEW n \in Nat, n # 0, \A m \in 0 .. n - 1 : Alikes(m),
         NEW b, NEW p, NEW c, NEW u, Same(b, p, c, u, n)
  PROVE  collectSubs(b, p, p + n) = collectSubs(c, u, u + n)
<1>0. b \in Seq(Byte) /\ c \in Seq(Byte) /\ p \in Nat /\ u \in Nat /\ Len(b) \in Nat /\ Len(c) \in Nat
      /\ p + n <= Len(b) /\ u + n <= Len(c)
  BY LenProperties DEF Same
<1> DEFINE q == p + n
           w == u + n
           L == Len(b)
           M == Len(c)
<1>1. q \in 0 .. L /\ p \in 0 .. L /\ p < q /\ w \in 0 .. M /\ u \in 0 .. M /\ u < w /\ q <= L /\ w <= M /\ q \in Nat /\ w \in Nat
  <2>1. L \in Nat /\ M \in Nat /\ p + n <= L /\ u + n <= M
    BY <1>0
  <2> HIDE DEF L, M
  <2> QED BY <1>0, <2>1
<1>2. Same(c, u, b, p, n)
  BY SameTurns
<1>3. Fits(b, p, q) <=> Fits(c, u, w)
  BY <1>2, SameFits
<1>4. CASE ~ Fits(b, p, q)
  <2> HIDE DEF q, w
  <2>1. collectSubs(b, p, q) = Thrown
    BY <1>0, <1>1, <1>4, Misfit DEF L
  <2>2. collectSubs(c, u, w) = Thrown
    BY <1>0, <1>1, <1>3, <1>4, Misfit DEF M
  <2> QED BY <2>1, <2>2 DEF q, w
<1>5. CASE Fits(b, p, q)
  <2> DEFINE x == Begin(b, p)
             y == End(b, p)
             s == Begin(c, u)
             t == End(c, u)
             f == parseStream(b, p)
             g == parseStream(c, u)
  <2>1. Header(b, p) /\ x \in Nat /\ y \in Nat /\ p + 2 <= x /\ x <= y /\ y <= q
    <3> HIDE DEF q
    <3> QED BY <1>0, <1>1, <1>5, HeaderEnds
  <2>2. s = u + (x - p) /\ t = u + (y - p) /\ Same(b, x, c, s, y - x)
    <3>1. Header(b, p) /\ End(b, p) <= p + n
      BY <1>5 DEF Fits
    <3> QED BY <3>1, SameHeader
  <2> HIDE DEF x, y, s, t
  <2>3. y - x \in 0 .. n - 1 /\ x + (y - x) = y /\ s + (y - x) = t /\ s \in Nat /\ t \in Nat
        /\ n - (y - p) \in 0 .. n - 1 /\ y + (n - (y - p)) = q /\ t + (n - (y - p)) = w /\ y - p \in 0 .. n /\ p + (y - p) = y
        /\ n \in 0 .. n
    BY <1>0, <2>1, <2>2
  <2>4. InsideOf(b, p) = InsideOf(c, u)
    <3> DEFINE m == y - x
    <3>1. m \in 0 .. n - 1 /\ x + m = y /\ s + m = t /\ Same(b, x, c, s, m)
      BY <2>2, <2>3
    <3> HIDE DEF m
    <3>2. Alikes(m)
      BY <3>1
    <3>3. collectSubs(b, x, x + m) = collectSubs(c, s, s + m)
      BY <1>0, <2>1, <2>3, <3>1, <3>2 DEF Alikes
    <3> QED BY <3>1, <3>3 DEF InsideOf, x, y, s, t
  <2>5. /\ g.ok <=> f.ok
        /\ f.ok => g = [ok |-> TRUE, next |-> t, obj |-> f.obj]
    <3>1. /\ g.ok <=> f.ok
          /\ f.ok => g = [ok |-> TRUE, next |-> u + (y - p), obj |-> f.obj]
      BY <1>5, <2>4, SameParsed DEF y
    <3> QED BY <2>2, <3>1
  <2>6. f.ok => f.next = y
    BY <1>0, ParsedIs DEF y
  <2>7. collectSubs(b, y, q) = collectSubs(c, t, w)
    <3> DEFINE i == y - p
    <3>1. i \in 0 .. n /\ n \in 0 .. n /\ p + i = y /\ u + i = t
      BY <2>2, <2>3
    <3> HIDE DEF i
    <3>2. Same(b, p + i, c, u + i, n - i)
      BY <3>1, SamePart
    <3> DEFINE m == n - i
    <3>3. m \in 0 .. n - 1 /\ y + m = q /\ t + m = w /\ Same(b, y, c, t, m)
      BY <2>3, <3>1, <3>2 DEF i
    <3> HIDE DEF m
    <3>4. Alikes(m)
      BY <3>3
    <3>5. collectSubs(b, y, y + m) = collectSubs(c, t, t + m)
      BY <1>0, <2>1, <2>3, <3>3, <3>4 DEF Alikes
    <3> QED BY <3>3, <3>5
  <2> HIDE DEF q, w, f, g
  <2>8. collectSubs(b, p, q) = CollectedFrom(f, collectSubs(b, f.next, q))
    BY <1>0, <1>1, CollectedIs DEF f, L
  <2>9. collectSubs(c, u, w) = CollectedFrom(g, collectSubs(c, g.next, w))
    BY <1>0, <1>1, CollectedIs DEF g, M
  <2>10. CASE f.ok
    <3>1. g.ok /\ g.next = t /\ g.obj = f.obj /\ f.next = y
      BY <2>5, <2>6, <2>10
    <3>2. collectSubs(b, f.next, q) = collectSubs(c, g.next, w)
      BY <2>7, <3>1
    <3> DEFINE r == collectSubs(b, f.next, q)
    <3>3. collectSubs(b, p, q) = CollectedFrom(f, r) /\ collectSubs(c, u, w) = CollectedFrom(g, r)
      BY <2>8, <2>9, <3>2
    <3> HIDE DEF r
    <3> QED BY <2>10, <3>1, <3>3 DEF CollectedFrom, q, w
  <2>11. CASE ~ f.ok
    <3>1. collectSubs(b, p, q) = Thrown /\ collectSubs(c, u, w) = Thrown
      BY <2>5, <2>8, <2>9, <2>11 DEF CollectedFrom
    <3> QED BY <3>1 DEF q, w
  <2> QED BY <2>10, <2>11
<1> QED BY <1>4, <1>5

\* From one place to another, what is read depends on the bytes between them.
LEMMA SameCollected ==
  ASSUME NEW b, NEW p, NEW c, NEW u, NEW n, Same(b, p, c, u, n)
  PROVE  collectSubs(b, p, p + n) = collectSubs(c, u, u + n)
<1> DEFINE Bad == {m \in Nat : ~ Alikes(m)}
<1>1. Bad = {}
  <2>1. SUFFICES ASSUME Bad # {} PROVE FALSE
    OBVIOUS
  <2>2. PICK k \in Bad : \A j \in Bad : k <= j
    <3>1. Bad \in SUBSET Nat
      OBVIOUS
    <3> HIDE DEF Bad
    <3> QED BY <2>1, <3>1, LeastNumber
  <2>3. k \in Nat /\ ~ Alikes(k)
    BY <2>2
  <2>4. PICK d, e \in Seq(Byte) : \E i, j \in Nat :
          Same(d, i, e, j, k) /\ collectSubs(d, i, i + k) # collectSubs(e, j, j + k)
    BY <2>3 DEF Alikes
  <2>5. PICK i, j \in Nat : Same(d, i, e, j, k) /\ collectSubs(d, i, i + k) # collectSubs(e, j, j + k)
    BY <2>4
  <2>6. CASE k = 0
    <3>0. i + k <= Len(d) /\ j + k <= Len(e)
      BY <2>5 DEF Same
    <3>1. i \in 0 .. Len(d) /\ j \in 0 .. Len(e) /\ i + k = i /\ j + k = j
      <4>1. Len(d) \in Nat /\ Len(e) \in Nat
        BY LenProperties
      <4> QED BY <2>6, <3>0, <4>1
    <3>2. collectSubs(d, i, i) = [ok |-> TRUE, subs |-> <<>>] /\ collectSubs(e, j, j) = [ok |-> TRUE, subs |-> <<>>]
      BY <3>1, CollectedIs
    <3> QED BY <2>5, <3>1, <3>2
  <2>7. CASE k # 0
    <3>1. \A m \in 0 .. k - 1 : m \in Nat /\ ~ (k <= m)
      BY <2>3
    <3>2. \A m \in 0 .. k - 1 : Alikes(m)
      BY <2>2, <3>1
    <3>3. collectSubs(d, i, i + k) = collectSubs(e, j, j + k)
      BY <2>3, <2>5, <2>7, <3>2, AlikesNext
    <3> QED BY <2>5, <3>3
  <2> QED BY <2>6, <2>7
<1>2. n \in Nat /\ b \in Seq(Byte) /\ c \in Seq(Byte) /\ p \in Nat /\ u \in Nat
  BY DEF Same
<1>3. Alikes(n)
  BY <1>1, <1>2
<1> QED BY <1>2, <1>3 DEF Alikes

LEMMA SameRead ==
  ASSUME NEW b, NEW p, NEW c, NEW u, NEW n, Same(b, p, c, u, n), parseStream(b, p).ok, parseStream(b, p).next <= p + n
  PROVE  parseStream(c, u) =
           [ok |-> TRUE, next |-> u + (parseStream(b, p).next - p), obj |-> parseStream(b, p).obj]
<1>0. b \in Seq(Byte) /\ c \in Seq(Byte) /\ p \in Nat /\ u \in Nat /\ n \in Nat /\ p + n <= Len(b)
  BY DEF Same
<1>1. Header(b, p) /\ parseStream(b, p).next = End(b, p)
  BY <1>0, ParsedIs
<1>2. Fits(b, p, p + n)
  BY <1>1 DEF Fits
<1> DEFINE x == Begin(b, p)
           y == End(b, p)
           s == Begin(c, u)
           m == y - x
<1>3. s = u + (x - p) /\ End(c, u) = u + (y - p) /\ Same(b, x, c, s, m)
  BY <1>1, <1>2, SameHeader DEF Fits
<1>4. x \in Nat /\ y \in Nat /\ p + 2 <= x /\ x <= y
  <2>1. p + n \in Nat
    BY <1>0
  <2> QED BY <1>0, <1>2, <2>1, HeaderEnds
<1> HIDE DEF x, y, s
<1>5. x + m = y /\ s + m = u + (y - p)
  BY <1>0, <1>3, <1>4
<1> HIDE DEF m
<1>6. collectSubs(b, x, x + m) = collectSubs(c, s, s + m)
  BY <1>3, SameCollected
<1>7. InsideOf(b, p) = InsideOf(c, u)
  BY <1>3, <1>5, <1>6 DEF InsideOf, x, y, s
<1> QED BY <1>1, <1>2, <1>7, SameParsed

-----------------------------------------------------------------------------
(* A length, as it is written, is the shortest that states it, and is read.    *)
Large == 64 * 256 * 256 * 256

LEMMA OneMore ==
  ASSUME NEW c \in Seq(Byte), NEW x \in Byte
  PROVE  \E d \in Seq(Byte) : BigEndian(d) = BigEndian(c) * 256 + x /\ Len(d) = Len(c) + 1
<1>1. Append(c, x) \in Seq(Byte) /\ Len(Append(c, x)) = Len(c) + 1
  BY AppendProperties
<1>2. BigEndian(Append(c, x)) = BigEndian(c) * 256 + x
  BY BigEndianAppend
<1> QED BY <1>1, <1>2

LEMMA DigitsFew ==
  ASSUME NEW n \in Nat, n <= Large
  PROVE  Len(Digits[n]) <= 4 /\ Len(Digits[n]) \in Nat
<1> DEFINE X == 255 * 256 + 255
           Y == X * 256 + 255
           Z == Y * 256 + 255
           one == 255
<1>0. one \in Byte /\ one = 255
  BY DEF Byte
<1>1. PICK c \in Seq(Byte) : BigEndian(c) = 255 /\ Len(c) = 1
  <2> HIDE DEF one
  <2>1. <<>> \in Seq(Byte) /\ Len(<<>>) = 0
    BY EmptySeq
  <2>2. PICK c \in Seq(Byte) : BigEndian(c) = BigEndian(<<>>) * 256 + one /\ Len(c) = Len(<<>>) + 1
    BY ZenonT(40), <1>0, <2>1, OneMore
  <2>3. BigEndian(c) = 0 * 256 + 255 /\ Len(c) = 0 + 1
    BY <1>0, <2>1, <2>2, BigEndianEmpty
  <2>4. 0 * 256 + 255 = 255 /\ 0 + 1 = 1
    OBVIOUS
  <2> QED BY <2>2, <2>3, <2>4
<1>2. PICK d \in Seq(Byte) : BigEndian(d) = X /\ Len(d) = 2
  <2> HIDE DEF one
  <2>1. PICK d \in Seq(Byte) : BigEndian(d) = BigEndian(c) * 256 + one /\ Len(d) = Len(c) + 1
    BY <1>0, OneMore
  <2>2. BigEndian(d) = X /\ Len(d) = 1 + 1
    BY <1>0, <1>1, <2>1
  <2>3. 1 + 1 = 2
    OBVIOUS
  <2> QED BY <2>2, <2>3
<1>3. PICK e \in Seq(Byte) : BigEndian(e) = Y /\ Len(e) = 3
  <2> HIDE DEF one, X
  <2>1. PICK e \in Seq(Byte) : BigEndian(e) = BigEndian(d) * 256 + one /\ Len(e) = Len(d) + 1
    BY <1>0, OneMore
  <2>2. BigEndian(e) = Y /\ Len(e) = 2 + 1
    BY <1>0, <1>2, <2>1
  <2>3. 2 + 1 = 3
    OBVIOUS
  <2> QED BY <2>2, <2>3
<1>4. PICK f \in Seq(Byte) : BigEndian(f) = Z /\ Len(f) = 4
  <2> HIDE DEF one, X, Y
  <2>1. PICK f \in Seq(Byte) : BigEndian(f) = BigEndian(e) * 256 + one /\ Len(f) = Len(e) + 1
    BY <1>0, OneMore
  <2>2. BigEndian(f) = Z /\ Len(f) = 3 + 1
    BY <1>0, <1>3, <2>1
  <2>3. 3 + 1 = 4
    OBVIOUS
  <2> QED BY <2>2, <2>3
<1>5. n <= Z
  BY SMT DEF Large
<1> HIDE DEF X, Y, Z
<1>6. Len(Digits[n]) <= 4
  BY <1>4, <1>5, DigitsAreFew
<1>7. Len(Digits[n]) \in Nat
  BY EncodeLengthIs
<1> QED BY <1>6, <1>7

LEMMA LongForm ==
  ASSUME NEW n \in Nat, n <= Large, ~ (n < 128)
  PROVE  /\ encodeLength(n) = <<128 + Len(Digits[n])>> \o Digits[n] /\ Digits[n] \in Seq(Byte)
         /\ Len(Digits[n]) \in 1 .. 4 /\ 128 + Len(Digits[n]) \in Byte /\ BigEndian(Digits[n]) = n
<1> DEFINE d == Digits[n]
<1>1. d \in Seq(Byte) /\ BigEndian(d) = n
  BY DigitsAre, DigitsState
<1>2. encodeLength(n) = <<128 + Len(d)>> \o d
  BY DEF encodeLength
<1>3. Len(d) <= 4 /\ Len(d) \in Nat
  BY DigitsFew
<1>4. Len(d) # 0
  <2>1. SUFFICES ASSUME Len(d) = 0 PROVE FALSE
    OBVIOUS
  <2>2. d = <<>>
    <3> HIDE DEF d
    <3> QED BY <1>1, <2>1, EmptySeq
  <2>3. n = 0
    BY <1>1, <2>2, BigEndianEmpty
  <2> QED BY <2>3
<1> DEFINE k == Len(d)
<1>50. k \in Nat /\ k <= 4 /\ k # 0
  BY <1>3, <1>4
<1> HIDE DEF k
<1>51. k \in 1 .. 4 /\ 128 + k \in 0 .. 255
  BY <1>50
<1>5. Len(d) \in 1 .. 4 /\ 128 + Len(d) \in 0 .. 255
  BY <1>51 DEF k
<1> HIDE DEF d
<1>6. 128 + Len(d) \in Byte
  BY <1>5 DEF Byte
<1> QED BY <1>1, <1>2, <1>5, <1>6 DEF d

LEMMA EncodedIsBytes ==
  ASSUME NEW n \in Nat, n <= Large
  PROVE  encodeLength(n) \in Seq(Byte)
<1>1. CASE n < 128
  <2>1. encodeLength(n) = <<n>> /\ n \in Byte
    BY <1>1 DEF encodeLength, Byte
  <2> QED BY <2>1
<1>2. CASE ~ (n < 128)
  <2> DEFINE x == 128 + Len(Digits[n])
             d == Digits[n]
  <2>1. encodeLength(n) = <<x>> \o d /\ x \in Byte
    BY <1>2, LongForm
  <2>2. d \in Seq(Byte)
    BY <1>2, LongForm
  <2> HIDE DEF x, d
  <2>3. <<x>> \o d \in Seq(Byte)
    BY <2>1, <2>2, ConsIs
  <2> QED BY <2>1, <2>3
<1> QED BY <1>1, <1>2

LEMMA EncodedIsRead ==
  ASSUME NEW n \in Nat, n <= Large
  PROVE  decodeLength(encodeLength(n), 0) = [ok |-> TRUE, value |-> n, next |-> Len(encodeLength(n))]
<1> DEFINE e == encodeLength(n)
           L == Len(e)
           count == e[1] % 128
           len == BigEndian(SubSeq(e, 2, 1 + count))
<1>1. decodeLength(e, 0) =
        IF 0 >= L THEN Thrown
        ELSE IF e[1] < 128 THEN [ok |-> TRUE, value |-> e[1], next |-> 1]
        ELSE IF count > 6 \/ 1 + count > L THEN Thrown
        ELSE IF len = 0 THEN Thrown
        ELSE [ok |-> TRUE, value |-> len, next |-> 1 + count]
  <2> DEFINE z == 0
             x == e[z + 1]
             k == x % 128
             m == BigEndian(SubSeq(e, z + 2, z + 1 + k))
  <2>1. decodeLength(e, z) =
          IF z >= L THEN Thrown
          ELSE IF x < 128 THEN [ok |-> TRUE, value |-> x, next |-> z + 1]
          ELSE IF k > 6 \/ z + 1 + k > L THEN Thrown
          ELSE IF m = 0 THEN Thrown
          ELSE [ok |-> TRUE, value |-> m, next |-> z + 1 + k]
    BY DEF decodeLength, getUint8, Indefinite
  <2>2. z + 1 = 1 /\ z + 2 = 2 /\ x = e[1] /\ k = count /\ z + 1 + k = 1 + count
    OBVIOUS
  <2>3. m = len
    BY <2>2
  <2> HIDE DEF e, L, x, k, m, count, len
  <2> QED BY <2>1, <2>2, <2>3
<1>2. CASE n < 128
  <2>1. e = <<n>>
    BY <1>2 DEF encodeLength
  <2>2. L = 1 /\ e[1] = n
    BY <2>1
  <2> HIDE DEF e, L, count, len
  <2>3. ~ (0 >= L)
    BY <2>2
  <2>4. decodeLength(e, 0) = [ok |-> TRUE, value |-> n, next |-> L]
    BY <1>1, <1>2, <2>2, <2>3
  <2> QED BY <2>4 DEF e, L
<1>3. CASE ~ (n < 128)
  <2> DEFINE d == Digits[n]
             k == Len(d)
             x == 128 + k
             a == <<x>>
  <2>1. /\ e = a \o d /\ d \in Seq(Byte) /\ k \in 1 .. 4 /\ x \in Byte /\ BigEndian(d) = n
    BY <1>3, LongForm
  <2>2. a \in Seq(Byte) /\ Len(a) = 1
    BY <2>1
  <2>3. a[1] = x
    OBVIOUS
  <2> HIDE DEF e, d, L, count, len, a
  <2>4. (a \o d)[1] = x /\ Len(a \o d) = k + 1
    <3> HIDE DEF x
    <3>1. (<<x>> \o d)[1] = x /\ Len(<<x>> \o d) = Len(d) + 1
      BY <2>1, ConsIs
    <3> QED BY <3>1 DEF a
  <2>5. SubSeq(a \o d, Len(a) + 1, Len(a) + Len(d)) = d
    BY <2>1, <2>2, CutParts
  <2> HIDE DEF k
  <2>6. e[1] = 128 + k /\ L = k + 1
    BY <2>1, <2>4 DEF L
  <2>7. count = k
    <3>1. (128 + k) % 128 = k
      BY <2>1
    <3> QED BY <2>6, <3>1 DEF count
  <2>8. len = n
    <3>1. Len(a) + 1 = 2 /\ Len(a) + Len(d) = 1 + count
      BY <2>2, <2>7 DEF k
    <3>2. SubSeq(e, 2, 1 + count) = d
      BY <2>1, <2>5, <3>1
    <3> QED BY <2>1, <3>2 DEF len
  <2>9. ~ (0 >= L) /\ ~ (e[1] < 128) /\ ~ (count > 6 \/ 1 + count > L) /\ len # 0 /\ 1 + count = L
    BY <1>3, <2>1, <2>6, <2>7, <2>8
  <2>10. decodeLength(e, 0) = [ok |-> TRUE, value |-> n, next |-> L]
    BY <1>1, <2>8, <2>9
  <2> QED BY <2>10 DEF e, L
<1> QED BY <1>2, <1>3

LEMMA TailIs ==
  ASSUME NEW c \in Seq(Byte), Len(c) \in 2 .. 127
  PROVE  /\ Tail(c) \in Seq(Byte) /\ Len(Tail(c)) = Len(c) - 1 /\ Tail(c)[1] = c[2] /\ c = <<c[1]>> \o Tail(c)
         /\ Tail(c) # <<>>
<1> DEFINE L == Len(c)
           t == Tail(c)
<1>0. L \in Nat /\ 2 <= L /\ L # 0 /\ 0 < L /\ L \in 0 .. L /\ 1 \in 0 .. L /\ 0 \in 0 .. 1
  <2>1. L \in 2 .. 127
    OBVIOUS
  <2> HIDE DEF L
  <2> QED BY <2>1
<1>1. c # <<>>
  <2>1. Len(<<>>) = 0
    BY EmptySeq
  <2> QED BY <1>0, <2>1
<1>2. t \in Seq(Byte) /\ Len(t) = L - 1 /\ \A i \in 1 .. Len(t) : t[i] = c[i + 1]
  BY <1>1, HeadTailProperties
<1>3. t = SubSeq(c, 2, L)
  BY <1>1, TailIsSubSeq
<1> HIDE DEF t
<1>4. t[1] = c[2]
  <2>1. 1 \in 1 .. Len(t) /\ 1 + 1 = 2
    BY <1>0, <1>2
  <2> QED BY <1>2, <2>1
<1>5. SubSeq(c, 0 + 1, 1) \o SubSeq(c, 1 + 1, L) = SubSeq(c, 0 + 1, L)
  <2>1. L \in 0 .. Len(c)
    BY <1>0
  <2> HIDE DEF L
  <2> QED BY <1>0, <2>1, CutJoin
<1>6. SubSeq(c, 0 + 1, 0 + 1) = <<c[0 + 1]>>
  <2>1. 0 \in Nat /\ 0 < Len(c)
    BY <1>0
  <2> QED BY <2>1, CutOne
<1>7. 0 + 1 = 1 /\ 1 + 1 = 2
  OBVIOUS
<1>8. SubSeq(c, 1, L) = c
  BY SubSeqFull
<1>9. <<c[1]>> \o t = c
  BY <1>3, <1>5, <1>6, <1>7, <1>8
<1>10. t # <<>>
  <2>1. L - 1 # 0
    <3> HIDE DEF L
    <3> QED BY <1>0
  <2>2. Len(t) # 0
    BY <1>2, <2>1
  <2>3. Len(<<>>) = 0
    BY EmptySeq
  <2> QED BY <2>2, <2>3
<1> QED BY <1>2, <1>4, <1>9, <1>10 DEF t

LEMMA EncodedIsExact ==
  ASSUME NEW c \in Seq(Byte), NEW n \in Nat, States(c, n, TRUE)
  PROVE  encodeLength(n) = c
<1>1. CASE n < 128 /\ c = <<n>>
  BY <1>1 DEF encodeLength
<1>2. CASE Len(c) \in 2 .. 127 /\ c[1] = 127 + Len(c) /\ BigEndian(Tail(c)) = n /\ n > 127 /\ c[2] # 0
  <2> DEFINE t == Tail(c)
  <2>1. t \in Seq(Byte) /\ Len(t) = Len(c) - 1 /\ t[1] = c[2] /\ c = <<c[1]>> \o t
    BY <1>2, TailIs
  <2>2. Digits[BigEndian(t)] = t
    <3> HIDE DEF t
    <3> QED BY <1>2, <2>1, DigitsAreThose
  <2>3. Digits[n] = t /\ ~ (n < 128)
    BY <1>2, <2>2
  <2> HIDE DEF t
  <2>4. 128 + Len(t) = c[1]
    BY <1>2, <2>1
  <2>5. encodeLength(n) = <<128 + Len(t)>> \o t
    BY <2>3 DEF encodeLength
  <2> QED BY <2>1, <2>4, <2>5
<1> QED BY <1>1, <1>2 DEF States

LEMMA EncodedIsShort ==
  ASSUME NEW c \in Seq(Byte), NEW n \in Nat, States(c, n, FALSE), NEW m \in Nat, m <= n
  PROVE  Len(encodeLength(m)) <= Len(c)
<1>0. Len(encodeLength(m)) = (IF m < 128 THEN 1 ELSE 1 + Len(Digits[m])) /\ Len(Digits[m]) \in Nat /\ Len(c) \in Nat
  <2>1. Len(c) \in Nat
    BY LenProperties
  <2> QED BY <2>1, EncodeLengthIs
<1>1. CASE n < 128 /\ c = <<n>>
  <2>1. m < 128 /\ Len(c) = 1
    BY <1>1
  <2> QED BY <1>0, <2>1
<1>2. CASE Len(c) \in 2 .. 127 /\ c[1] = 127 + Len(c) /\ BigEndian(Tail(c)) = n
  <2> DEFINE t == Tail(c)
  <2>1. t \in Seq(Byte) /\ Len(t) = Len(c) - 1
    BY <1>2, TailIs
  <2>2. m <= BigEndian(t)
    BY <1>2
  <2> HIDE DEF t
  <2>3. Len(Digits[m]) <= Len(t)
    BY <2>1, <2>2, DigitsAreFew
  <2> DEFINE L == Len(c)
             k == Len(Digits[m])
             e == Len(encodeLength(m))
  <2>4. L \in Nat /\ k \in Nat /\ k <= L - 1 /\ L \in 2 .. 127 /\ e = IF m < 128 THEN 1 ELSE 1 + k
    BY <1>0, <1>2, <2>1, <2>3
  <2> HIDE DEF L, k, e
  <2>5. e <= L
    BY <2>4
  <2> QED BY <2>5 DEF L, e
<1> QED BY <1>1, <1>2 DEF States

-----------------------------------------------------------------------------
(* What is written of what was read.                                       *)
Few(b) == b \in Seq(Byte) /\ Len(b) <= MaxBytes

LEMMA FewAre ==
  ASSUME NEW b, Few(b)
  PROVE  /\ b \in Seq(Byte) /\ Len(b) \in Nat /\ Len(b) <= MaxBytes /\ Len(b) <= MaxDepth /\ Len(b) <= Large
         /\ MaxDepth \in Nat /\ MaxBytes \in Nat
<1>1. MaxBytes <= Large
  BY Zenon, BytesAssumption DEF Large
<1>2. MaxBytes \in Nat /\ MaxDepth \in Nat /\ MaxBytes <= MaxDepth
  BY BoundsAre
<1>3. Large \in Nat
  BY SMT DEF Large
<1>4. b \in Seq(Byte) /\ Len(b) \in Nat /\ Len(b) <= MaxBytes
  BY LenProperties DEF Few
<1> QED BY <1>1, <1>2, <1>3, <1>4

LEMMA ContentsNone == Contents(<<>>) = <<>>
<1>1. Len(<<>>) = 0
  BY EmptySeq
<1>2. [k \in 1 .. 0 |-> toDER(<<>>[k])] = <<>>
  OBVIOUS
<1> QED BY <1>1, <1>2, FlattenNone DEF Contents

LEMMA ContentsAre ==
  ASSUME MaxDepth \in Nat, NEW s \in Seq(Objects[MaxDepth])
  PROVE  [k \in 1 .. Len(s) |-> toDER(s[k])] \in Seq(Seq(Nat)) /\ Len([k \in 1 .. Len(s) |-> toDER(s[k])]) = Len(s)
<1> DEFINE n == Len(s)
           t == [k \in 1 .. n |-> toDER(s[k])]
<1>1. n \in Nat
  BY LenProperties
<1>2. ASSUME NEW k \in 1 .. n PROVE toDER(s[k]) \in Seq(Nat)
  <2>1. s[k] \in Objects[MaxDepth]
    BY ElementOfSeq
  <2> QED BY <2>1, ToDERIs
<1> HIDE DEF n
<1>3. t \in [1 .. n -> Seq(Nat)]
  BY <1>2
<1>4. t \in Seq(Seq(Nat)) /\ Len(t) = n
  BY <1>1, <1>3
<1> QED BY <1>4 DEF n

LEMMA ContentsCons ==
  ASSUME MaxDepth \in Nat, NEW o \in Objects[MaxDepth], NEW s \in Seq(Objects[MaxDepth])
  PROVE  Contents(<<o>> \o s) = toDER(o) \o Contents(s)
<1> DEFINE all == <<o>> \o s
           n == Len(s)
           t == [k \in 1 .. Len(s) |-> toDER(s[k])]
           a == [k \in 1 .. Len(all) |-> toDER(all[k])]
           w == toDER(o)
           z == <<w>> \o t
<1>1. all \in Seq(Objects[MaxDepth]) /\ Len(all) = n + 1 /\ n \in Nat /\ all[1] = o /\ \A i \in 1 .. n : all[i + 1] = s[i]
  <2> DEFINE S == Objects[MaxDepth]
  <2>1. o \in S /\ s \in Seq(S)
    OBVIOUS
  <2> HIDE DEF S
  <2>2. /\ <<o>> \o s \in Seq(S) /\ Len(<<o>> \o s) = Len(s) + 1 /\ Len(s) \in Nat /\ (<<o>> \o s)[1] = o
        /\ \A i \in 1 .. Len(s) : (<<o>> \o s)[i + 1] = s[i]
    BY <2>1, ConsIs
  <2> QED BY <2>2 DEF S
<1>2. t \in Seq(Seq(Nat)) /\ Len(t) = n
  BY ContentsAre
<1> HIDE DEF all
<1>3. a \in Seq(Seq(Nat)) /\ Len(a) = n + 1
  BY <1>1, ContentsAre
<1>4. w \in Seq(Nat)
  BY ToDERIs
<1>5. \A k \in 1 .. n + 1 : a[k] = toDER(all[k])
  BY <1>1
<1>6. \A k \in 1 .. n : t[k] = toDER(s[k])
  OBVIOUS
<1>60. t \in Seq(Seq(Nat))
  BY <1>2
<1> HIDE DEF t, w, a
<1>7. z \in Seq(Seq(Nat)) /\ Len(z) = Len(t) + 1 /\ z[1] = w /\ \A i \in 1 .. Len(t) : z[i + 1] = t[i]
  BY <1>4, <1>60, ConsIs
<1> HIDE DEF z, n
<1>8. ASSUME NEW k \in 1 .. Len(a) PROVE a[k] = z[k]
  <2>1. k \in 1 .. n + 1
    BY <1>3
  <2>2. CASE k = 1
    BY <1>1, <1>5, <1>7, <2>1, <2>2 DEF w
  <2>3. CASE k # 1
    <3>1. k - 1 \in 1 .. n /\ (k - 1) + 1 = k
      BY <1>1, <2>1, <2>3
    <3>2. z[(k - 1) + 1] = t[k - 1] /\ all[(k - 1) + 1] = s[k - 1]
      BY <1>1, <1>2, <1>7, <3>1
    <3>3. t[k - 1] = toDER(s[k - 1])
      BY <1>6, <3>1
    <3> QED BY <1>5, <2>1, <3>1, <3>2, <3>3
  <2> QED BY <2>2, <2>3
<1>9. Len(a) = Len(z)
  BY <1>2, <1>3, <1>7
<1>10. a = z
  BY <1>3, <1>7, <1>8, <1>9, SeqEqual
<1>11. FlattenSeq(<<w>> \o t) = w \o FlattenSeq(t)
  BY <1>4, <1>60, FlattenCons
<1>12. Contents(all) = FlattenSeq(a) /\ Contents(s) = FlattenSeq(t)
  BY DEF Contents, a, t
<1> QED BY <1>10, <1>11, <1>12 DEF z, w, all

Finding(b, p, q, v) ==
  /\ p <= q /\ v.subs \in Seq(Objects[MaxDepth])
  /\ v.subs = <<>> => SubSeq(b, p + 1, q) = <<>>

LEMMA CollectedFits ==
  ASSUME NEW b, Few(b), NEW p \in 0 .. Len(b), NEW q \in 0 .. Len(b), collectSubs(b, p, q).ok
  PROVE  Finding(b, p, q, collectSubs(b, p, q))
<1> DEFINE v == collectSubs(b, p, q)
           n == Len(b) - p
<1>0. b \in Seq(Byte) /\ Len(b) \in Nat /\ MaxDepth \in Nat /\ n \in Nat /\ n <= MaxDepth /\ p \in Nat /\ q \in Nat /\ q <= Len(b)
  <2>1. b \in Seq(Byte) /\ Len(b) \in Nat /\ Len(b) <= MaxDepth /\ MaxDepth \in Nat
    BY FewAre
  <2> QED BY <2>1
<1>1. Good(b, p, q, v)
  <2>1. AllGood(b, Between(b))
    BY <1>0, BetweenIsThat
  <2> QED BY <2>1 DEF AllGood, collectSubs
<1>2. v.ok
  OBVIOUS
<1> HIDE DEF v
<1>3. v \in Read(n) /\ p <= q /\ Tile(v.subs, SubSeq(b, p + 1, q), Encodings(FALSE)[n])
  BY <1>1, <1>2 DEF Good
<1>4. v.subs \in Seq(Objects[n])
  BY <1>2, <1>3, ReadSubs
<1>5. Objects[n] \subseteq Objects[MaxDepth]
  <2> HIDE DEF n
  <2> QED BY <1>0, ObjectsGrow
<1>6. v.subs \in Seq(Objects[MaxDepth])
  BY <1>4, <1>5, SeqMonotonic
<1>7. SubSeq(b, p + 1, q) \in Seq(Byte)
  <2>1. q \in 0 .. Len(b) /\ p \in 0 .. q
    BY <1>0, <1>3
  <2> QED BY <1>0, <2>1, Cut
<1>8. v.subs = <<>> => SubSeq(b, p + 1, q) = <<>>
  BY <1>3, <1>7, TileOfNone
<1>9. Finding(b, p, q, v)
  BY <1>3, <1>6, <1>8 DEF Finding
<1> QED BY <1>9 DEF v

LEMMA CollectedMore ==
  ASSUME NEW b, Few(b), NEW p \in 0 .. Len(b), NEW q \in 0 .. Len(b), collectSubs(b, p, q).ok, p # q
  PROVE  /\ p < q /\ Fits(b, p, q) /\ parseStream(b, p).ok /\ parseStream(b, p).next = End(b, p)
         /\ collectSubs(b, End(b, p), q).ok
         /\ collectSubs(b, p, q).subs = <<parseStream(b, p).obj>> \o collectSubs(b, End(b, p), q).subs
<1>0. b \in Seq(Byte) /\ p \in Nat /\ q \in Nat
  BY FewAre
<1>1. p < q
  <2>1. p <= q
    BY CollectedFits DEF Finding
  <2> QED BY <1>0, <2>1
<1> DEFINE x == parseStream(b, p)
           y == collectSubs(b, x.next, q)
           v == collectSubs(b, p, q)
<1>2. v = CollectedFrom(x, y)
  BY <1>0, <1>1, CollectedIs
<1>3. ~ Thrown.ok /\ v.ok
  BY DEF Thrown
<1>4. x.ok => x.next = End(b, p)
  BY <1>0, ParsedIs
<1> HIDE DEF v, x, y
<1>5. x.ok /\ y.ok /\ v.subs = <<x.obj>> \o y.subs
  <2>1. x.ok /\ y.ok
    BY <1>2, <1>3 DEF CollectedFrom
  <2>2. v = [ok |-> TRUE, subs |-> <<x.obj>> \o y.subs]
    BY <1>2, <2>1 DEF CollectedFrom
  <2> QED BY <2>1, <2>2
<1>6. Fits(b, p, q)
  <2>1. SUFFICES ASSUME ~ Fits(b, p, q) PROVE FALSE
    OBVIOUS
  <2>2. collectSubs(b, p, q) = Thrown
    BY <1>0, <1>1, <2>1, Misfit
  <2> QED BY <1>3, <2>2 DEF v
<1> QED BY <1>1, <1>4, <1>5, <1>6 DEF x, y, v

-----------------------------------------------------------------------------
(* What is in the object at p: objects, or bytes.                            *)
HasMore(b, p) == MayHold(Plain(b, p)) /\ InsideOf(b, p).ok
ContentRead(b, p) == IF HasMore(b, p) THEN Contents(InsideOf(b, p).subs) ELSE Plain(b, p).value

ReadAs(b, p, x) ==
  /\ x.obj \in Objects[MaxDepth] /\ x.obj.tag = ASN1Tag(b[p + 1]) /\ x.obj.tag \in Tags
  /\ ContentOf(x.obj) = ContentRead(b, p)
  /\ toDER(x.obj) = Wrap(ASN1Tag(b[p + 1]), ContentRead(b, p))

LEMMA WhatIsRead ==
  ASSUME NEW b, Few(b), NEW p \in Nat, parseStream(b, p).ok
  PROVE  /\ Header(b, p) /\ ReadAs(b, p, parseStream(b, p)) /\ (MustHold(Plain(b, p)) => HasMore(b, p))
         /\ parseStream(b, p).next = End(b, p)
<1> DEFINE x == parseStream(b, p)
           plain == Plain(b, p)
           inner == InsideOf(b, p)
           o == x.obj
           n == Len(b) - p
<1>0. b \in Seq(Byte) /\ MaxDepth \in Nat /\ Len(b) \in Nat /\ Len(b) <= MaxDepth
  BY FewAre
<1>1. Header(b, p) /\ x = ObjectOf(b, p, inner) /\ x.next = End(b, p)
  BY <1>0, ParsedIs
<1>2. /\ p < Len(b) /\ Begin(b, p) \in p + 2 .. Len(b) /\ End(b, p) \in Begin(b, p) .. Len(b)
  BY <1>0, <1>1, HeaderIs
<1>3. Begin(b, p) \in 0 .. Len(b) /\ End(b, p) \in 0 .. Len(b) /\ n \in Nat /\ n <= MaxDepth
  BY <1>0, <1>2
<1>4. o \in Objects[MaxDepth]
  <2>1. GoodBeyond(b, p, Between(b))
    <3>1. \A i \in p + 1 .. Len(b) : i \in 0 .. Len(b)
      BY <1>0
    <3> QED BY <1>0, <3>1, BetweenIsThat DEF AllGood, GoodBeyond
  <2>2. x = ObjectAt(b, p, Between(b))
    BY DEF parseStream
  <2>3. ObjectRead(b, p, x)
    BY <1>0, <2>1, <2>2, ObjectGood
  <2>4. o \in Objects[n]
    BY <2>3 DEF ObjectRead
  <2>5. Objects[n] \subseteq Objects[MaxDepth]
    <3> HIDE DEF n
    <3> QED BY <1>0, <1>3, ObjectsGrow
  <2> QED BY <2>4, <2>5
<1>5. /\ toDER(o) = Wrap(o.tag, ContentOf(o)) /\ o.tag \in Tags
  BY <1>0, <1>4, ToDERIs
<1>6. plain = [tag |-> plain.tag, value |-> plain.value, subs |-> <<>>] /\ plain.tag = ASN1Tag(b[p + 1])
      /\ plain.value = SubSeq(b, Begin(b, p) + 1, End(b, p))
  BY DEF Plain
<1>7. x.ok
  OBVIOUS
<1> HIDE DEF plain, x
<1>8. ~ (MustHold(plain) /\ ~ inner.ok) /\ o = IF MayHold(plain) /\ inner.ok THEN [plain EXCEPT !.subs = inner.subs] ELSE plain
  <2> DEFINE y == IF MayHold(plain) /\ inner.ok THEN [plain EXCEPT !.subs = inner.subs] ELSE plain
  <2>1. x = IF MustHold(plain) /\ ~ inner.ok THEN Thrown ELSE [ok |-> TRUE, next |-> End(b, p), obj |-> y]
    BY <1>1 DEF ObjectOf, plain
  <2>2. ~ Thrown.ok
    BY DEF Thrown
  <2> HIDE DEF y, inner
  <2>3. ~ (MustHold(plain) /\ ~ inner.ok)
    BY <1>7, <2>1, <2>2
  <2>4. x = [ok |-> TRUE, next |-> End(b, p), obj |-> y]
    BY <2>1, <2>3
  <2>5. o = y
    BY <2>4
  <2> QED BY <2>3, <2>5 DEF y
<1>9. MustHold(plain) => MayHold(plain)
  BY DEF MustHold, MayHold
<1>10. HasMore(b, p) <=> MayHold(plain) /\ inner.ok
  BY DEF HasMore, plain
<1>11. CASE HasMore(b, p)
  <2>1. o = [tag |-> plain.tag, value |-> plain.value, subs |-> inner.subs]
    BY <1>6, <1>8, <1>10, <1>11
  <2>2. o.tag = plain.tag /\ o.value = plain.value /\ o.subs = inner.subs
    BY <2>1
  <2>3. inner.subs = <<>> => plain.value = <<>>
    <3>1. Finding(b, Begin(b, p), End(b, p), inner)
      BY <1>3, <1>10, <1>11, CollectedFits DEF InsideOf
    <3> HIDE DEF inner
    <3> QED BY <1>6, <3>1 DEF Finding
  <2>4. ContentOf(o) = Contents(inner.subs)
    BY <2>2, <2>3, ContentsNone DEF ContentOf
  <2>5. ContentOf(o) = ContentRead(b, p)
    BY <1>11, <2>4 DEF ContentRead
  <2>6. ReadAs(b, p, x)
    BY <1>4, <1>5, <1>6, <2>2, <2>5 DEF ReadAs
  <2> QED BY <1>1, <1>11, <2>6 DEF x
<1>12. CASE ~ HasMore(b, p)
  <2>1. o = plain /\ plain.subs = <<>>
    BY <1>6, <1>8, <1>10, <1>12
  <2>2. ContentOf(o) = ContentRead(b, p)
    BY <1>12, <2>1 DEF ContentRead, ContentOf, plain
  <2>3. ReadAs(b, p, x)
    BY <1>4, <1>5, <1>6, <2>1, <2>2 DEF ReadAs
  <2>4. ~ MustHold(plain)
    BY <1>8, <1>9, <1>10, <1>12
  <2> QED BY <1>1, <2>3, <2>4 DEF x, plain
<1> QED BY <1>11, <1>12

\* What is written is bytes, and no more of them than were read.
Shrinks(c, n) == c \in Seq(Byte) /\ Len(c) \in Nat /\ Len(c) <= n

LEMMA WrapShrinks ==
  ASSUME NEW tag \in Tags, NEW h \in Seq(Byte), NEW n \in Nat, n <= Large, States(h, n, FALSE), NEW c, Shrinks(c, n)
  PROVE  Shrinks(Wrap(tag, c), 1 + Len(h) + n) /\ Wrap(tag, c) \in Seq(Byte)
<1> DEFINE m == Len(c)
           e == encodeLength(m)
           a == <<tagToDER(tag)>>
           w == (a \o e) \o c
<1>1. c \in Seq(Byte) /\ m \in Nat /\ m <= n
  BY DEF Shrinks
<1>2. m <= Large /\ Len(h) \in Nat
  <2>1. Large \in Nat
    BY SMT DEF Large
  <2> HIDE DEF m
  <2> QED BY <1>1, <2>1, LenProperties
<1>3. e \in Seq(Byte) /\ Len(e) <= Len(h) /\ Len(e) \in Nat
  <2> HIDE DEF m
  <2>1. e \in Seq(Byte)
    BY <1>1, <1>2, EncodedIsBytes
  <2>2. Len(e) <= Len(h)
    BY <1>1, EncodedIsShort
  <2> HIDE DEF e
  <2> QED BY <2>1, <2>2, LenProperties
<1>4. a \in Seq(Byte) /\ Len(a) = 1
  <2>1. tagToDER(tag) \in Byte
    BY TagIsByte
  <2> QED BY <2>1
<1>40. Wrap(tag, c) = w
  BY DEF Wrap
<1> HIDE DEF a, e
<1>5. a \o e \in Seq(Byte) /\ Len(a \o e) = Len(a) + Len(e)
  BY <1>3, <1>4, ConcatProperties
<1> DEFINE d == a \o e
<1>6. d \in Seq(Byte) /\ Len(d) = 1 + Len(e)
  BY <1>4, <1>5
<1> HIDE DEF d
<1>7. d \o c \in Seq(Byte) /\ Len(d \o c) = Len(d) + Len(c)
  BY <1>1, <1>6, ConcatProperties
<1> DEFINE i == Len(e)
           j == Len(h)
<1>8. i \in Nat /\ j \in Nat /\ i <= j /\ Len(d \o c) = (1 + i) + m
  BY <1>2, <1>3, <1>6, <1>7
<1> HIDE DEF i, j, m
<1>9. (1 + i) + m \in Nat /\ (1 + i) + m <= 1 + j + n
  BY <1>1, <1>8
<1>10. Shrinks(d \o c, 1 + j + n)
  BY <1>7, <1>8, <1>9 DEF Shrinks
<1> QED BY <1>7, <1>10, <1>40 DEF d, j

LEMMA ObjectShrinks ==
  ASSUME NEW b, Few(b), NEW p \in Nat, parseStream(b, p).ok,
         HasMore(b, p) => Shrinks(Contents(InsideOf(b, p).subs), End(b, p) - Begin(b, p))
  PROVE  /\ Shrinks(ContentRead(b, p), End(b, p) - Begin(b, p))
         /\ Shrinks(toDER(parseStream(b, p).obj), End(b, p) - p)
<1> DEFINE x == Begin(b, p)
           y == End(b, p)
           n == y - x
           c == ContentRead(b, p)
           tag == ASN1Tag(b[p + 1])
           h == SubSeq(b, p + 2, x)
           L == Len(b)
<1>0. b \in Seq(Byte) /\ L \in Nat /\ L <= Large
  BY FewAre
<1>1. Header(b, p) /\ ReadAs(b, p, parseStream(b, p))
  BY WhatIsRead
<1>2. p < L /\ x \in p + 2 .. L /\ y \in x .. L /\ States(h, n, FALSE)
  BY <1>0, <1>1, HeaderIs
<1>3. tag \in Tags /\ toDER(parseStream(b, p).obj) = Wrap(tag, c)
  BY <1>1 DEF ReadAs
<1>4. Plain(b, p).value = SubSeq(b, x + 1, y)
  BY DEF Plain
<1>5. h \in Seq(Byte) /\ Len(h) = x - (p + 1)
  <2>1. x \in 0 .. L /\ p + 1 \in 0 .. x /\ (p + 1) + 1 = p + 2
    BY <1>0, <1>2
  <2> HIDE DEF x
  <2>2. SubSeq(b, (p + 1) + 1, x) \in Seq(Byte) /\ Len(SubSeq(b, (p + 1) + 1, x)) = x - (p + 1)
    BY <1>0, <2>1, Cut
  <2> QED BY <2>1, <2>2
<1>6. n \in Nat /\ n <= Large
  <2>1. Large \in Nat
    BY SMT DEF Large
  <2> HIDE DEF x, y, L
  <2> QED BY <1>0, <1>2, <2>1
<1>7. Shrinks(c, n)
  <2>1. CASE HasMore(b, p)
    BY <2>1 DEF ContentRead
  <2>2. CASE ~ HasMore(b, p)
    <3>1. y \in 0 .. L /\ x \in 0 .. y
      <4> HIDE DEF x, y, L
      <4> QED BY <1>0, <1>2
    <3>2. SubSeq(b, x + 1, y) \in Seq(Byte) /\ Len(SubSeq(b, x + 1, y)) = y - x
      <4> HIDE DEF x, y
      <4> QED BY <1>0, <3>1, Cut
    <3>3. c = SubSeq(b, x + 1, y)
      BY <1>4, <2>2 DEF ContentRead
    <3> HIDE DEF c, x, y
    <3>4. c \in Seq(Byte) /\ Len(c) = n
      BY <3>2, <3>3
    <3> HIDE DEF n
    <3> QED BY <1>6, <3>4 DEF Shrinks
  <2> QED BY <2>1, <2>2
<1> HIDE DEF c, tag, h, n, x, y
<1>8. Shrinks(Wrap(tag, c), 1 + Len(h) + n)
  BY <1>2, <1>3, <1>5, <1>6, <1>7, WrapShrinks
<1>9. 1 + Len(h) + n = y - p
  BY <1>0, <1>2, <1>5 DEF n
<1> QED BY <1>3, <1>7, <1>8, <1>9 DEF c, x, y, n

LEMMA Joined ==
  ASSUME NEW c, NEW d, NEW m \in Nat, NEW n \in Nat, Shrinks(c, m), Shrinks(d, n)
  PROVE  Shrinks(c \o d, m + n) /\ Len(c \o d) = Len(c) + Len(d)
<1> DEFINE i == Len(c)
           j == Len(d)
<1>1. c \in Seq(Byte) /\ d \in Seq(Byte) /\ i \in Nat /\ j \in Nat /\ i <= m /\ j <= n
  BY DEF Shrinks
<1>2. c \o d \in Seq(Byte) /\ Len(c \o d) = i + j
  BY <1>1, ConcatProperties
<1> HIDE DEF i, j
<1>3. i + j \in Nat /\ i + j <= m + n
  BY <1>1
<1>4. Len(c \o d) \in Nat /\ Len(c \o d) <= m + n
  BY <1>2, <1>3
<1> QED BY <1>2, <1>4 DEF Shrinks, i, j

LEMMA CollectedShrinks ==
  ASSUME NEW b, Few(b), NEW p \in 0 .. Len(b), NEW q \in 0 .. Len(b), collectSubs(b, p, q).ok
  PROVE  Shrinks(Contents(collectSubs(b, p, q).subs), q - p)
<1> DEFINE L == Len(b)
           Bad == {k \in Nat : \E i, j \in 0 .. L : /\ k = j - i /\ collectSubs(b, i, j).ok
                                                    /\ ~ Shrinks(Contents(collectSubs(b, i, j).subs), k)}
<1>0. b \in Seq(Byte) /\ L \in Nat /\ MaxDepth \in Nat
  BY FewAre
<1>1. Bad = {}
  <2>1. SUFFICES ASSUME Bad # {} PROVE FALSE
    OBVIOUS
  <2>2. PICK k \in Bad : \A m \in Bad : k <= m
    <3>1. Bad \in SUBSET Nat
      OBVIOUS
    <3> HIDE DEF Bad
    <3> QED BY <2>1, <3>1, LeastNumber
  <2>3. PICK i, j \in 0 .. L : /\ k = j - i /\ collectSubs(b, i, j).ok
                               /\ ~ Shrinks(Contents(collectSubs(b, i, j).subs), k)
    BY <2>2
  <2>4. ASSUME NEW x \in 0 .. L, NEW y \in 0 .. L, y - x < k, collectSubs(b, x, y).ok
        PROVE  x <= y /\ Shrinks(Contents(collectSubs(b, x, y).subs), y - x)
    <3>1. x <= y
      BY <2>4, CollectedFits DEF Finding
    <3>2. y - x \in Nat /\ k \in Nat /\ ~ (k <= y - x)
      BY <1>0, <2>2, <2>4, <3>1
    <3>3. y - x \notin Bad
      BY <2>2, <3>2
    <3> QED BY <2>4, <3>1, <3>2, <3>3
  <2>5. CASE i = j
    <3>1. collectSubs(b, i, j) = [ok |-> TRUE, subs |-> <<>>]
      BY <1>0, <2>5, CollectedIs
    <3>2. collectSubs(b, i, j).subs = <<>>
      BY <3>1
    <3>3. Shrinks(<<>>, k)
      <4>1. <<>> \in Seq(Byte) /\ Len(<<>>) = 0
        BY EmptySeq
      <4>2. 0 <= k /\ 0 \in Nat
        BY <2>2
      <4> QED BY <4>1, <4>2 DEF Shrinks
    <3> QED BY <2>3, <3>2, <3>3, ContentsNone
  <2>6. CASE i # j
    <3> DEFINE o == parseStream(b, i).obj
               e == End(b, i)
               x == Begin(b, i)
               rest == collectSubs(b, e, j)
               s == rest.subs
               w == toDER(o)
    <3>1. /\ i < j /\ Fits(b, i, j) /\ parseStream(b, i).ok /\ rest.ok
          /\ collectSubs(b, i, j).subs = <<o>> \o s
      BY <2>3, <2>6, CollectedMore
    <3>2. i \in Nat /\ j \in Nat /\ j <= L
      BY <1>0
    <3>3. x \in 0 .. L /\ e \in 0 .. L /\ i + 2 <= x /\ x <= e /\ e <= j
      BY <1>0, <3>1, <3>2, HeaderEnds
    <3>4. e - x < k /\ j - e < k /\ e - i \in Nat /\ j - e \in Nat /\ (e - i) + (j - e) = k
      <4> HIDE DEF x, e
      <4> QED BY <1>0, <2>3, <3>2, <3>3
    <3>5. HasMore(b, i) => Shrinks(Contents(InsideOf(b, i).subs), e - x)
      <4>1. SUFFICES ASSUME HasMore(b, i) PROVE Shrinks(Contents(InsideOf(b, i).subs), e - x)
        OBVIOUS
      <4>2. collectSubs(b, x, e).ok
        BY <4>1 DEF HasMore, InsideOf
      <4> HIDE DEF x, e
      <4>3. Shrinks(Contents(collectSubs(b, x, e).subs), e - x)
        BY <2>4, <3>3, <3>4, <4>2
      <4> QED BY <4>3 DEF InsideOf, x, e
    <3>6. Shrinks(w, e - i)
      BY <3>1, <3>2, <3>5, ObjectShrinks
    <3>7. Shrinks(Contents(s), j - e)
      <4> HIDE DEF e
      <4> QED BY <2>4, <3>1, <3>3, <3>4
    <3>8. o \in Objects[MaxDepth]
      BY <3>1, <3>2, WhatIsRead DEF ReadAs
    <3>9. s \in Seq(Objects[MaxDepth])
      <4> HIDE DEF e
      <4> QED BY <3>1, <3>3, CollectedFits DEF Finding
    <3> HIDE DEF o, s, e, x, w
    <3>10. Contents(<<o>> \o s) = w \o Contents(s)
      BY <1>0, <3>8, <3>9, ContentsCons DEF w
    <3>11. Shrinks(w \o Contents(s), (e - i) + (j - e))
      <4> DEFINE m == e - i
                 r == j - e
      <4>1. m \in Nat /\ r \in Nat /\ Shrinks(w, m) /\ Shrinks(Contents(s), r)
        BY <3>4, <3>6, <3>7
      <4> HIDE DEF m, r
      <4>2. Shrinks(w \o Contents(s), m + r)
        BY <4>1, Joined
      <4> QED BY <4>2 DEF m, r
    <3>12. Shrinks(Contents(collectSubs(b, i, j).subs), k)
      BY <3>1, <3>4, <3>10, <3>11
    <3> QED BY <2>3, <3>12
  <2> QED BY <2>5, <2>6
<1>2. p <= q
  BY CollectedFits DEF Finding
<1>3. q - p \in Nat
  BY <1>0, <1>2
<1> QED BY <1>1, <1>3

\* An object is written with no more bytes than it was read from (toDER, obj.ts).
LEMMA ParsedShrinks ==
  ASSUME NEW b, Few(b), NEW p \in Nat, parseStream(b, p).ok
  PROVE  Shrinks(toDER(parseStream(b, p).obj), End(b, p) - p) /\ Few(toDER(parseStream(b, p).obj))
<1> DEFINE x == Begin(b, p)
           y == End(b, p)
           L == Len(b)
<1>0. b \in Seq(Byte) /\ L \in Nat /\ L <= MaxBytes /\ MaxBytes \in Nat
  BY FewAre
<1>1. Header(b, p)
  BY WhatIsRead
<1>2. x \in p + 2 .. L /\ y \in x .. L
  BY <1>0, <1>1, HeaderIs
<1> HIDE DEF x, y
<1>3. x \in 0 .. L /\ y \in 0 .. L /\ y - p <= MaxBytes /\ y - p \in Nat
  BY <1>0, <1>2
<1>4. HasMore(b, p) => Shrinks(Contents(InsideOf(b, p).subs), y - x)
  <2>1. SUFFICES ASSUME HasMore(b, p) PROVE Shrinks(Contents(InsideOf(b, p).subs), y - x)
    OBVIOUS
  <2>2. collectSubs(b, x, y).ok
    BY <2>1 DEF HasMore, InsideOf, x, y
  <2>3. Shrinks(Contents(collectSubs(b, x, y).subs), y - x)
    BY <1>3, <2>2, CollectedShrinks
  <2> QED BY <2>3 DEF InsideOf, x, y
<1>5. Shrinks(toDER(parseStream(b, p).obj), y - p)
  BY <1>4, ObjectShrinks DEF x, y
<1> DEFINE w == toDER(parseStream(b, p).obj)
<1>6. w \in Seq(Byte) /\ Len(w) \in Nat /\ Len(w) <= y - p
  BY <1>5 DEF Shrinks
<1> HIDE DEF w
<1>7. Few(w)
  BY <1>0, <1>3, <1>6 DEF Few
<1> QED BY <1>5, <1>7 DEF w, y

-----------------------------------------------------------------------------
(* What is written of an object is read as that object.                      *)
LEMMA SameThen ==
  ASSUME NEW b, NEW p, NEW c, NEW u, NEW d, NEW v, NEW n, Same(b, p, c, u, n), Same(c, u, d, v, n)
  PROVE  Same(b, p, d, v, n)
BY DEF Same

LEMMA SameLeft ==
  ASSUME NEW s \in Seq(Byte), NEW t \in Seq(Byte)
  PROVE  Same(s, 0, s \o t, 0, Len(s))
<1> DEFINE z == s \o t
<1>1. /\ z \in Seq(Byte) /\ Len(z) = Len(s) + Len(t) /\ Len(s) \in Nat /\ Len(t) \in Nat
      /\ \A i \in 1 .. Len(z) : z[i] = IF i <= Len(s) THEN s[i] ELSE t[i - Len(s)]
  BY ConcatProperties, LenProperties
<1> HIDE DEF z
<1>2. ASSUME NEW i \in 1 .. Len(s) PROVE s[0 + i] = z[0 + i]
  <2>1. i \in 1 .. Len(z) /\ i <= Len(s) /\ 0 + i = i
    BY <1>1
  <2> QED BY <1>1, <2>1
<1>3. 0 + Len(s) <= Len(z) /\ 0 + Len(s) <= Len(s) /\ 0 \in Nat
  BY <1>1
<1> QED BY <1>1, <1>2, <1>3 DEF Same, z

LEMMA SameRight ==
  ASSUME NEW s \in Seq(Byte), NEW t \in Seq(Byte)
  PROVE  Same(t, 0, s \o t, Len(s), Len(t))
<1> DEFINE z == s \o t
<1>1. /\ z \in Seq(Byte) /\ Len(z) = Len(s) + Len(t) /\ Len(s) \in Nat /\ Len(t) \in Nat
      /\ \A i \in 1 .. Len(z) : z[i] = IF i <= Len(s) THEN s[i] ELSE t[i - Len(s)]
  BY ConcatProperties, LenProperties
<1> HIDE DEF z
<1>2. ASSUME NEW i \in 1 .. Len(t) PROVE t[0 + i] = z[Len(s) + i]
  <2>1. Len(s) + i \in 1 .. Len(z) /\ ~ (Len(s) + i <= Len(s)) /\ (Len(s) + i) - Len(s) = i /\ 0 + i = i
    BY <1>1
  <2> QED BY <1>1, <2>1
<1>3. Len(s) + Len(t) <= Len(z) /\ 0 + Len(t) <= Len(t) /\ 0 \in Nat
  BY <1>1
<1> QED BY <1>1, <1>2, <1>3 DEF Same, z

(* The header of what is written, and what is written after it.              *)
Stands(z, tag, c) ==
  /\ z \in Seq(Byte) /\ Header(z, 0) /\ End(z, 0) = Len(z) /\ Plain(z, 0) = [tag |-> tag, value |-> c, subs |-> <<>>]
  /\ ASN1Tag(z[0 + 1]) = tag /\ Same(z, Begin(z, 0), c, 0, Len(c))
  /\ End(z, 0) = Begin(z, 0) + Len(c)

LEMMA WrapIsRead ==
  ASSUME NEW tag \in Tags, Supported(tag), NEW c \in Seq(Byte), Len(c) <= Large
  PROVE  Stands(Wrap(tag, c), tag, c)
<1> DEFINE n == Len(c)
           e == encodeLength(n)
           a == tagToDER(tag)
           d == <<a>> \o e
           z == d \o c
<1>1. n \in Nat /\ n <= Large
  BY LenProperties
<1>2. e \in Seq(Byte) /\ decodeLength(e, 0) = [ok |-> TRUE, value |-> n, next |-> Len(e)]
  <2> HIDE DEF n
  <2> QED BY <1>1, EncodedIsBytes, EncodedIsRead
<1>3. a \in Byte /\ ASN1Tag(a) = tag
  BY TagIsByte
<1>4. Wrap(tag, c) = z
  BY DEF Wrap
<1> HIDE DEF a, e, n
<1>5. Len(e) \in Nat
  BY <1>2, LenProperties
<1>6. <<a>> \in Seq(Byte) /\ Len(<<a>>) = 1
  BY <1>3
<1>7. d \in Seq(Byte) /\ Len(d) = 1 + Len(e) /\ d[1] = a
  <2> HIDE DEF d
  <2>1. d = <<a>> \o e
    BY DEF d
  <2>2. <<a>> \o e \in Seq(Byte) /\ Len(<<a>> \o e) = Len(e) + 1 /\ (<<a>> \o e)[1] = a
    BY <1>2, <1>3, ConsIs
  <2> QED BY <1>5, <2>1, <2>2
<1>8. Same(e, 0, d, 1, Len(e))
  BY <1>2, <1>6, SameRight
<1> HIDE DEF d
<1>9. Same(d, 0, z, 0, Len(d))
  BY <1>7, SameLeft
<1>10. Same(c, 0, z, Len(d), n)
  BY <1>7, SameRight DEF n
<1>11. z \in Seq(Byte) /\ Len(z) = Len(d) + n
  BY <1>7, ConcatProperties DEF n
<1>12. SubSeq(z, Len(d) + 1, Len(d) + n) = c
  BY <1>7, CutParts DEF n
<1> HIDE DEF z
<1> DEFINE l == Len(e)
           m == Len(d)
<1>13. l \in Nat /\ m = 1 + l /\ m \in Nat
  BY <1>5, <1>7
<1>14. Same(d, 1, z, 1, l)
  <2> HIDE DEF l, m
  <2>1. m \in 0 .. m /\ 1 \in 0 .. m /\ 0 + 1 = 1 /\ m - 1 = l
    BY <1>13
  <2>2. Same(d, 0, z, 0, m)
    BY <1>9 DEF m
  <2>3. Same(d, 0 + 1, z, 0 + 1, m - 1)
    BY <2>1, <2>2, SamePart
  <2> QED BY <2>1, <2>3
<1>15. Same(e, 0, z, 1, l)
  BY <1>8, <1>14, SameThen
<1>16. decodeLength(z, 1) = [ok |-> TRUE, value |-> n, next |-> m]
  <2>1. decodeLength(e, 0).ok /\ decodeLength(e, 0).next = l /\ decodeLength(e, 0).value = n
    BY <1>2
  <2> HIDE DEF l, m
  <2>2. l <= 0 + l /\ 1 + (l - 0) = m
    BY <1>13
  <2>3. decodeLength(z, 1) = [ok |-> TRUE, value |-> decodeLength(e, 0).value, next |-> 1 + (decodeLength(e, 0).next - 0)]
    BY <1>15, <2>1, <2>2, SameDecode
  <2> QED BY <2>1, <2>2, <2>3
<1>17. z[0 + 1] = a
  <2>1. d[0 + 1] = z[0 + 1]
    BY <1>7, <1>9, <1>13 DEF Same
  <2> QED BY <1>7, <2>1
<1> HIDE DEF l, m
<1>18. Begin(z, 0) = m /\ End(z, 0) = m + n
  <2>1. 0 + 1 = 1
    OBVIOUS
  <2> QED BY <1>16, <2>1 DEF Begin, End
<1>19. Header(z, 0) /\ Len(z) = m + n
  <2>1. Len(z) = m + n
    BY <1>11 DEF m
  <2>2. 0 < Len(z) /\ m + n <= Len(z) /\ 0 + 1 = 1
    BY <1>1, <1>13, <2>1
  <2> QED BY <1>3, <1>16, <1>17, <1>18, <2>1, <2>2 DEF Header
<1>20. Plain(z, 0) = [tag |-> tag, value |-> c, subs |-> <<>>]
  <2>1. SubSeq(z, m + 1, m + n) = c
    BY <1>12 DEF m
  <2> QED BY <1>3, <1>17, <1>18, <2>1 DEF Plain
<1>21. Same(z, m, c, 0, n)
  BY <1>10, SameTurns DEF m
<1> QED BY <1>3, <1>4, <1>11, <1>17, <1>18, <1>19, <1>20, <1>21 DEF Stands, n


\* What there is in these bytes, written anew, are these bytes.
Again(c) == collectSubs(c, 0, Len(c)).ok /\ Contents(collectSubs(c, 0, Len(c)).subs) = c

\* All of the bytes are an object, and these are the bytes it is written as.
WrittenSo(z) == parseStream(z, 0).ok /\ parseStream(z, 0).next = Len(z) /\ toDER(parseStream(z, 0).obj) = z

LEMMA ObjectAgain ==
  ASSUME NEW b, Few(b), NEW p \in Nat, parseStream(b, p).ok,
         HasMore(b, p) => Again(Contents(InsideOf(b, p).subs))
  PROVE  WrittenSo(toDER(parseStream(b, p).obj)) /\ Few(toDER(parseStream(b, p).obj))
<1> DEFINE tag == ASN1Tag(b[p + 1])
           c == ContentRead(b, p)
           z == Wrap(tag, c)
           x == Begin(b, p)
           y == End(b, p)
           L == Len(b)
           n == Len(c)
<1>0. b \in Seq(Byte) /\ L \in Nat
  BY FewAre
<1>1. /\ Header(b, p) /\ ReadAs(b, p, parseStream(b, p)) /\ (MustHold(Plain(b, p)) => HasMore(b, p))
  BY WhatIsRead
<1>2. tag \in Tags /\ toDER(parseStream(b, p).obj) = z
  BY <1>1 DEF ReadAs
<1>3. Supported(tag)
  BY <1>1 DEF Header
<1>4. x \in p + 2 .. L /\ y \in x .. L
  BY <1>0, <1>1, HeaderIs
<1>5. Few(z)
  BY <1>2, ParsedShrinks
<1>50. HasMore(b, p) => collectSubs(b, x, y).ok
  BY DEF HasMore, InsideOf
<1>6. x \in 0 .. L /\ y \in 0 .. L /\ x \in 0 .. y /\ y - x \in Nat /\ x + (y - x) = y
  <2> HIDE DEF x, y, L
  <2> QED BY <1>0, <1>4
<1>7. c \in Seq(Byte) /\ n \in Nat /\ n <= Large
  <2>1. HasMore(b, p) => Shrinks(Contents(InsideOf(b, p).subs), End(b, p) - Begin(b, p))
    <3>1. SUFFICES ASSUME HasMore(b, p) PROVE Shrinks(Contents(InsideOf(b, p).subs), y - x)
      OBVIOUS
    <3>2. collectSubs(b, x, y).ok
      BY <1>50, <3>1
    <3> HIDE DEF x, y
    <3>3. Shrinks(Contents(collectSubs(b, x, y).subs), y - x)
      BY <1>6, <3>2, CollectedShrinks
    <3> QED BY <3>3 DEF InsideOf, x, y
  <2>2. Shrinks(c, y - x)
    BY <2>1, ObjectShrinks
  <2>3. L <= Large /\ Large \in Nat
    <3>1. Large \in Nat
      BY SMT DEF Large
    <3> QED BY <3>1, FewAre
  <2> HIDE DEF c, x, y, L
  <2>4. c \in Seq(Byte) /\ n \in Nat /\ n <= y - x
    BY <2>2 DEF Shrinks
  <2> HIDE DEF n
  <2> QED BY <1>0, <1>4, <2>3, <2>4
<1> HIDE DEF c, tag, x, y, L
<1>8. Stands(z, tag, c)
  BY <1>2, <1>3, <1>7, WrapIsRead
<1>9. b[p + 1] \in 0 .. 255 /\ Plain(b, p).tag = tag /\ Plain(b, p).value = SubSeq(b, x + 1, y)
  <2>1. b[p + 1] \in 0 .. 255
    BY <1>0, <1>1, HeaderIs
  <2> QED BY <2>1 DEF Plain, tag, x, y
<1> DEFINE s == Begin(z, 0)
           e == End(z, 0)
<1>10. /\ z \in Seq(Byte) /\ Header(z, 0) /\ e = Len(z) /\ Plain(z, 0) = [tag |-> tag, value |-> c, subs |-> <<>>]
       /\ ASN1Tag(z[0 + 1]) = tag /\ Same(z, s, c, 0, n) /\ e = s + n
  BY <1>8 DEF Stands
<1> HIDE DEF z
<1>11. Plain(z, 0).tag = tag /\ Plain(z, 0).value = c
  BY <1>10
<1>12. InsideOf(z, 0) = collectSubs(c, 0, n)
  <2> HIDE DEF s, e, n
  <2>1. collectSubs(z, s, s + n) = collectSubs(c, 0, 0 + n)
    BY <1>10, SameCollected
  <2>2. 0 + n = n
    BY <1>7
  <2> QED BY <1>10, <2>1, <2>2 DEF InsideOf, s, e
<1>13. /\ MayHold(Plain(z, 0)) <=> MayHold(Plain(b, p))
       /\ MustHold(Plain(z, 0)) <=> MustHold(Plain(b, p))
  BY <1>9, <1>11 DEF MayHold, MustHold, isUniversal
<1>14. (HasMore(z, 0) <=> HasMore(b, p)) /\ ContentRead(z, 0) = c
  <2>1. CASE HasMore(b, p)
    <3>1. c = Contents(InsideOf(b, p).subs) /\ MayHold(Plain(b, p))
      BY <2>1 DEF c, ContentRead, HasMore
    <3>2. Again(c)
      BY <2>1, <3>1
    <3>3. InsideOf(z, 0).ok /\ Contents(InsideOf(z, 0).subs) = c
      BY <1>12, <3>2 DEF Again, n
    <3>4. HasMore(z, 0)
      BY <1>13, <3>1, <3>3 DEF HasMore
    <3> QED BY <2>1, <3>3, <3>4 DEF ContentRead
  <2>2. CASE ~ HasMore(b, p)
    <3>1. c = SubSeq(b, x + 1, y)
      BY <1>9, <2>2 DEF c, ContentRead
    <3> DEFINE w == y - x
    <3>2. CutAlike(b, x, b, x, 0, w) /\ Same(b, x, c, 0, w) /\ n = w
      <4>1. c \in Seq(Byte) /\ Len(c) = y - x /\ \A i \in 1 .. y - x : c[i] = b[x + i]
        <5>1. /\ SubSeq(b, x + 1, y) \in Seq(Byte) /\ Len(SubSeq(b, x + 1, y)) = y - x
              /\ \A i \in 1 .. y - x : SubSeq(b, x + 1, y)[i] = b[x + i]
          <6>1. y \in 0 .. Len(b) /\ x \in 0 .. y
            BY <1>6 DEF L
          <6> QED BY <1>0, <6>1, Cut
        <5> QED BY <3>1, <5>1
      <4>2. w \in Nat /\ x + w = y /\ x \in Nat /\ y <= Len(b) /\ 0 + w = w /\ \A i \in 1 .. w : 0 + i = i
        BY <1>0, <1>6 DEF L
      <4> HIDE DEF w
      <4>3. \A i \in 1 .. w : c[i] = b[x + i]
        BY <4>1 DEF w
      <4>4. Len(c) = w
        BY <4>1 DEF w
      <4>5. Same(b, x, c, 0, w)
        BY <1>0, <4>1, <4>2, <4>3, <4>4 DEF Same
      <4> QED BY <4>4, <4>5 DEF CutAlike, n
    <3>3. InsideOf(b, p) = collectSubs(c, 0, n)
      <4>1. collectSubs(b, x, x + w) = collectSubs(c, 0, 0 + w)
        <5> HIDE DEF w
        <5> QED BY <3>2, SameCollected
      <4>2. x + w = y
        BY <1>6
      <4> HIDE DEF w
      <4>3. 0 + w = n
        BY <1>7, <3>2
      <4> QED BY <4>1, <4>2, <4>3 DEF InsideOf, x, y
    <3>4. ~ HasMore(z, 0)
      BY <1>12, <1>13, <2>2, <3>3 DEF HasMore
    <3> QED BY <1>11, <2>2, <3>4 DEF ContentRead
  <2> QED BY <2>1, <2>2
<1>15. MustHold(Plain(z, 0)) => InsideOf(z, 0).ok
  BY <1>1, <1>13, <1>14 DEF HasMore
<1>16. parseStream(z, 0).ok
  <2>1. parseStream(z, 0) = ObjectOf(z, 0, InsideOf(z, 0))
    BY <1>10, ParsedIs
  <2>2. ObjectOf(z, 0, InsideOf(z, 0)).ok
    BY <1>15 DEF ObjectOf
  <2> QED BY <2>1, <2>2
<1>17. ReadAs(z, 0, parseStream(z, 0)) /\ parseStream(z, 0).next = e
  BY <1>5, <1>16, WhatIsRead
<1>18. toDER(parseStream(z, 0).obj) = Wrap(tag, c)
  BY <1>10, <1>14, <1>17 DEF ReadAs
<1> QED BY <1>2, <1>5, <1>10, <1>16, <1>17, <1>18 DEF WrittenSo, z

\* An object, and those after it.
LEMMA AgainCons ==
  ASSUME NEW z, Few(z), WrittenSo(z), z # <<>>, NEW d \in Seq(Byte), Again(d), Few(z \o d)
  PROVE  Again(z \o d)
<1> DEFINE c == z \o d
           l == Len(z)
           m == Len(d)
           x == parseStream(z, 0)
           rest == collectSubs(d, 0, m)
<1>0. z \in Seq(Byte) /\ c \in Seq(Byte) /\ l \in Nat /\ m \in Nat /\ Len(c) = l + m /\ l # 0
  <2>1. z \in Seq(Byte) /\ c \in Seq(Byte)
    BY DEF Few
  <2>2. l \in Nat /\ m \in Nat /\ l # 0
    BY <2>1, EmptySeq
  <2> QED BY <2>1, <2>2, ConcatProperties
<1>1. Same(z, 0, c, 0, l) /\ Same(d, 0, c, l, m)
  BY <1>0, SameLeft, SameRight
<1>2. x.ok /\ x.next = l /\ toDER(x.obj) = z
  BY DEF WrittenSo
<1>3. parseStream(c, 0) = [ok |-> TRUE, next |-> l, obj |-> x.obj]
  <2> HIDE DEF c, l
  <2>1. l <= 0 + l /\ 0 + (l - 0) = l
    BY <1>0
  <2>2. parseStream(c, 0) = [ok |-> TRUE, next |-> 0 + (parseStream(z, 0).next - 0), obj |-> parseStream(z, 0).obj]
    BY <1>1, <1>2, <2>1, SameRead
  <2> QED BY <1>2, <2>1, <2>2
<1>4. collectSubs(c, l, l + m) = rest
  <2> HIDE DEF c, l, m
  <2>1. collectSubs(d, 0, 0 + m) = collectSubs(c, l, l + m)
    BY <1>1, SameCollected
  <2>2. 0 + m = m
    BY <1>0
  <2> QED BY <2>1, <2>2
<1>5. rest.ok /\ Contents(rest.subs) = d
  BY DEF Again
<1>6. x.obj \in Objects[MaxDepth]
  <2>1. ReadAs(z, 0, x)
    BY <1>2, WhatIsRead
  <2> QED BY <2>1 DEF ReadAs
<1>7. rest.subs \in Seq(Objects[MaxDepth])
  <2>1. Few(d)
    <3>1. Len(c) <= MaxBytes /\ MaxBytes \in Nat
      BY FewAre
    <3> HIDE DEF c, l
    <3>2. m <= MaxBytes
      BY <1>0, <3>1
    <3> QED BY <3>2 DEF Few
  <2>2. 0 \in 0 .. Len(d) /\ m \in 0 .. Len(d)
    BY <1>0
  <2> HIDE DEF m
  <2>3. Finding(d, 0, m, rest)
    BY <1>5, <2>1, <2>2, CollectedFits
  <2> QED BY <2>3 DEF Finding
<1> HIDE DEF c, l, m, rest, x
<1>8. collectSubs(c, 0, l + m) = [ok |-> TRUE, subs |-> <<x.obj>> \o rest.subs]
  <2>1. 0 \in 0 .. Len(c) /\ l + m \in 0 .. Len(c) /\ 0 < l + m
    BY <1>0
  <2>2. collectSubs(c, 0, l + m) = CollectedFrom(parseStream(c, 0), collectSubs(c, parseStream(c, 0).next, l + m))
    BY <1>0, <2>1, CollectedIs
  <2>3. parseStream(c, 0).next = l /\ parseStream(c, 0).ok /\ parseStream(c, 0).obj = x.obj
    BY <1>3
  <2> QED BY <1>4, <1>5, <2>2, <2>3 DEF CollectedFrom
<1>9. collectSubs(c, 0, Len(c)).ok /\ collectSubs(c, 0, Len(c)).subs = <<x.obj>> \o rest.subs
  BY <1>0, <1>8
<1>10. Contents(<<x.obj>> \o rest.subs) = toDER(x.obj) \o Contents(rest.subs)
  BY <1>6, <1>7, FewAre, ContentsCons
<1>11. Contents(<<x.obj>> \o rest.subs) = c
  BY <1>2, <1>5, <1>10 DEF c, x, rest, m
<1>12. Again(c)
  BY <1>9, <1>11 DEF Again
<1> QED BY <1>12 DEF c

LEMMA AgainNone == Again(<<>>)
<1>1. <<>> \in Seq(Byte) /\ Len(<<>>) = 0 /\ 0 \in 0 .. Len(<<>>)
  BY EmptySeq
<1>2. collectSubs(<<>>, 0, 0) = [ok |-> TRUE, subs |-> <<>>]
  BY <1>1, CollectedIs
<1>3. collectSubs(<<>>, 0, 0).ok /\ collectSubs(<<>>, 0, 0).subs = <<>>
  BY <1>2
<1> QED BY <1>1, <1>3, ContentsNone DEF Again

\* Whatever was collected, written anew, is itself again (collectSubs and toDER, obj.ts).
LEMMA CollectedAgain ==
  ASSUME NEW b, Few(b), NEW p \in 0 .. Len(b), NEW q \in 0 .. Len(b), collectSubs(b, p, q).ok
  PROVE  Again(Contents(collectSubs(b, p, q).subs))
<1> DEFINE L == Len(b)
           Bad == {k \in Nat : \E i, j \in 0 .. L : /\ k = j - i /\ collectSubs(b, i, j).ok
                                                    /\ ~ Again(Contents(collectSubs(b, i, j).subs))}
<1>0. b \in Seq(Byte) /\ L \in Nat /\ MaxDepth \in Nat /\ MaxBytes \in Nat /\ L <= MaxBytes
  BY FewAre
<1>1. Bad = {}
  <2>1. SUFFICES ASSUME Bad # {} PROVE FALSE
    OBVIOUS
  <2>2. PICK k \in Bad : \A m \in Bad : k <= m
    <3>1. Bad \in SUBSET Nat
      OBVIOUS
    <3> HIDE DEF Bad
    <3> QED BY <2>1, <3>1, LeastNumber
  <2>3. PICK i, j \in 0 .. L : /\ k = j - i /\ collectSubs(b, i, j).ok
                               /\ ~ Again(Contents(collectSubs(b, i, j).subs))
    BY <2>2
  <2>4. ASSUME NEW x \in 0 .. L, NEW y \in 0 .. L, y - x < k, collectSubs(b, x, y).ok
        PROVE  x <= y /\ Again(Contents(collectSubs(b, x, y).subs))
    <3>1. x <= y
      BY <2>4, CollectedFits DEF Finding
    <3>2. y - x \in Nat /\ k \in Nat /\ ~ (k <= y - x)
      BY <1>0, <2>2, <2>4, <3>1
    <3>3. y - x \notin Bad
      BY <2>2, <3>2
    <3> QED BY <2>4, <3>1, <3>2, <3>3
  <2>5. CASE i = j
    <3>1. collectSubs(b, i, j) = [ok |-> TRUE, subs |-> <<>>]
      BY <1>0, <2>5, CollectedIs
    <3>2. collectSubs(b, i, j).subs = <<>>
      BY <3>1
    <3> QED BY <2>3, <3>2, AgainNone, ContentsNone
  <2>6. CASE i # j
    <3> DEFINE o == parseStream(b, i).obj
               e == End(b, i)
               x == Begin(b, i)
               rest == collectSubs(b, e, j)
               s == rest.subs
               w == toDER(o)
    <3>1. /\ i < j /\ Fits(b, i, j) /\ parseStream(b, i).ok /\ rest.ok
          /\ collectSubs(b, i, j).subs = <<o>> \o s
      BY <2>3, <2>6, CollectedMore
    <3>2. i \in Nat /\ j \in Nat /\ j <= L
      BY <1>0
    <3>3. x \in 0 .. L /\ e \in 0 .. L /\ i + 2 <= x /\ x <= e /\ e <= j
      BY <1>0, <3>1, <3>2, HeaderEnds
    <3>4. e - x < k /\ j - e < k
      <4> HIDE DEF x, e
      <4> QED BY <1>0, <2>3, <3>2, <3>3
    <3>5. HasMore(b, i) => Again(Contents(InsideOf(b, i).subs))
      <4>1. SUFFICES ASSUME HasMore(b, i) PROVE Again(Contents(InsideOf(b, i).subs))
        OBVIOUS
      <4>2. collectSubs(b, x, e).ok
        BY <4>1 DEF HasMore, InsideOf
      <4> HIDE DEF x, e
      <4>3. Again(Contents(collectSubs(b, x, e).subs))
        BY <2>4, <3>3, <3>4, <4>2
      <4> QED BY <4>3 DEF InsideOf, x, e
    <3>6. WrittenSo(w) /\ Few(w)
      BY <3>1, <3>2, <3>5, ObjectAgain
    <3>7. Again(Contents(s))
      <4> HIDE DEF e
      <4> QED BY <2>4, <3>1, <3>3, <3>4
    <3>8. o \in Objects[MaxDepth] /\ w # <<>>
      <4>1. ReadAs(b, i, parseStream(b, i))
        BY <3>1, <3>2, WhatIsRead
      <4>2. parseStream(w, 0).ok
        BY <3>6 DEF WrittenSo
      <4>3. Header(w, 0)
        BY <3>6, <4>2, WhatIsRead
      <4>4. 0 < Len(w)
        BY <4>3 DEF Header
      <4>5. w # <<>>
        <5>1. Len(<<>>) = 0
          BY EmptySeq
        <5> HIDE DEF w
        <5> QED BY <4>4, <5>1
      <4> QED BY <4>1, <4>5 DEF ReadAs
    <3>9. s \in Seq(Objects[MaxDepth])
      <4> HIDE DEF e
      <4> QED BY <3>1, <3>3, CollectedFits DEF Finding
    <3>10. Shrinks(Contents(collectSubs(b, i, j).subs), j - i)
      BY <2>3, CollectedShrinks
    <3>11. Shrinks(Contents(s), j - e)
      <4> HIDE DEF e
      <4> QED BY <3>1, <3>3, CollectedShrinks
    <3> HIDE DEF o, s, e, x, w
    <3>12. Contents(<<o>> \o s) = w \o Contents(s)
      BY <1>0, <3>8, <3>9, ContentsCons DEF w
    <3> DEFINE d == Contents(s)
    <3>13. d \in Seq(Byte) /\ Again(d)
      BY <3>7, <3>11 DEF Shrinks
    <3>14. Few(w \o d)
      <4> DEFINE f == w \o d
      <4>1. Shrinks(f, j - i)
        BY <3>1, <3>10, <3>12
      <4> HIDE DEF f
      <4>2. j - i <= MaxBytes /\ j - i \in Int
        BY <1>0, <3>2
      <4>3. f \in Seq(Byte) /\ Len(f) \in Nat /\ Len(f) <= j - i
        BY <4>1 DEF Shrinks
      <4>4. Few(f)
        BY <1>0, <4>2, <4>3 DEF Few
      <4> QED BY <4>4 DEF f
    <3> HIDE DEF d
    <3>15. Again(w \o d)
      BY <3>6, <3>8, <3>13, <3>14, AgainCons
    <3> QED BY <2>3, <3>1, <3>12, <3>15 DEF d
  <2> QED BY <2>5, <2>6
<1>2. p <= q
  BY CollectedFits DEF Finding
<1>3. q - p \in Nat
  BY <1>0, <1>2
<1> QED BY <1>1, <1>3

\* What is read of bytes is written as bytes of which the same is written again.
LEMMA CloneIsRead ==
  ASSUME NEW b, Few(b), parseBuffer(b).ok
  PROVE  clone(parseBuffer(b).obj).ok /\ toDER(clone(parseBuffer(b).obj).obj) = toDER(parseBuffer(b).obj)
<1> DEFINE x == Begin(b, 0)
           y == End(b, 0)
           o == parseStream(b, 0).obj
<1>0. b \in Seq(Byte) /\ Len(b) \in Nat
  BY FewAre
<1>1. parseStream(b, 0).ok /\ parseBuffer(b) = parseStream(b, 0) /\ clone(o) = parseStream(toDER(o), 0)
  BY DEF parseBuffer, clone
<1>2. Header(b, 0)
  BY <1>1, WhatIsRead
<1>3. x \in 0 .. Len(b) /\ y \in 0 .. Len(b)
  <2> DEFINE L == Len(b)
  <2>1. x \in 0 + 2 .. L /\ y \in x .. L /\ L \in Nat
    BY <1>0, <1>2, HeaderIs
  <2> HIDE DEF x, y, L
  <2>2. x \in 0 .. L /\ y \in 0 .. L
    BY <2>1
  <2> QED BY <2>2 DEF L
<1>4. HasMore(b, 0) => Again(Contents(InsideOf(b, 0).subs))
  <2>1. SUFFICES ASSUME HasMore(b, 0) PROVE Again(Contents(InsideOf(b, 0).subs))
    OBVIOUS
  <2>2. collectSubs(b, x, y).ok
    BY <2>1 DEF HasMore, InsideOf
  <2> HIDE DEF x, y
  <2>3. Again(Contents(collectSubs(b, x, y).subs))
    BY <1>3, <2>2, CollectedAgain
  <2> QED BY <2>3 DEF InsideOf, x, y
<1>5. WrittenSo(toDER(o))
  BY <1>1, <1>4, ObjectAgain
<1> QED BY <1>1, <1>5 DEF WrittenSo

-----------------------------------------------------------------------------
(* DER is written as it was: all that is in P is written as it is there.       *)
Exactly(P) == \A x, y : <<x, y>> \in P => y # <<>> /\ toDER(x) = y

LEMMA TileContents ==
  ASSUME NEW P, Exactly(P), NEW S, NEW s \in Seq(S), NEW v \in Seq(Byte), Tile(s, v, P)
  PROVE  Contents(s) = v
<1> DEFINE n == Len(s)
           L == Len(v)
           t == [k \in 1 .. n |-> toDER(s[k])]
<1>0. n \in Nat /\ L \in Nat
  BY LenProperties
<1>1. PICK cut \in [0 .. n -> 0 .. L] :
        /\ cut[0] = 0 /\ cut[n] = L
        /\ \A k \in 1 .. n : <<s[k], SubSeq(v, cut[k - 1] + 1, cut[k])>> \in P
  BY DEF Tile
<1>2. ASSUME NEW k \in 1 .. n
      PROVE  /\ t[k] = SubSeq(v, cut[k - 1] + 1, cut[k]) /\ t[k] \in Seq(Byte)
             /\ cut[k] = cut[k - 1] + Len(t[k]) /\ cut[k] <= L /\ k \in 0 .. n
  <2>1. k - 1 \in 0 .. n /\ k \in 0 .. n
    BY <1>0
  <2>2. cut[k - 1] \in 0 .. L /\ cut[k] \in 0 .. L
    BY <1>1, <2>1
  <2> DEFINE p == cut[k - 1]
             q == cut[k]
  <2>3. SubSeq(v, p + 1, q) # <<>> /\ toDER(s[k]) = SubSeq(v, p + 1, q)
    BY <1>1 DEF Exactly
  <2>4. t[k] = SubSeq(v, p + 1, q)
    BY <2>3
  <2> HIDE DEF p, q, t
  <2>5. p \in 0 .. q /\ q \in 0 .. L
    <3>1. p \in 0 .. L /\ q \in 0 .. L
      BY <2>2 DEF p, q
    <3>2. CASE q < p
      <4>1. SubSeq(v, p + 1, q) = <<>>
        BY <1>0, <3>1, <3>2, SubSeqEmpty
      <4> QED BY <2>3, <4>1
    <3> HIDE DEF L
    <3> QED BY <1>0, <3>1, <3>2
  <2>6. SubSeq(v, p + 1, q) \in Seq(Byte) /\ Len(SubSeq(v, p + 1, q)) = q - p
    BY <2>5, Cut
  <2>7. t[k] \in Seq(Byte) /\ Len(t[k]) = q - p
    BY <2>4, <2>6
  <2> HIDE DEF L
  <2>8. q = p + (q - p) /\ q <= L
    BY <1>0, <2>5
  <2> QED BY <2>1, <2>4, <2>7, <2>8 DEF p, q
<1>3. t \in Seq(Seq(Byte)) /\ Len(t) = n
  <2>1. t = [k \in 1 .. n |-> t[k]]
    OBVIOUS
  <2> HIDE DEF t
  <2>2. t \in [1 .. n -> Seq(Byte)]
    BY <1>2, <2>1
  <2> HIDE DEF n
  <2> QED BY <1>0, <2>2
<1>4. cut \in [0 .. n -> Nat]
  <2> HIDE DEF n, L
  <2>1. 0 .. L \subseteq Nat
    BY <1>0
  <2> QED BY <1>1, <2>1
<1> HIDE DEF t
<1>5. Cuts(cut, t, v)
  BY <1>1, <1>2, <1>3, <1>4 DEF Cuts
<1>6. FlattenSeq(t) = v
  BY <1>3, <1>5, CutsFlatten
<1> QED BY <1>6 DEF Contents, t

LEMMA EncodedAsWritten ==
  ASSUME NEW P, NEW o, o.tag \in Tags, o.value \in Seq(Byte), NEW c \in Seq(Byte), Encode(o, c, P, TRUE)
  PROVE  c = Wrap(o.tag, o.value)
<1> DEFINE v == o.value
           L == Len(c)
<1>0. v \in Seq(Byte) /\ L \in Nat /\ Len(v) \in Nat
  BY LenProperties
<1>2. PICK k \in 2 .. L : States(SubSeq(c, 2, k), Len(v), TRUE) /\ SubSeq(c, k + 1, L) = v
  BY DEF Encode
<1>3. k \in 0 .. L /\ 1 \in 0 .. k /\ 0 \in 0 .. 1 /\ 1 \in 0 .. L /\ L \in 0 .. L /\ k \in 0 .. L /\ 1 + 1 = 2 /\ 0 + 1 = 1
      /\ 0 \in 0 .. k /\ 0 < L /\ 0 \in Nat
  BY <1>0, <1>2
<1> HIDE DEF v
<1>4. encodeLength(Len(v)) = SubSeq(c, 2, k)
  <2>1. SubSeq(c, 1 + 1, k) \in Seq(Byte)
    BY <1>3, Cut
  <2> QED BY <1>0, <1>2, <1>3, <2>1, EncodedIsExact
<1>5. SubSeq(c, 0 + 1, 0 + 1) = <<c[0 + 1]>>
  BY <1>3, CutOne
<1>6. c[1] = tagToDER(o.tag)
  <2> DEFINE t == o.tag
             i == t.number
             j == IF t.constructed THEN 32 ELSE 0
             m == t.class
  <2>1. i \in Nat /\ j \in Nat /\ m \in Nat
    <3>1. i \in 0 .. 31 /\ m \in 0 .. 3
      BY <1>0 DEF Tags
    <3>2. j \in Nat
      OBVIOUS
    <3>3. 0 .. 31 \subseteq Nat /\ 0 .. 3 \subseteq Nat
      OBVIOUS
    <3> HIDE DEF i, j, m
    <3> QED BY <3>1, <3>2, <3>3
  <2>2. c[1] = i + 64 * m + j /\ tagToDER(t) = i + j + 64 * m
    BY DEF Encode, tagToDER
  <2> HIDE DEF i, j, m
  <2>3. i + 64 * m + j = i + j + 64 * m
    BY <2>1
  <2> QED BY <2>2, <2>3
<1>7. SubSeq(c, 0 + 1, 1) \o SubSeq(c, 1 + 1, k) = SubSeq(c, 0 + 1, k)
  BY <1>3, CutJoin
<1>8. SubSeq(c, 0 + 1, k) \o SubSeq(c, k + 1, L) = SubSeq(c, 0 + 1, L)
  BY <1>3, CutJoin
<1>9. SubSeq(c, 1, L) = c
  BY SubSeqFull
<1>10. Wrap(o.tag, v) = (<<tagToDER(o.tag)>> \o SubSeq(c, 2, k)) \o v
  BY <1>4 DEF Wrap
<1>12. Wrap(o.tag, v) = c
  BY <1>2, <1>3, <1>5, <1>6, <1>7, <1>8, <1>9, <1>10
<1> QED BY <1>12 DEF v

LEMMA DERWritten ==
  ASSUME MaxDepth \in Nat, NEW P, Exactly(P), NEW o \in Objects[MaxDepth], NEW c \in Seq(Byte), Encode(o, c, P, TRUE)
  PROVE  c # <<>> /\ toDER(o) = c
<1> DEFINE v == o.value
<1>0. o.tag \in Tags /\ v \in Seq(Byte) /\ o.subs \in Seq(Objects[MaxDepth])
  BY ToDERIs
<1>1. ContentOf(o) = v
  <2>1. CASE o.subs # <<>>
    <3>1. Tile(o.subs, v, P)
      BY <2>1 DEF Encode
    <3> HIDE DEF v
    <3> QED BY <1>0, <2>1, <3>1, TileContents DEF ContentOf
  <2>2. CASE o.subs = <<>>
    BY <2>2 DEF ContentOf
  <2> QED BY <2>1, <2>2
<1>2. c = Wrap(o.tag, v)
  BY <1>0, EncodedAsWritten
<1> HIDE DEF v
<1> QED BY <1>1, <1>2, ToDERIs DEF Encode

LEMMA EncodingsExact ==
  ASSUME MaxDepth \in Nat
  PROVE  \A n \in 0 .. MaxDepth : Exactly(Encodings(TRUE)[n])
<1> DEFINE Bad == {n \in Nat : n <= MaxDepth /\ ~ Exactly(Encodings(TRUE)[n])}
<1>1. Bad = {}
  <2>1. SUFFICES ASSUME Bad # {} PROVE FALSE
    OBVIOUS
  <2>2. PICK n \in Bad : \A m \in Bad : n <= m
    <3>1. Bad \in SUBSET Nat
      OBVIOUS
    <3> HIDE DEF Bad
    <3> QED BY <2>1, <3>1, LeastNumber
  <2>3. n \in Nat /\ n <= MaxDepth /\ ~ Exactly(Encodings(TRUE)[n])
    BY <2>2
  <2>4. n # 0
    BY <2>3, EncodingsAre DEF Exactly
  <2> DEFINE m == n - 1
  <2>5. m \in Nat /\ m + 1 = n /\ m <= MaxDepth /\ ~ (n <= m)
    BY <2>3, <2>4
  <2> HIDE DEF m
  <2>6. Exactly(Encodings(TRUE)[m])
    BY <2>2, <2>5
  <2>7. ASSUME NEW x, NEW y, <<x, y>> \in Encodings(TRUE)[m + 1] PROVE y # <<>> /\ toDER(x) = y
    <3>1. x \in Objects[m + 1] /\ y \in Seq(Byte) /\ Encode(x, y, Encodings(TRUE)[m], TRUE)
      BY <2>5, <2>7, EncodingIs
    <3>2. Objects[n] \subseteq Objects[MaxDepth]
      BY <2>3, ObjectsGrow
    <3>3. x \in Objects[MaxDepth]
      BY <2>5, <3>1, <3>2
    <3> QED BY <2>6, <3>1, <3>3, DERWritten
  <2>8. Exactly(Encodings(TRUE)[n])
    BY <2>5, <2>7 DEF Exactly
  <2> QED BY <2>3, <2>8
<1>2. ASSUME NEW n \in 0 .. MaxDepth PROVE Exactly(Encodings(TRUE)[n])
  <2>1. n \notin Bad
    BY <1>1
  <2>2. n \in Nat /\ n <= MaxDepth
    OBVIOUS
  <2> QED BY Zenon, <2>1, <2>2
<1> QED BY <1>2

LEMMA ExactDER ==
  ASSUME MaxDepth \in Nat, NEW o, NEW c, Encodes(o, c, TRUE)
  PROVE  toDER(o) = c
<1>1. MaxDepth \in 0 .. MaxDepth
  OBVIOUS
<1> QED BY <1>1, EncodingsExact DEF Encodes, Exactly

\* What is in it, too, is written as it was.
LEMMA ExactParts ==
  ASSUME MaxDepth \in Nat, NEW o, NEW c, Encodes(o, c, TRUE), o.subs # <<>>
  PROVE  Contents(o.subs) = o.value
<1> DEFINE m == MaxDepth - 1
<1>1. MaxDepth # 0
  BY EncodingsAre DEF Encodes
<1>2. m \in Nat /\ m + 1 = MaxDepth /\ m \in 0 .. MaxDepth
  BY <1>1
<1> HIDE DEF m
<1>3. o \in Objects[m + 1] /\ Encode(o, c, Encodings(TRUE)[m], TRUE)
  BY <1>2, EncodingIs DEF Encodes
<1>4. o.value \in Seq(Byte) /\ o.subs \in Seq(Objects[m])
  <2>1. o \in ObjectsOver(Objects[m])
    BY <1>2, <1>3, ObjectsAre
  <2> QED BY <2>1 DEF ObjectsOver
<1>5. Tile(o.subs, o.value, Encodings(TRUE)[m]) /\ Exactly(Encodings(TRUE)[m])
  BY <1>2, <1>3, EncodingsExact DEF Encode
<1> QED BY <1>4, <1>5, TileContents

(* A copy of whatever could be read of bytes, as many as there are levels at    *)
(* most, can be read, too, and is equal to it; and it has the bytes of what     *)
(* was copied, if those are DER throughout (clone, cert.ts, and toDER, obj.ts). *)
THEOREM CloneHolds == Spec => []CloneIsEqual
<1>1. BytesInv => CloneIsEqual
  <2> DEFINE b == doc.bytes
             original == parseBuffer(b).obj
  <2>1. SUFFICES ASSUME BytesInv, doc.as = "bytes", stage = "cloned"
                 PROVE  /\ object.ok /\ toDER(object.obj) = toDER(original)
                        /\ \A n \in 1 .. Len(b) :
                             Encodes(original, SubSeq(b, 1, n), TRUE) => toDER(object.obj) = SubSeq(b, 1, n)
    BY DEF CloneIsEqual
  <2>2. b \in Seq(Byte) /\ Len(b) <= MaxBytes /\ parseBuffer(b).ok /\ object = clone(original)
    BY <2>1 DEF BytesInv
  <2> HIDE DEF b
  <2>3. object.ok /\ toDER(object.obj) = toDER(original)
    BY <2>2, CloneIsRead DEF Few
  <2> HIDE DEF original
  <2>4. ASSUME NEW n \in 1 .. Len(b), Encodes(original, SubSeq(b, 1, n), TRUE)
        PROVE  toDER(object.obj) = SubSeq(b, 1, n)
    BY <2>3, <2>4, ExactDER, BoundsAre
  <2> QED BY <2>3, <2>4
<1>2. Init => BytesInv
  BY BytesInvInit
<1>3. BytesInv /\ [Next]_vars => BytesInv'
  BY BytesInvNext
<1> QED BY <1>1, <1>2, <1>3, PTL DEF Spec

-----------------------------------------------------------------------------
(* What is DER is read.  An octet string is in doubt if it has no objects in it  *)
(* and its bytes look like objects all the same: the code takes them for that. *)
InDoubt(o) ==
  /\ isUniversal(o, OCTET_STRING) /\ o.subs = <<>> /\ o.value # <<>>
  /\ collectSubs(o.value, 0, Len(o.value)).ok

\* Nothing in it, at any level, is in doubt or has a tag that is not supported.
Clear(R) ==
  \A x \in R : Supported(x.tag) /\ ~ InDoubt(x) /\ \A k \in 1 .. Len(x.subs) : x.subs[k] \in R

\* Those in R are read as they are.
ReadFrom(P, R) ==
  \A x, y : <<x, y>> \in P /\ x \in R /\ Len(y) <= Large =>
    y \in Seq(Byte) /\ y # <<>> /\ parseStream(y, 0) = [ok |-> TRUE, next |-> Len(y), obj |-> x]

LEMMA TileCollected ==
  ASSUME NEW P, NEW R, ReadFrom(P, R), NEW S, NEW s \in Seq(S), \A k \in 1 .. Len(s) : s[k] \in R,
         NEW v \in Seq(Byte), Len(v) <= Large, Tile(s, v, P), NoneEmpty(P)
  PROVE  collectSubs(v, 0, Len(v)) = [ok |-> TRUE, subs |-> s]
<1> DEFINE n == Len(s)
           L == Len(v)
<1>0. n \in Nat /\ L \in Nat /\ Large \in Nat /\ L <= Large
  BY SMT, LenProperties DEF Large
<1>1. PICK cut \in [0 .. n -> 0 .. L] :
        /\ cut[0] = 0 /\ cut[n] = L
        /\ \A k \in 1 .. n : <<s[k], SubSeq(v, cut[k - 1] + 1, cut[k])>> \in P
  BY DEF Tile
<1> DEFINE Left(k) == collectSubs(v, cut[k], L) = [ok |-> TRUE, subs |-> SubSeq(s, k + 1, n)]
<1>2. ASSUME NEW k \in 1 .. n
      PROVE  /\ k - 1 \in 0 .. n /\ k \in 0 .. n /\ cut[k - 1] \in 0 .. L /\ cut[k] \in 0 .. L /\ cut[k - 1] < cut[k]
             /\ parseStream(v, cut[k - 1]) = [ok |-> TRUE, next |-> cut[k], obj |-> s[k]]
  <2>1. k - 1 \in 0 .. n /\ k \in 0 .. n
    BY <1>0
  <2> DEFINE p == cut[k - 1]
             q == cut[k]
             z == SubSeq(v, p + 1, q)
  <2>2. p \in 0 .. L /\ q \in 0 .. L /\ <<s[k], z>> \in P /\ s[k] \in R
    BY <1>1, <2>1
  <2>3. z # <<>>
    BY <2>2 DEF NoneEmpty
  <2> HIDE DEF p, q
  <2>4. p < q
    <3>1. CASE q < p + 1
      <4>1. z = <<>>
        BY <1>0, <2>2, <3>1, SubSeqEmpty
      <4> QED BY <2>3, <4>1
    <3> HIDE DEF L, z
    <3> QED BY <1>0, <2>2, <3>1
  <2>5. z \in Seq(Byte) /\ Len(z) = q - p /\ \A i \in 1 .. q - p : z[i] = v[p + i]
    <3>1. q \in 0 .. L /\ p \in 0 .. q
      <4> HIDE DEF L
      <4> QED BY <1>0, <2>2, <2>4
    <3> QED BY <3>1, Cut
  <2> DEFINE m == q - p
  <2>6. m \in Nat /\ p + m = q /\ p \in Nat /\ q \in Nat /\ q <= L /\ m <= Large /\ Len(z) = m /\ 0 + m = m /\ m - 0 = m
    <3>1. Len(z) = m
      BY <2>5
    <3> HIDE DEF L, z
    <3> QED BY <1>0, <2>2, <2>4, <3>1
  <2>7. \A i \in 1 .. m : z[i] = v[p + i]
    BY <2>5
  <2> HIDE DEF z, m
  <2>8. parseStream(z, 0) = [ok |-> TRUE, next |-> m, obj |-> s[k]]
    BY <2>2, <2>6 DEF ReadFrom
  <2>9. Same(z, 0, v, p, m)
    <3>1. \A i \in 1 .. m : z[0 + i] = v[p + i]
      <4>1. \A i \in 1 .. m : 0 + i = i
        BY <2>6
      <4> QED BY <2>7, <4>1
    <3>2. 0 + m <= Len(z) /\ p + m <= Len(v) /\ 0 \in Nat
      BY <2>6
    <3> QED BY <2>5, <2>6, <3>1, <3>2 DEF Same
  <2>10. parseStream(z, 0).ok /\ parseStream(z, 0).next = m /\ parseStream(z, 0).obj = s[k]
    BY <2>8
  <2>11. m <= 0 + m
    BY <2>6
  <2>12. parseStream(v, p) = [ok |-> TRUE, next |-> p + (parseStream(z, 0).next - 0), obj |-> parseStream(z, 0).obj]
    BY <2>9, <2>10, <2>11, SameRead
  <2>13. parseStream(v, p) = [ok |-> TRUE, next |-> q, obj |-> s[k]]
    BY <2>6, <2>10, <2>12
  <2> QED BY <2>1, <2>2, <2>4, <2>13 DEF p, q
<1>3. Left(n)
  <2>1. SubSeq(s, n + 1, n) = <<>>
    <3>1. n < n + 1 /\ n + 1 \in Nat
      BY <1>0
    <3> QED BY <1>0, <3>1, SubSeqEmpty
  <2>2. L \in 0 .. L
    BY <1>0
  <2>3. collectSubs(v, L, L) = [ok |-> TRUE, subs |-> <<>>]
    BY <2>2, CollectedIs
  <2> QED BY <1>1, <2>1, <2>3
<1>4. ASSUME NEW k \in 1 .. n, Left(k)
      PROVE  Left(k - 1)
  <2> DEFINE p == cut[k - 1]
             q == cut[k]
             x == SubSeq(s, k + 1, n)
  <2>1. /\ p \in 0 .. L /\ q \in 0 .. L /\ p < q /\ q <= L /\ L \in 0 .. L
        /\ parseStream(v, p) = [ok |-> TRUE, next |-> q, obj |-> s[k]]
    BY <1>0, <1>2
  <2>2. collectSubs(v, q, L) = [ok |-> TRUE, subs |-> x]
    BY <1>4
  <2>3. SubSeq(s, (k - 1) + 1, n) = <<s[k]>> \o x
    <3>1. n \in 0 .. n /\ k \in 0 .. n /\ k - 1 \in 0 .. k
      BY <1>0
    <3>2. SubSeq(s, (k - 1) + 1, k) \o SubSeq(s, k + 1, n) = SubSeq(s, (k - 1) + 1, n)
      BY <3>1, CutJoin
    <3>3. SubSeq(s, (k - 1) + 1, k) = <<s[k]>>
      <4> DEFINE y == SubSeq(s, (k - 1) + 1, k)
                 j == k - 1
      <4>1. /\ SubSeq(s, j + 1, k) \in Seq(S) /\ Len(SubSeq(s, j + 1, k)) = k - j
            /\ \A i \in 1 .. k - j : SubSeq(s, j + 1, k)[i] = s[j + i]
        <5>1. k \in 0 .. Len(s) /\ j \in 0 .. k
          BY <3>1
        <5> HIDE DEF j
        <5> QED BY <5>1, Cut
      <4>2. k - j = 1 /\ j + 1 = k /\ 1 \in 1 .. k - j
        BY <1>0
      <4>3. y \in Seq(S) /\ Len(y) = 1 /\ y[1] = s[k]
        BY <4>1, <4>2
      <4> HIDE DEF y
      <4>4. y = <<y[1]>>
        BY <4>3
      <4> QED BY <4>3, <4>4 DEF y
    <3> QED BY <3>2, <3>3
  <2> HIDE DEF p, q, x, L
  <2>4. parseStream(v, p).ok /\ parseStream(v, p).next = q /\ parseStream(v, p).obj = s[k]
    BY <2>1
  <2>5. p \in 0 .. Len(v) /\ L \in 0 .. Len(v) /\ p < L
    BY <1>0, <2>1 DEF L
  <2>6. collectSubs(v, p, L) = CollectedFrom(parseStream(v, p), collectSubs(v, parseStream(v, p).next, L))
    BY <2>5, CollectedIs
  <2>7. collectSubs(v, q, L).ok /\ collectSubs(v, q, L).subs = x
    BY <2>2
  <2>8. collectSubs(v, p, L) = [ok |-> TRUE, subs |-> <<s[k]>> \o x]
    BY <2>4, <2>6, <2>7 DEF CollectedFrom
  <2> QED BY <2>3, <2>8 DEF p, L
<1> DEFINE Bad == {m \in Nat : m <= n /\ ~ Left(n - m)}
<1>5. Bad = {}
  <2>1. SUFFICES ASSUME Bad # {} PROVE FALSE
    OBVIOUS
  <2>2. PICK m \in Bad : \A j \in Bad : m <= j
    <3>1. Bad \in SUBSET Nat
      OBVIOUS
    <3> HIDE DEF Bad
    <3> QED BY <2>1, <3>1, LeastNumber
  <2> HIDE DEF Left
  <2>3. m \in Nat /\ m <= n /\ ~ Left(n - m)
    BY <2>2
  <2>4. m # 0
    <3>1. n - 0 = n
      BY <1>0
    <3> QED BY <1>3, <2>3, <3>1
  <2> DEFINE j == m - 1
             k == n - j
  <2>5. j \in Nat /\ j <= n /\ ~ (m <= j) /\ k \in 1 .. n /\ k - 1 = n - m
    BY <1>0, <2>3, <2>4
  <2>6. Left(n - j)
    <3> HIDE DEF j
    <3> QED BY <2>2, <2>5
  <2> HIDE DEF k
  <2>7. Left(k)
    BY <2>6 DEF k
  <2> HIDE DEF j
  <2>8. Left(k - 1)
    BY <1>4, <2>5, <2>7
  <2> QED BY <2>3, <2>5, <2>8
<1>6. Left(0)
  <2> HIDE DEF Left, n
  <2>1. n <= n /\ n - n = 0 /\ n \in Nat
    BY <1>0
  <2>2. n \notin Bad
    BY <1>5
  <2>3. Left(n - n)
    BY Zenon, <2>1, <2>2
  <2> QED BY <2>1, <2>3
<1>7. SubSeq(s, 0 + 1, n) = s
  <2>1. 0 + 1 = 1
    OBVIOUS
  <2> QED BY <2>1, SubSeqFull
<1> QED BY <1>1, <1>6, <1>7

\* An object, whose objects are read as they are.
LEMMA ClearIsRead ==
  ASSUME NEW P, NoneEmpty(P), NEW R, Clear(R), ReadFrom(P, R), NEW n \in Nat, NEW o \in R, o \in Objects[n + 1],
         NEW c \in Seq(Byte), Len(c) <= Large, Encode(o, c, P, TRUE)
  PROVE  parseStream(c, 0) = [ok |-> TRUE, next |-> Len(c), obj |-> o]
<1> DEFINE v == o.value
           L == Len(c)
           m == Len(v)
           tag == o.tag
<1>0. /\ tag \in Tags /\ v \in Seq(Byte) /\ o.subs \in Seq(Objects[n])
      /\ o = [tag |-> tag, value |-> v, subs |-> o.subs] /\ Supported(tag) /\ ~ InDoubt(o)
  <2>1. o \in ObjectsOver(Objects[n])
    BY ObjectsAre
  <2> QED BY <2>1 DEF ObjectsOver, Clear
<1>1. L \in Nat /\ m \in Nat /\ Large \in Nat
  BY SMT, <1>0, LenProperties DEF Large
<1>2. PICK k \in 2 .. L : States(SubSeq(c, 2, k), m, TRUE) /\ SubSeq(c, k + 1, L) = v
  BY DEF Encode
<1> HIDE DEF v, m, tag
<1>3. k \in 0 .. L /\ m = L - k /\ m <= L
  <2>1. k \in 0 .. L /\ L \in 0 .. L
    BY <1>1, <1>2
  <2>2. Len(SubSeq(c, k + 1, L)) = L - k
    <3>1. L \in 0 .. Len(c) /\ k \in 0 .. L
      BY <2>1
    <3> HIDE DEF L
    <3> QED BY <3>1, Cut
  <2>3. m = L - k
    BY <1>2, <2>2 DEF m
  <2> HIDE DEF L
  <2> QED BY <1>1, <1>2, <2>1, <2>3
<1>4. c = Wrap(tag, v)
  BY <1>0, EncodedAsWritten DEF v, tag
<1>5. m <= Large
  <2> HIDE DEF L
  <2>1. L <= Large
    BY DEF L
  <2> QED BY <1>1, <1>3, <2>1
<1>6. Stands(c, tag, v)
  BY <1>0, <1>4, <1>5, WrapIsRead DEF m
<1> DEFINE inner == collectSubs(v, 0, m)
           b == Begin(c, 0)
           e == End(c, 0)
<1>7. /\ Header(c, 0) /\ e = L /\ Plain(c, 0) = [tag |-> tag, value |-> v, subs |-> <<>>]
      /\ Same(c, b, v, 0, m) /\ e = b + m
  BY <1>6 DEF Stands, m
<1>8. InsideOf(c, 0) = inner
  <2> HIDE DEF b, e
  <2>1. collectSubs(c, b, b + m) = collectSubs(v, 0, 0 + m)
    BY <1>7, SameCollected
  <2>2. 0 + m = m
    BY <1>1
  <2> QED BY <1>7, <2>1, <2>2 DEF InsideOf, b, e
<1>9. parseStream(c, 0) = ObjectOf(c, 0, inner)
  BY <1>7, <1>8, ParsedIs
<1> HIDE DEF inner
<1> DEFINE plain == [tag |-> tag, value |-> v, subs |-> <<>>]
<1>10. ObjectOf(c, 0, inner) =
         IF MustHold(plain) /\ ~ inner.ok THEN Thrown
         ELSE [ok |-> TRUE, next |-> L, obj |-> IF MayHold(plain) /\ inner.ok THEN [plain EXCEPT !.subs = inner.subs] ELSE plain]
  <2> HIDE DEF e, L
  <2> QED BY <1>7 DEF ObjectOf, e
<1>11. (MayHold(o) <=> MayHold(plain)) /\ (MustHold(plain) <=> tag.constructed) /\ (MustHold(plain) => MayHold(plain))
  BY DEF MayHold, MustHold, isUniversal, tag
<1>12. CASE o.subs # <<>>
  <2>1. MayHold(plain) /\ Tile(o.subs, v, P)
    BY <1>11, <1>12 DEF Encode, v
  <2>2. \A i \in 1 .. Len(o.subs) : o.subs[i] \in R
    BY DEF Clear
  <2>3. inner = [ok |-> TRUE, subs |-> o.subs]
    <3>1. Len(v) <= Large
      BY <1>5 DEF m
    <3> QED BY <1>0, <2>1, <2>2, <3>1, TileCollected DEF inner, m
  <2>4. inner.ok /\ inner.subs = o.subs
    BY <2>3
  <2>5. [plain EXCEPT !.subs = inner.subs] = [tag |-> tag, value |-> v, subs |-> o.subs]
    BY <2>4
  <2> HIDE DEF plain
  <2>6. ObjectOf(c, 0, inner) = [ok |-> TRUE, next |-> L, obj |-> [plain EXCEPT !.subs = inner.subs]]
    BY <1>10, <2>1, <2>4
  <2> QED BY <1>0, <1>9, <2>5, <2>6
<1>13. CASE o.subs = <<>>
  <2>1. plain = o
    BY <1>0, <1>13
  <2>2. ~ (MustHold(plain) /\ ~ inner.ok) /\ (MayHold(plain) /\ inner.ok => inner.subs = <<>>)
    <3>1. CASE v = <<>>
      <4>1. m = 0 /\ 0 \in 0 .. Len(<<>>) /\ <<>> \in Seq(Byte)
        BY <3>1, EmptySeq DEF m
      <4>2. collectSubs(<<>>, 0, 0) = [ok |-> TRUE, subs |-> <<>>]
        BY <4>1, CollectedIs
      <4>3. inner = [ok |-> TRUE, subs |-> <<>>]
        BY <3>1, <4>1, <4>2 DEF inner
      <4>4. inner.ok /\ inner.subs = <<>>
        BY <4>3
      <4> QED BY <4>4
    <3>2. CASE v # <<>>
      <4>1. ~ tag.constructed
        BY <1>13, <3>2 DEF Encode, v, tag
      <4>2. ~ (isUniversal(o, OCTET_STRING) /\ inner.ok)
        BY <1>0, <1>13, <3>2 DEF InDoubt, inner, m, v
      <4>3. isUniversal(plain, OCTET_STRING) <=> isUniversal(o, OCTET_STRING)
        BY <2>1
      <4> HIDE DEF plain
      <4>4. ~ MustHold(plain)
        BY <1>11, <4>1
      <4>5. MayHold(plain) => isUniversal(plain, OCTET_STRING)
        BY <4>4 DEF MayHold, MustHold
      <4> QED BY <4>2, <4>3, <4>4, <4>5
    <3> QED BY <3>1, <3>2
  <2>3. [plain EXCEPT !.subs = <<>>] = plain
    OBVIOUS
  <2> HIDE DEF plain
  <2>4. MayHold(plain) /\ inner.ok => [plain EXCEPT !.subs = inner.subs] = plain
    BY <2>2, <2>3
  <2>5. ObjectOf(c, 0, inner) = [ok |-> TRUE, next |-> L, obj |-> plain]
    BY <1>10, <2>2, <2>4
  <2> QED BY <1>9, <2>1, <2>5
<1> QED BY <1>12, <1>13

(* Any DER of at most a gigabyte in which nothing is in doubt is read, all of it,  *)
(* as the object it encodes; that object is written as the same bytes, and the   *)
(* objects in it, side by side, are its value: nothing a signature is verified   *)
(* of changes on the way (parseBuffer and toDER, obj.ts).                     *)
THEOREM DERIsRead ==
  ASSUME NEW o, NEW c, Encodes(o, c, TRUE), Len(c) <= Large, NEW R, Clear(R), o \in R, MaxDepth \in Nat
  PROVE  /\ parseBuffer(c) = [ok |-> TRUE, next |-> Len(c), obj |-> o]
         /\ toDER(o) = c
         /\ o.subs # <<>> => Contents(o.subs) = o.value
<1> DEFINE Bad == {n \in Nat : n <= MaxDepth /\ ~ ReadFrom(Encodings(TRUE)[n], R)}
<1>1. Bad = {}
  <2>1. SUFFICES ASSUME Bad # {} PROVE FALSE
    OBVIOUS
  <2>2. PICK n \in Bad : \A m \in Bad : n <= m
    <3>1. Bad \in SUBSET Nat
      OBVIOUS
    <3> HIDE DEF Bad
    <3> QED BY <2>1, <3>1, LeastNumber
  <2>3. n \in Nat /\ n <= MaxDepth /\ ~ ReadFrom(Encodings(TRUE)[n], R)
    BY <2>2
  <2>4. n # 0
    BY <2>3, EncodingsAre DEF ReadFrom
  <2> DEFINE m == n - 1
  <2>5. m \in Nat /\ m + 1 = n /\ m <= MaxDepth /\ ~ (n <= m)
    BY <2>3, <2>4
  <2> HIDE DEF m
  <2>6. ReadFrom(Encodings(TRUE)[m], R) /\ NoneEmpty(Encodings(TRUE)[m])
    BY <2>2, <2>5, NoneEmptyEncodings
  <2>7. ASSUME NEW x, NEW y, <<x, y>> \in Encodings(TRUE)[m + 1], x \in R, Len(y) <= Large
        PROVE  y \in Seq(Byte) /\ y # <<>> /\ parseStream(y, 0) = [ok |-> TRUE, next |-> Len(y), obj |-> x]
    <3>1. x \in Objects[m + 1] /\ y \in Seq(Byte) /\ Encode(x, y, Encodings(TRUE)[m], TRUE)
      BY <2>5, <2>7, EncodingIs
    <3>2. parseStream(y, 0) = [ok |-> TRUE, next |-> Len(y), obj |-> x]
      BY <2>5, <2>6, <2>7, <3>1, ClearIsRead
    <3> QED BY <3>1, <3>2 DEF Encode
  <2>8. ReadFrom(Encodings(TRUE)[n], R)
    BY <2>5, <2>7 DEF ReadFrom
  <2> QED BY <2>3, <2>8
<1>2. MaxDepth \notin Bad
  BY <1>1
<1>3. MaxDepth <= MaxDepth
  OBVIOUS
<1>4. ReadFrom(Encodings(TRUE)[MaxDepth], R)
  BY Zenon, <1>2, <1>3
<1>5. parseBuffer(c) = [ok |-> TRUE, next |-> Len(c), obj |-> o]
  BY <1>4 DEF Encodes, ReadFrom, parseBuffer
<1> QED BY <1>5, ExactDER, ExactParts

-----------------------------------------------------------------------------
(* Integers: what adds up byte by byte.                                     *)
Summing(c, top, f) ==
  f = [s \in SUBSET DOMAIN c |-> IF s = {} THEN top ELSE LET x == Max(s) IN f[s \ {x}] * 256 + c[x]]

LEMMA FoldIs ==
  ASSUME NEW c, NEW top
  PROVE  FoldLeft(LAMBDA n, byte : n * 256 + byte, top, c) = (CHOOSE f : Summing(c, top, f))[DOMAIN c]
BY DEF FoldLeft, MapThenFoldSet, Summing

LEMMA MaxIs ==
  ASSUME NEW n \in Nat, NEW s \in SUBSET (1 .. n), s # {}
  PROVE  Max(s) \in s /\ Max(s) \in 1 .. n /\ \A y \in s : y <= Max(s)
<1> DEFINE Bounds == {m \in Nat : \A y \in s : y <= m}
<1>1. \A y \in s : y \in 1 .. n /\ y <= n
  OBVIOUS
<1>2. n \in Bounds
  BY <1>1
<1>3. PICK m \in Bounds : \A k \in Bounds : m <= k
  <2>1. Bounds \in SUBSET Nat
    OBVIOUS
  <2> HIDE DEF Bounds
  <2> QED BY <1>2, <2>1, LeastNumber
<1>4. m \in Nat /\ \A y \in s : y <= m
  BY <1>3
<1>5. m \in s
  <2>1. SUFFICES ASSUME m \notin s PROVE FALSE
    OBVIOUS
  <2>2. PICK y \in s : TRUE
    OBVIOUS
  <2>3. m # 0
    <3>1. y \in 1 .. n /\ y <= m
      BY <1>1, <1>4
    <3> QED BY <3>1
  <2>4. \A z \in s : z <= m - 1
    <3>1. ASSUME NEW z \in s PROVE z <= m - 1
      <4>1. z \in 1 .. n /\ z <= m /\ z # m
        BY <1>1, <1>4, <2>1
      <4> QED BY <1>4, <4>1
    <3> QED BY <3>1
  <2>5. m - 1 \in Nat /\ ~ (m <= m - 1)
    BY <1>4, <2>3
  <2>6. m - 1 \in Bounds
    BY <2>4, <2>5
  <2> QED BY <1>3, <2>5, <2>6
<1>6. \A y \in s : m >= y
  <2>1. ASSUME NEW y \in s PROVE m >= y
    <3>1. y \in 1 .. n /\ y <= m
      BY <1>1, <1>4
    <3> QED BY <1>4, <3>1
  <2> QED BY <2>1
<1>7. Max(s) \in s /\ \A y \in s : Max(s) >= y
  BY <1>5, <1>6 DEF Max
<1>8. \A y \in s : y <= Max(s)
  <2> DEFINE x == Max(s)
  <2>1. x \in s /\ \A y \in s : x >= y
    BY <1>7
  <2> HIDE DEF x
  <2>2. ASSUME NEW y \in s PROVE y <= x
    <3>1. y \in 1 .. n /\ x \in 1 .. n /\ x >= y
      BY <1>1, <2>1
    <3> QED BY <3>1
  <2> QED BY <2>2 DEF x
<1> QED BY <1>1, <1>7, <1>8

LEMMA SumsExist ==
  ASSUME NEW c \in Seq(Byte), NEW top \in Int
  PROVE  \E f : Summing(c, top, f) /\ f \in [SUBSET DOMAIN c -> Int]
<1> DEFINE n == Len(c)
           D == SUBSET DOMAIN c
           V == [s \in D |-> Int]
           rank == [s \in D |-> IF s = {} THEN 0 ELSE Max(s)]
           body(s, h) == IF s = {} THEN top ELSE h[s \ {Max(s)}] * 256 + c[Max(s)]
           step == [z \in D \X Valued(D, V) |-> body(z[1], z[2])]
<1>0. n \in Nat /\ DOMAIN c = 1 .. n
  BY LenProperties
<1>1. ASSUME NEW s \in D, s # {}
      PROVE  /\ Max(s) \in s /\ Max(s) \in 1 .. n /\ s \ {Max(s)} \in D /\ c[Max(s)] \in Int
             /\ rank[s] = Max(s) /\ rank[s \ {Max(s)}] < rank[s] /\ rank[s \ {Max(s)}] \in Nat
  <2> DEFINE x == Max(s)
             t == s \ {x}
  <2>1. x \in s /\ x \in 1 .. n /\ \A y \in s : y <= x
    BY <1>0, <1>1, MaxIs
  <2>2. t \in D /\ rank[s] = x
    BY <1>1
  <2>3. c[x] \in Int
    <3>1. c[x] \in Byte
      BY <2>1, ElementOfSeq
    <3>2. \A y \in Byte : y \in Int
      BY DEF Byte
    <3> HIDE DEF x
    <3> QED BY <3>1, <3>2
  <2>4. CASE t = {}
    <3>1. rank[t] = 0
      BY <2>2, <2>4
    <3> HIDE DEF rank, t, x
    <3>2. 0 < x
      BY <1>0, <2>1
    <3> QED BY <2>1, <2>2, <2>3, <3>1, <3>2 DEF t, x
  <2>5. CASE t # {}
    <3>1. Max(t) \in t /\ Max(t) \in 1 .. n /\ rank[t] = Max(t)
      BY <1>0, <2>2, <2>5, MaxIs
    <3> DEFINE y == Max(t)
    <3>2. y \in s /\ y # x /\ y \in 1 .. n
      BY <3>1
    <3> HIDE DEF rank, t, x, y
    <3>3. y < x /\ y \in Nat
      BY <1>0, <2>1, <3>2
    <3> QED BY <2>1, <2>2, <2>3, <3>1, <3>3 DEF t, x, y
  <2> QED BY <2>4, <2>5
<1>2. {} \in D
  OBVIOUS
<1>3. rank \in [D -> Nat]
  <2>1. ASSUME NEW s \in D PROVE (IF s = {} THEN 0 ELSE Max(s)) \in Nat
    <3>1. s # {} => Max(s) \in 1 .. n
      BY <1>1
    <3> QED BY <1>0, <3>1
  <2> QED BY <2>1
<1>4. \A s \in D : V[s] = Int
  OBVIOUS
<1>5. \A s \in D, g \in Valued(D, V) : step[<<s, g>>] = body(s, g)
  OBVIOUS
<1>6. ASSUME NEW s \in D, NEW g \in Valued(D, V) PROVE body(s, g) \in Int
  <2>1. CASE s # {}
    <3>1. g[s \ {Max(s)}] \in Int /\ c[Max(s)] \in Int
      BY <1>1, <1>4, <2>1 DEF Valued
    <3> QED BY <2>1, <3>1
  <2>2. CASE s = {}
    BY <2>2
  <2> QED BY <2>1, <2>2
<1>7. Stepping(D, V, step)
  <2> HIDE DEF D, V, body, step
  <2> QED BY ZenonT(40), <1>4, <1>5, <1>6 DEF Stepping
<1>8. ASSUME NEW s \in D, NEW g \in Valued(D, V), NEW h \in Valued(D, V), Alike(D, rank, g, h, rank[s])
      PROVE  body(s, g) = body(s, h)
  <2>1. CASE s # {}
    <3>1. s \ {Max(s)} \in D /\ rank[s \ {Max(s)}] < rank[s]
      BY <1>1, <2>1
    <3>2. g[s \ {Max(s)}] = h[s \ {Max(s)}]
      <4> HIDE DEF D, rank, V
      <4> QED BY <1>8, <3>1 DEF Alike
    <3> QED BY <3>2
  <2>2. CASE s = {}
    BY <2>2
  <2> QED BY <2>1, <2>2
<1>9. Grounded(D, V, rank, step)
  <2>1. \A s \in D : \A g, h \in Valued(D, V) : Alike(D, rank, g, h, rank[s]) => step[<<s, g>>] = step[<<s, h>>]
    <3>1. TAKE s \in D
    <3>2. TAKE g, h \in Valued(D, V)
    <3>3. HAVE Alike(D, rank, g, h, rank[s])
    <3> HIDE DEF D, V, rank, body, step
    <3>4. body(s, g) = body(s, h)
      BY <1>8, <3>3
    <3> QED BY <1>5, <3>4
  <2> QED BY <2>1 DEF Grounded
<1>10. WellFounded(D, V, rank, step)
  <2>1. \A s \in D : V[s] # {}
    BY <1>4
  <2> HIDE DEF D, V, rank, step
  <2> QED BY <1>3, <1>7, <1>9, <2>1 DEF WellFounded
<1>11. PICK f : Solves(f, D, V, step)
  <2> HIDE DEF D, V, rank, step
  <2> QED BY <1>10, Recursion
<1>12. f \in Valued(D, V) /\ \A s \in D : f[s] = step[<<s, f>>]
  BY <1>11 DEF Solves
<1>13. f = [s \in D |-> f[s]] /\ \A s \in D : f[s] \in Int
  <2> HIDE DEF D, V
  <2> QED BY <1>4, <1>12 DEF Valued
<1>14. \A s \in D : f[s] = body(s, f)
  <2> HIDE DEF D, V, body, step
  <2> QED BY <1>5, <1>12
<1>15. Summing(c, top, f)
  BY ZenonT(40), <1>13, <1>14 DEF Summing
<1> QED BY <1>13, <1>15

\* (FoldLeft, of numbers in bytes)
LEMMA FoldedIs ==
  ASSUME NEW c \in Seq(Byte), NEW top \in Int, NEW g, g[0] = top,
         \A k \in 1 .. Len(c) : g[k] = g[k - 1] * 256 + c[k]
  PROVE  FoldLeft(LAMBDA n, byte : n * 256 + byte, top, c) = g[Len(c)]
<1> DEFINE n == Len(c)
           f == CHOOSE h : Summing(c, top, h)
<1>0. n \in Nat /\ DOMAIN c = 1 .. n
  BY LenProperties
<1>1. Summing(c, top, f)
  BY SumsExist
<1>5. FoldLeft(LAMBDA m, byte : m * 256 + byte, top, c) = f[DOMAIN c]
  BY ZenonT(60), FoldIs
<1> HIDE DEF f
<1>2. ASSUME NEW s \in SUBSET (1 .. n)
      PROVE  f[s] = IF s = {} THEN top ELSE f[s \ {Max(s)}] * 256 + c[Max(s)]
  BY ZenonT(40), <1>0, <1>1 DEF Summing
<1> DEFINE Bad == {k \in 0 .. n : f[1 .. k] # g[k]}
<1>3. Bad = {}
  <2>1. SUFFICES ASSUME Bad # {} PROVE FALSE
    OBVIOUS
  <2>2. PICK k \in Bad : \A m \in Bad : k <= m
    <3>1. Bad \in SUBSET Nat
      BY <1>0
    <3> HIDE DEF Bad
    <3> QED BY <2>1, <3>1, LeastNumber
  <2>3. k \in 0 .. n /\ f[1 .. k] # g[k]
    BY <2>2
  <2>4. CASE k = 0
    <3>1. 1 .. k = {}
      BY <2>4
    <3>2. f[{}] = top
      BY <1>2
    <3> QED BY <2>3, <2>4, <3>1, <3>2
  <2>5. CASE k # 0
    <3> DEFINE s == 1 .. k
    <3>1. k \in 1 .. n /\ k - 1 \in 0 .. n /\ ~ (k <= k - 1)
      BY <1>0, <2>3, <2>5
    <3>2. s \in SUBSET (1 .. n) /\ k \in s
      BY <1>0, <3>1
    <3>3. Max(s) = k
      <4>1. Max(s) \in s /\ \A y \in s : y <= Max(s)
        <5> HIDE DEF s
        <5> QED BY <1>0, <3>2, MaxIs
      <4> DEFINE x == Max(s)
      <4>2. x \in 1 .. k /\ k <= x
        BY <3>2, <4>1
      <4> HIDE DEF x
      <4>3. x = k
        BY <3>1, <4>2
      <4> QED BY <4>3 DEF x
    <3>4. s \ {k} = 1 .. (k - 1)
      BY <3>1
    <3>5. f[s] = f[s \ {k}] * 256 + c[k]
      <4> HIDE DEF s
      <4>1. s # {}
        BY <3>2
      <4> QED BY <1>2, <3>2, <3>3, <4>1
    <3>6. f[1 .. (k - 1)] = g[k - 1]
      <4>1. k - 1 \notin Bad
        BY <2>2, <3>1
      <4> HIDE DEF n
      <4> QED BY <3>1, <4>1
    <3>7. g[k] = g[k - 1] * 256 + c[k]
      BY <3>1
    <3> QED BY <2>3, <3>4, <3>5, <3>6, <3>7
  <2> QED BY <2>4, <2>5
<1>4. f[1 .. n] = g[n]
  <2>1. n \in 0 .. n
    BY <1>0
  <2> HIDE DEF n
  <2> QED BY <1>3, <2>1
<1> QED BY <1>0, <1>4, <1>5

(* A power of 256: one, and as many zeros.                                  *)
Power(k) == BigEndian(<<1>> \o Zeros(k))

LEMMA PowerIs ==
  /\ Power(0) = 1
  /\ \A k \in Nat : Power(k) \in Nat /\ Power(k + 1) = Power(k) * 256
<1> DEFINE one == 1
<1>0. one \in Byte /\ 0 \in Byte /\ <<>> \in Seq(Byte) /\ Len(<<>>) = 0
  BY EmptySeq DEF Byte
<1>1. ASSUME NEW k \in Nat PROVE <<1>> \o Zeros(k) \in Seq(Byte) /\ <<1>> \o Zeros(k + 1) = Append(<<1>> \o Zeros(k), 0)
  <2> DEFINE z == Zeros(k)
             y == Zeros(k + 1)
             a == <<1>> \o z
             b == <<1>> \o y
             d == Append(a, 0)
  <2>1. z \in Seq(Byte) /\ Len(z) = k /\ y \in Seq(Byte) /\ Len(y) = k + 1 /\ (\A i \in 1 .. k : z[i] = 0) /\ \A i \in 1 .. k + 1 : y[i] = 0
    BY <1>0 DEF Zeros
  <2> HIDE DEF z, y
  <2>2. a \in Seq(Byte) /\ Len(a) = k + 1 /\ a[1] = 1 /\ \A i \in 1 .. k : a[i + 1] = z[i]
    <3> HIDE DEF one
    <3>1. <<one>> \o z \in Seq(Byte) /\ Len(<<one>> \o z) = Len(z) + 1 /\ (<<one>> \o z)[1] = one
          /\ \A i \in 1 .. Len(z) : (<<one>> \o z)[i + 1] = z[i]
      BY <1>0, <2>1, ConsIs
    <3> QED BY <2>1, <3>1 DEF one
  <2>3. b \in Seq(Byte) /\ Len(b) = k + 2 /\ b[1] = 1 /\ \A i \in 1 .. k + 1 : b[i + 1] = y[i]
    <3> HIDE DEF one
    <3>1. <<one>> \o y \in Seq(Byte) /\ Len(<<one>> \o y) = Len(y) + 1 /\ (<<one>> \o y)[1] = one
          /\ \A i \in 1 .. Len(y) : (<<one>> \o y)[i + 1] = y[i]
      BY <1>0, <2>1, ConsIs
    <3>2. (k + 1) + 1 = k + 2
      OBVIOUS
    <3> QED BY <2>1, <3>1, <3>2 DEF one
  <2> HIDE DEF a, b
  <2>4. d \in Seq(Byte) /\ Len(d) = k + 2 /\ d[k + 2] = 0 /\ \A i \in 1 .. k + 1 : d[i] = a[i]
    <3>1. d \in Seq(Byte) /\ Len(d) = Len(a) + 1 /\ (\A i \in 1 .. Len(a) : d[i] = a[i]) /\ d[Len(a) + 1] = 0
      BY <1>0, <2>2, AppendProperties
    <3>2. (k + 1) + 1 = k + 2
      OBVIOUS
    <3> HIDE DEF d
    <3> QED BY <2>2, <3>1, <3>2
  <2> HIDE DEF d
  <2>5. ASSUME NEW i \in 1 .. Len(b) PROVE b[i] = d[i]
    <3>1. CASE i = 1
      <4>1. 1 \in 1 .. k + 1
        OBVIOUS
      <4> QED BY <2>2, <2>3, <2>4, <3>1, <4>1
    <3>2. CASE i # 1
      <4> DEFINE j == i - 1
      <4>1. j \in 1 .. k + 1 /\ j + 1 = i
        BY <2>3, <3>2
      <4> HIDE DEF j
      <4>2. b[i] = 0
        BY <2>1, <2>3, <4>1
      <4>3. CASE i = k + 2
        BY <2>4, <4>2, <4>3
      <4>4. CASE i # k + 2
        <5>1. i \in 1 .. k + 1 /\ j \in 1 .. k
          BY <2>3, <4>1, <4>4
        <5> QED BY <2>1, <2>2, <2>4, <4>1, <4>2, <5>1
      <4> QED BY <4>3, <4>4
    <3> QED BY <3>1, <3>2
  <2>6. b = d
    BY <2>3, <2>4, <2>5, SeqEqual
  <2> QED BY <2>2, <2>6 DEF a, b, d, z, y
<1>2. ASSUME NEW k \in Nat PROVE Power(k) \in Nat /\ Power(k + 1) = Power(k) * 256
  <2> DEFINE a == <<1>> \o Zeros(k)
  <2>1. a \in Seq(Byte) /\ Power(k) = BigEndian(a) /\ Power(k + 1) = BigEndian(Append(a, 0))
    BY <1>1 DEF Power
  <2> HIDE DEF a
  <2>2. BigEndian(Append(a, 0)) = BigEndian(a) * 256 + 0 /\ BigEndian(a) \in Nat
    BY <1>0, <2>1, BigEndianAppend
  <2> DEFINE x == BigEndian(a)
  <2>3. x \in Nat /\ Power(k + 1) = x * 256 + 0 /\ Power(k) = x
    BY <2>1, <2>2
  <2> HIDE DEF x
  <2> QED BY <2>3
<1>3. Power(0) = 1
  <2>1. Zeros(0) = <<>>
    BY DEF Zeros
  <2>2. <<1>> \o <<>> = <<1>> /\ Append(<<>>, 1) = <<1>>
    OBVIOUS
  <2> HIDE DEF one
  <2>3. BigEndian(Append(<<>>, one)) = BigEndian(<<>>) * 256 + one
    BY <1>0, BigEndianAppend
  <2>4. BigEndian(<<1>>) = 0 * 256 + 1
    BY <2>2, <2>3, BigEndianEmpty DEF one
  <2>5. 0 * 256 + 1 = 1
    OBVIOUS
  <2>6. <<1>> \o Zeros(0) = <<1>>
    BY <2>1, <2>2
  <2>7. Power(0) = BigEndian(<<1>>)
    BY Zenon, <2>6 DEF Power
  <2> QED BY <2>4, <2>5, <2>7
<1> QED BY <1>2, <1>3

(* What is read of an INTEGER, of any length, is the number in two's complement:  *)
(* what its bytes say without a sign, less the power of 256 of its length when   *)
(* the first of them is above 127 (parseInteger, parse.ts).                    *)
THEOREM IntegerIsExact ==
  ASSUME NEW v \in Seq(Byte), v # <<>>
  PROVE  parseInteger(v) = BigEndian(v) - (IF v[1] > 127 THEN Power(Len(v)) ELSE 0)
<1> DEFINE n    == Len(v)
           neg  == v # <<>> /\ v[1] > 127
           pad  == IF neg THEN 255 ELSE 0
           rest == {i \in DOMAIN v : v[i] # pad}
           pos  == CHOOSE i \in rest : \A j \in rest : i <= j
           top  == IF neg THEN v[pos] - 256 ELSE v[pos]
           none == IF neg THEN -1 ELSE 0
           one  == IF neg THEN 1 ELSE 0
           base == [k \in 0 .. n |-> IF neg THEN Power(k) ELSE 0]
<1>0. n \in Nat /\ n # 0 /\ DOMAIN v = 1 .. n /\ \A i \in 1 .. n : v[i] \in Byte
  <2>1. n \in Nat /\ DOMAIN v = 1 .. n
    BY LenProperties
  <2>2. n # 0
    BY EmptySeq
  <2>3. \A i \in 1 .. n : v[i] \in Byte
    BY ElementOfSeq
  <2> QED BY <2>1, <2>2, <2>3
<1>1. \A i \in 1 .. n : v[i] \in 0 .. 255
  BY <1>0 DEF Byte
<1>2. PICK f : Numbers(f, v) /\ BigEndian(v) = f[n]
  BY BigEndianIs
<1>3. f[0] = 0 /\ (\A k \in 1 .. n : f[k] = f[k - 1] * 256 + v[k]) /\ \A k \in 0 .. n : f[k] \in Nat
  <2>1. ASSUME NEW k \in 1 .. n PROVE f[k] = f[k - 1] * 256 + v[k]
    <3>1. k # 0 /\ k \in 0 .. n
      BY <1>0
    <3> QED BY <1>2, <3>1 DEF Numbers
  <2>2. f[0] = 0 /\ \A k \in 0 .. n : f[k] \in Nat
    BY <1>0, <1>2 DEF Numbers
  <2> QED BY <2>1, <2>2
<1>4. base[0] = one /\ (\A k \in 0 .. n : base[k] \in Nat) /\ \A k \in 1 .. n : base[k] = base[k - 1] * 256
  <2>1. 0 \in 0 .. n /\ base[0] = one
    <3>1. 0 \in 0 .. n
      BY <1>0
    <3> QED BY <3>1, PowerIs
  <2>2. ASSUME NEW k \in 0 .. n PROVE base[k] \in Nat
    <3>1. k \in Nat
      BY <1>0
    <3> QED BY <3>1, PowerIs
  <2>3. ASSUME NEW k \in 1 .. n PROVE base[k] = base[k - 1] * 256
    <3> DEFINE m == k - 1
    <3>1. m \in Nat /\ m \in 0 .. n /\ m + 1 = k /\ k \in 0 .. n
      BY <1>0
    <3> HIDE DEF m
    <3>2. Power(k) = Power(m) * 256
      BY <3>1, PowerIs
    <3>3. base[k] = (IF neg THEN Power(k) ELSE 0) /\ base[m] = (IF neg THEN Power(m) ELSE 0)
      BY <3>1
    <3>4. 0 = 0 * 256
      OBVIOUS
    <3>5. base[k] = base[m] * 256
      <4> HIDE DEF base, neg
      <4> QED BY <3>2, <3>3, <3>4
    <3> QED BY <3>5 DEF m
  <2> QED BY <2>1, <2>2, <2>3
<1> HIDE DEF base
<1> DEFINE d == [k \in 0 .. n |-> f[k] - base[k]]
<1>5. d[0] = none /\ (\A k \in 0 .. n : d[k] \in Int) /\ \A k \in 1 .. n : d[k] = d[k - 1] * 256 + v[k]
  <2>1. 0 \in 0 .. n /\ d[0] = none
    <3>1. 0 \in 0 .. n
      BY <1>0
    <3>2. d[0] = 0 - one
      BY <1>3, <1>4, <3>1
    <3> QED BY <3>2
  <2>2. \A k \in 0 .. n : d[k] \in Int
    BY <1>3, <1>4
  <2>3. ASSUME NEW k \in 1 .. n PROVE d[k] = d[k - 1] * 256 + v[k]
    <3>1. k - 1 \in 0 .. n /\ k \in 0 .. n
      BY <1>0
    <3>2. d[k] = f[k] - base[k] /\ d[k - 1] = f[k - 1] - base[k - 1]
      BY <3>1
    <3>3. f[k] = f[k - 1] * 256 + v[k] /\ base[k] = base[k - 1] * 256
      BY <1>3, <1>4
    <3>4. f[k - 1] \in Nat /\ base[k - 1] \in Nat /\ v[k] \in 0 .. 255
      BY <1>1, <1>3, <1>4, <3>1
    <3> DEFINE x == f[k - 1]
               y == base[k - 1]
               z == v[k]
    <3> HIDE DEF d
    <3>5. x \in Nat /\ y \in Nat /\ z \in Int
      <4>1. \A b \in 0 .. 255 : b \in Int
        OBVIOUS
      <4> QED BY Zenon, <3>4, <4>1
    <3>6. f[k] = x * 256 + z /\ base[k] = y * 256 /\ d[k - 1] = x - y
      BY <3>2, <3>3
    <3> HIDE DEF x, y, z
    <3>7. d[k] = d[k - 1] * 256 + z
      BY <3>2, <3>5, <3>6
    <3> QED BY <3>7 DEF z
  <2> QED BY <2>1, <2>2, <2>3
<1>6. BigEndian(v) - (IF v[1] > 127 THEN Power(Len(v)) ELSE 0) = d[n]
  <2>1. n \in 0 .. n
    BY <1>0
  <2> QED BY <1>2, <2>1 DEF base
<1> HIDE DEF d
<1>7. none * 256 + pad = none
  OBVIOUS
\* the bytes that only fill up change nothing
<1>8. ASSUME NEW m \in 0 .. n, \A i \in 1 .. m : v[i] = pad
      PROVE  d[m] = none
  <2> DEFINE Bad == {k \in 0 .. m : d[k] # none}
  <2>1. Bad = {}
    <3>1. SUFFICES ASSUME Bad # {} PROVE FALSE
      OBVIOUS
    <3>2. Bad \in SUBSET Nat
      BY <1>0
    <3>3. PICK k \in Bad : \A j \in Bad : k <= j
      <4> HIDE DEF Bad
      <4> QED BY <3>1, <3>2, LeastNumber
    <3>4. k # 0
      BY <1>5, <3>3
    <3>5. k \in 1 .. m /\ k \in 1 .. n /\ k - 1 \in 0 .. m /\ ~ (k <= k - 1)
      BY <1>0, <3>3, <3>4
    <3>6. d[k - 1] = none
      BY <3>3, <3>5
    <3>7. d[k] = d[k - 1] * 256 + v[k] /\ v[k] = pad
      BY <1>5, <1>8, <3>5
    <3>8. d[k] = none
      <4> HIDE DEF none, pad
      <4> QED BY <1>7, <3>6, <3>7
    <3> QED BY <3>3, <3>8
  <2>2. m \in 0 .. m
    BY <1>0
  <2> QED BY <2>1, <2>2
<1>9. parseInteger(v) = IF rest = {} THEN none
                        ELSE FoldLeft(LAMBDA m, byte : m * 256 + byte, top, SubSeq(v, pos + 1, Len(v)))
  BY DEF parseInteger
<1>10. CASE rest = {}
  <2>1. \A i \in 1 .. n : v[i] = pad
    BY <1>0, <1>10
  <2>2. n \in 0 .. n
    BY <1>0
  <2>3. d[n] = none
    <3> HIDE DEF none, pad, rest
    <3> QED BY <1>8, <2>1, <2>2
  <2> QED BY <1>6, <1>9, <1>10, <2>3
<1>11. CASE rest # {}
  <2>1. rest \in SUBSET Nat /\ rest \in SUBSET (1 .. n)
    BY <1>0
  <2>2. pos \in rest /\ \A j \in rest : pos <= j
    <3> HIDE DEF rest
    <3>1. \E i \in rest : \A j \in rest : i <= j
      BY <1>11, <2>1, LeastNumber
    <3> QED BY <3>1
  <2>3. pos \in 1 .. n /\ \A i \in 1 .. (pos - 1) : v[i] = pad
    <3>1. pos \in 1 .. n
      <4> HIDE DEF rest, pos
      <4> QED BY <2>1, <2>2
    <3>2. ASSUME NEW i \in 1 .. (pos - 1) PROVE v[i] = pad
      <4> HIDE DEF pos
      <4>1. i \in 1 .. n /\ ~ (pos <= i)
        BY <1>0, <3>1
      <4>2. i \notin rest
        <5> HIDE DEF rest
        <5> QED BY <2>2, <4>1
      <4> QED BY <1>0, <4>1, <4>2
    <3> QED BY <3>1, <3>2
  <2> DEFINE p == pos
             s == SubSeq(v, p + 1, Len(v))
             g == [k \in 0 .. n - p |-> d[p + k]]
             t == top
  <2>4. p \in 1 .. n /\ (\A i \in 1 .. (p - 1) : v[i] = pad) /\ t = (IF neg THEN v[p] - 256 ELSE v[p])
    BY <2>3
  <2> HIDE DEF p, pos, rest
  <2>5. d[p] = t /\ t \in Int
    <3>1. p - 1 \in 0 .. n
      BY <1>0, <2>4
    <3>2. d[p - 1] = none
      <4> HIDE DEF none, pad
      <4> QED BY <1>8, <2>4, <3>1
    <3>3. d[p] = d[p - 1] * 256 + v[p] /\ v[p] \in 0 .. 255
      BY <1>1, <1>5, <2>4
    <3>4. t = none * 256 + v[p]
      <4> DEFINE y == v[p]
      <4>1. y \in 0 .. 255 /\ t = IF neg THEN y - 256 ELSE y
        BY <2>4, <3>3
      <4> HIDE DEF t, y, neg
      <4>2. t = none * 256 + y
        BY <4>1
      <4> QED BY <4>2 DEF y
    <3>5. t \in Int
      <4> DEFINE y == v[p]
      <4>1. y \in 0 .. 255 /\ t = IF neg THEN y - 256 ELSE y
        BY <2>4, <3>3
      <4> HIDE DEF t, y, neg
      <4> QED BY <4>1
    <3> QED BY <3>2, <3>3, <3>4, <3>5
  <2> HIDE DEF t, top
  <2>6. s \in Seq(Byte) /\ Len(s) = n - p /\ \A k \in 1 .. n - p : s[k] = v[p + k]
    <3>1. p + 1 \in 1 .. n + 1 /\ n - (p + 1) + 1 = n - p
      BY <1>0, <2>4
    <3>2. s \in Seq(Byte) /\ Len(s) = (IF p + 1 <= n THEN n - (p + 1) + 1 ELSE 0)
          /\ \A k \in 1 .. n - (p + 1) + 1 : s[k] = v[p + 1 + k - 1]
      <4>1. p + 1 \in Int /\ n \in Int
        BY <1>0, <2>4
      <4>2. \A i \in (p + 1) .. n : v[i] \in Byte
        <5>1. ASSUME NEW i \in (p + 1) .. n PROVE v[i] \in Byte
          <6>1. i \in 1 .. n
            BY <1>0, <2>4
          <6> QED BY <1>0, <6>1
        <5> QED BY <5>1
      <4> QED BY <4>1, <4>2, SubSeqProperties
    <3> HIDE DEF s
    <3>3. Len(s) = n - p
      <4> DEFINE l == Len(s)
                 q == n
      <4>1. l = (IF p + 1 <= q THEN q - (p + 1) + 1 ELSE 0) /\ q \in Nat /\ p \in 1 .. q
        BY <1>0, <2>4, <3>2
      <4> HIDE DEF l, q
      <4>2. l = q - p
        BY <4>1
      <4> QED BY <4>2 DEF l, q
    <3>4. ASSUME NEW k \in 1 .. n - p PROVE s[k] = v[p + k]
      <4>1. k \in 1 .. n - (p + 1) + 1 /\ p + 1 + k - 1 = p + k
        BY <1>0, <2>4
      <4> QED BY <3>2, <4>1
    <3> QED BY <3>2, <3>3, <3>4
  <2> HIDE DEF s
  <2>7. g[0] = t /\ \A k \in 1 .. Len(s) : g[k] = g[k - 1] * 256 + s[k]
    <3>1. g[0] = t
      <4>1. 0 \in 0 .. n - p /\ p + 0 = p
        BY <1>0, <2>4
      <4> QED BY <2>5, <4>1
    <3>2. ASSUME NEW k \in 1 .. n - p PROVE g[k] = g[k - 1] * 256 + s[k]
      <4>1. k \in 0 .. n - p /\ k - 1 \in 0 .. n - p /\ p + k \in 1 .. n /\ p + (k - 1) = (p + k) - 1
        BY <1>0, <2>4
      <4>2. g[k] = d[p + k] /\ g[k - 1] = d[(p + k) - 1]
        BY <4>1
      <4>3. d[p + k] = d[(p + k) - 1] * 256 + v[p + k]
        BY <1>5, <4>1
      <4>4. s[k] = v[p + k]
        BY <2>6
      <4> HIDE DEF g
      <4> QED BY <4>2, <4>3, <4>4
    <3> QED BY <2>6, <3>1, <3>2
  <2>8. g[Len(s)] = d[n]
    <3>1. n - p \in 0 .. n - p /\ p + (n - p) = n
      BY <1>0, <2>4
    <3> QED BY <2>6, <3>1
  <2> HIDE DEF g
  <2>9. FoldLeft(LAMBDA m, byte : m * 256 + byte, t, s) = g[Len(s)]
    BY <2>5, <2>6, <2>7, FoldedIs
  <2>10. parseInteger(v) = FoldLeft(LAMBDA m, byte : m * 256 + byte, t, s)
    BY <1>9, <1>11 DEF p, s, t
  <2> QED BY <1>6, <2>8, <2>9, <2>10
<1> QED BY <1>10, <1>11
=============================================================================
