------------------------------- MODULE Residues -------------------------------
(***************************************************************************)
(* Facts that the proofs about sequence numbers and the slots of a ring    *)
(* share: arithmetic modulo M, induction up to a bound and the loops that  *)
(* the modules write as recursive functions of the number of iterations.   *)
(***************************************************************************)
EXTENDS Integers, WellFoundedInduction, TLAPS

-----------------------------------------------------------------------------
(* Arithmetic.                                                             *)

\* The residue of a number is in range, and what it differs by is a multiple.
LEMMA Division ==
    ASSUME NEW M \in Nat \ {0}, NEW a \in Int
    PROVE  /\ a % M \in 0 .. M - 1 /\ a % M \in Int
           /\ a \div M \in Int
           /\ a = M * (a \div M) + (a % M)
OBVIOUS

\* A residue is determined by any decomposition with a remainder in range.
LEMMA DivisionUnique ==
    ASSUME NEW M \in Nat \ {0}, NEW a \in Int, NEW k \in Int, NEW r \in 0 .. M - 1,
           a = M * k + r
    PROVE  a % M = r
<1> DEFINE j == a \div M
           s == a % M
<1>1. j \in Int /\ s \in 0 .. M - 1 /\ a = M * j + s
  BY Division
<1> HIDE DEF j, s
<1>2. PICK d : d = k - j
  OBVIOUS
<1>3. d \in Int /\ M * d = s - r
  BY <1>1, <1>2
<1>4. M * d < M /\ M * d > -M
  BY <1>1, <1>3
<1>5. ~(d >= 1)
  <2>1. d >= 1 => M * d >= M
    BY <1>3
  <2> QED BY <1>3, <1>4, <2>1
<1>6. ~(d <= -1)
  <2>1. d <= -1 => M * d <= -M
    BY <1>3
  <2> QED BY <1>3, <1>4, <2>1
<1>7. d = 0
  BY <1>3, <1>5, <1>6
<1>8. M * d = 0
  BY <1>7
<1>9. s = r
  BY <1>1, <1>3, <1>8
<1> QED BY <1>9 DEF s

\* So is the quotient.
LEMMA Quotient ==
    ASSUME NEW M \in Nat \ {0}, NEW a \in Int, NEW k \in Int, NEW r \in 0 .. M - 1,
           a = M * k + r
    PROVE  a \div M = k
<1>1. PICK j, s : j = a \div M /\ s = a % M
  OBVIOUS
<1>2. j \in Int /\ a = M * j + s /\ s = r
  BY <1>1, Division, DivisionUnique
<1>3. PICK d : d = j - k
  OBVIOUS
<1>4. d \in Int /\ M * d = 0
  <2>1. M * d = M * j - M * k
    BY <1>2, <1>3
  <2> QED BY <1>2, <1>3, <2>1
<1>5. d = 0
  BY <1>4
<1> QED BY <1>1, <1>2, <1>3, <1>5

\* Dividing twice.
LEMMA DivisionTwice ==
    ASSUME NEW M \in Nat \ {0}, NEW N \in Nat \ {0}, NEW a \in Int
    PROVE  (a \div M) \div N = a \div (M * N)
<1>1. PICK q, r : q = a \div M /\ r = a % M
  OBVIOUS
<1>2. q \in Int /\ r \in 0 .. M - 1 /\ a = M * q + r
  BY <1>1, Division
<1>3. PICK t, s : t = q \div N /\ s = q % N
  OBVIOUS
<1>4. t \in Int /\ s \in 0 .. N - 1 /\ q = N * t + s
  BY <1>2, <1>3, Division
<1>5. PICK K, z : K = M * N /\ z = M * s + r
  OBVIOUS
<1>6. K \in Nat \ {0} /\ z \in Int /\ M * s \in Int
  BY <1>2, <1>4, <1>5
<1>7. a = K * t + z
  <2>1. M * q = M * (N * t) + M * s
    BY <1>2, <1>4
  <2>2. M * (N * t) = K * t /\ K * t \in Int /\ M * q \in Int
    BY <1>2, <1>4, <1>5, <1>6
  <2> QED BY <1>2, <1>5, <1>6, <2>1, <2>2
<1>8. z \in 0 .. K - 1
  <2>1. M * s >= 0
    BY <1>4
  <2>2. M * s <= M * (N - 1)
    BY <1>4
  <2>3. M * (N - 1) = K - M
    BY <1>5
  <2> QED BY <1>2, <1>5, <1>6, <2>1, <2>2, <2>3
<1>9. a \div K = t
  BY ONLY <1>4, <1>6, <1>7, <1>8, a \in Int, Quotient
<1> QED BY <1>1, <1>3, <1>5, <1>9

\* Adding a multiple of the modulus changes nothing.
LEMMA ResidueMultiple ==
    ASSUME NEW M \in Nat \ {0}, NEW a \in Int, NEW k \in Int
    PROVE  (a + M * k) % M = a % M
<1>1. /\ a % M \in 0 .. M - 1 /\ a \div M \in Int /\ a = M * (a \div M) + (a % M)
  BY Division
<1>2. PICK q, r : q = a \div M /\ r = a % M
  OBVIOUS
<1>3. q \in Int /\ r \in 0 .. M - 1 /\ a = M * q + r
  BY <1>1, <1>2
<1>4. M * (q + k) = M * q + M * k /\ q + k \in Int /\ M * k \in Int /\ M * q \in Int
  BY <1>3
<1>5. a + M * k = M * (q + k) + r /\ a + M * k \in Int
  BY <1>3, <1>4
<1>6. (a + M * k) % M = r
  BY <1>3, <1>4, <1>5, DivisionUnique
<1> QED BY <1>2, <1>6

\* Numbers in range are their own residue; below the range it wraps.
LEMMA ResidueSmall ==
    ASSUME NEW M \in Nat \ {0}, NEW a \in Int
    PROVE  /\ 0 <= a /\ a < M => a % M = a
           /\ -M <= a /\ a < 0 => a % M = a + M
<1>1. ASSUME 0 <= a, a < M PROVE a % M = a
  <2>1. a = M * 0 + a /\ a \in 0 .. M - 1 /\ 0 \in Int
    BY <1>1
  <2> QED BY <2>1, DivisionUnique
<1>2. ASSUME -M <= a, a < 0 PROVE a % M = a + M
  <2>1. a = M * (-1) + (a + M) /\ a + M \in 0 .. M - 1 /\ -1 \in Int
    BY <1>2
  <2> QED BY <2>1, DivisionUnique
<1> QED BY <1>1, <1>2

\* Stepping a residue steps the number.
LEMMA ResidueStep ==
    ASSUME NEW M \in Nat \ {0}, NEW a \in Int, NEW n \in Int
    PROVE  ((a % M) + n) % M = (a + n) % M
<1>1. /\ a % M \in Int /\ a \div M \in Int /\ a = M * (a \div M) + (a % M)
  BY Division
<1>2. PICK q, r : q = a \div M /\ r = a % M
  OBVIOUS
<1>3. q \in Int /\ r \in Int /\ a = M * q + r /\ r + n \in Int /\ M * q \in Int
  BY <1>1, <1>2
<1>4. (r + n) + M * q = a + n
  BY <1>3
<1>5. ((r + n) + M * q) % M = (r + n) % M
  BY <1>3, ResidueMultiple
<1> QED BY <1>2, <1>4, <1>5

\* The residue of a difference is that of the difference of the residues.
LEMMA ResidueDiff ==
    ASSUME NEW M \in Nat \ {0}, NEW a \in Int, NEW b \in Int
    PROVE  ((a % M) - (b % M)) % M = (a - b) % M
<1>1. /\ b % M \in Int /\ b \div M \in Int /\ b = M * (b \div M) + (b % M) /\ a % M \in Int
  BY Division
<1>2. PICK q, r, s, t : q = b \div M /\ r = b % M /\ s = a % M /\ t = 0 - (b % M)
  OBVIOUS
<1>3. q \in Int /\ r \in Int /\ s \in Int /\ t \in Int /\ b = M * q + r /\ M * q \in Int
      /\ t = 0 - r
  BY <1>1, <1>2
<1>4. (s + t) % M = (a + t) % M
  <2>1. ((a % M) + t) % M = (a + t) % M
    BY <1>3, ResidueStep
  <2> QED BY <1>2, <2>1
<1>5. a + t = (a - b) + M * q /\ a - b \in Int
  BY <1>3
<1>6. ((a - b) + M * q) % M = (a - b) % M
  BY <1>3, <1>5, ResidueMultiple
<1>7. s + t = s - r
  BY <1>3
<1> QED BY <1>2, <1>4, <1>5, <1>6, <1>7

\* In a window narrower than the modulus the residue tells the number.
LEMMA ResidueWindow ==
    ASSUME NEW M \in Nat \ {0}, NEW a \in Int, NEW b \in Int, a % M = b % M,
           a - b < M, b - a < M
    PROVE  a = b
<1>1. (a - b) % M = ((a % M) - (b % M)) % M
  BY ResidueDiff
<1>2. b % M \in Int
  BY Division
<1>3. (a % M) - (b % M) = 0
  BY <1>2
<1>4. 0 % M = 0
  BY ResidueSmall
<1>5. (a - b) % M = 0
  BY <1>1, <1>3, <1>4
<1>6. PICK d : d = a - b
  OBVIOUS
<1>7. d \in Int /\ d < M /\ -M < d /\ d % M = 0
  BY <1>5, <1>6
<1>8. d = 0
  <2>1. CASE d >= 0
    BY <1>7, <2>1, ResidueSmall
  <2>2. CASE d < 0
    <3>1. d % M = d + M
      BY <1>7, <2>2, ResidueSmall
    <3> QED BY <1>7, <3>1
  <2> QED BY <1>7, <2>1, <2>2
<1> QED BY <1>6, <1>8

\* A residue modulo a multiple of K has the number's residue modulo K.
LEMMA ResidueOfResidue ==
    ASSUME NEW M \in Nat \ {0}, NEW K \in Nat \ {0}, M % K = 0, NEW a \in Int
    PROVE  (a % M) % K = a % K
<1>1. /\ a % M \in Int /\ a \div M \in Int /\ a = M * (a \div M) + (a % M)
  BY Division
<1>2. M \in Int /\ M \div K \in Int /\ M = K * (M \div K) + (M % K)
  BY Division
<1>3. PICK q, r, c : q = a \div M /\ r = a % M /\ c = M \div K
  OBVIOUS
<1>4. q \in Int /\ r \in Int /\ c \in Int /\ a = M * q + r /\ M = K * c
  BY <1>1, <1>2, <1>3
<1>5. M * q = K * (c * q) /\ c * q \in Int
  <2>1. (K * c) * q = K * (c * q)
    BY <1>4
  <2>2. M * q = (K * c) * q
    BY <1>4
  <2>3. c * q \in Int
    BY <1>4
  <2> QED BY <2>1, <2>2, <2>3
<1>6. a = r + K * (c * q)
  BY <1>4, <1>5
<1>7. PICK d : d = c * q
  OBVIOUS
<1>8. (r + K * d) % K = r % K
  BY <1>4, <1>5, <1>7, ResidueMultiple
<1> QED BY <1>3, <1>6, <1>7, <1>8

-----------------------------------------------------------------------------
(* Induction.                                                              *)

\* Induction up to a bound, on the set of the numbers that are fine.
LEMMA InductionTo ==
    ASSUME NEW N \in Nat, NEW Good, 0 \in Good,
           \A m \in 0 .. N - 1 : m \in Good => m + 1 \in Good
    PROVE  \A m \in 0 .. N : m \in Good
<1> DEFINE Bad == {m \in 0 .. N : m \notin Good}
<1>1. Bad \in SUBSET Nat /\ \A y \in Bad : y # 0 /\ y \in 0 .. N /\ y \notin Good
  OBVIOUS
<1>2. \A y \in 0 .. N : y \notin Good => y \in Bad
  OBVIOUS
<1> HIDE DEF Bad
<1>3. ASSUME Bad # {} PROVE FALSE
  <2>1. PICK x \in Bad : \A y \in Bad : ~(<<y, x>> \in OpToRel(<, Nat))
    BY <1>1, <1>3, NatLessThanWellFounded, WFMin
  <2>2. \A y \in Bad : ~(y < x) /\ y \in Nat /\ x \in Nat
    BY <1>1, <2>1 DEF OpToRel
  <2>3. x # 0 /\ x \in 0 .. N /\ x \notin Good
    BY <1>1
  <2>4. x - 1 \in 0 .. N - 1 /\ (x - 1) + 1 = x /\ x - 1 \in 0 .. N
    BY <2>3
  <2>5. x - 1 \in Good
    BY <1>2, <2>2, <2>4
  <2> QED BY <2>3, <2>4, <2>5
<1> QED BY <1>2, <1>3

\* A set of naturals has a least element.
LEMMA LeastOf ==
    ASSUME NEW T \in SUBSET Nat, T # {}
    PROVE  \E t \in T : \A u \in T : t <= u
<1>1. PICK x \in T : \A y \in T : ~(<<y, x>> \in OpToRel(<, Nat))
  BY NatLessThanWellFounded, WFMin
<1>2. \A y \in T : ~(y < x) /\ y \in Nat /\ x \in Nat
  BY <1>1 DEF OpToRel
<1> QED BY <1>2

-----------------------------------------------------------------------------
(* Loops.                                                                  *)

\* w is the result of each of N iterations of G, from a on.
IsLoop(w, N, T, G, a) ==
    w \in [0 .. N -> T] /\ w[0] = a /\ \A n \in 1 .. N : w[n] = G[w[n - 1]]

\* The recursive function exists.
LEMMA LoopExists ==
    ASSUME NEW N \in Nat, NEW T, NEW G \in [T -> T], NEW a \in T
    PROVE  \E w : IsLoop(w, N, T, G, a)
<1> DEFINE Loop(m, w) == w[0] = a /\ \A n \in 1 .. m : w[n] = G[w[n - 1]]
           Good == {m \in Nat : \E w \in [0 .. m -> T] : Loop(m, w)}
<1>1. 0 \in Good
  <2>1. [n \in 0 .. 0 |-> a] \in [0 .. 0 -> T] /\ Loop(0, [n \in 0 .. 0 |-> a])
    OBVIOUS
  <2> QED BY <2>1
<1>2. ASSUME NEW m \in 0 .. N - 1, m \in Good PROVE m + 1 \in Good
  <2>1. PICK w \in [0 .. m -> T] : Loop(m, w)
    BY <1>2
  <2> DEFINE x == [n \in 0 .. m + 1 |-> IF n = m + 1 THEN G[w[m]] ELSE w[n]]
  <2>2. m \in Nat /\ w[m] \in T /\ G[w[m]] \in T
    OBVIOUS
  <2>3. x \in [0 .. m + 1 -> T]
    BY <2>2
  <2>4. /\ \A n \in 0 .. m : x[n] = w[n]
        /\ x[m + 1] = G[w[m]] /\ m \in 0 .. m /\ 0 \in 0 .. m
    BY <2>2
  <2> HIDE DEF x
  <2>5. ASSUME NEW n \in 1 .. m + 1 PROVE x[n] = G[x[n - 1]]
    <3>1. CASE n = m + 1
      <4>1. n - 1 = m
        BY <2>2, <3>1
      <4> QED BY <2>4, <3>1, <4>1
    <3>2. CASE n \in 1 .. m
      <4>1. n - 1 \in 0 .. m /\ n \in 0 .. m
        BY <2>2, <3>2
      <4> QED BY <2>1, <2>4, <3>2, <4>1
    <3> QED BY <2>2, <3>1, <3>2
  <2>6. x[0] = a
    BY <2>1, <2>4
  <2>7. Loop(m + 1, x)
    BY <2>5, <2>6
  <2>8. m + 1 \in Nat
    BY <2>2
  <2> HIDE DEF Loop
  <2> QED BY <2>3, <2>7, <2>8
<1> HIDE DEF Good
<1>3. N \in Good
  <2>1. N \in 0 .. N
    OBVIOUS
  <2>2. \A m \in 0 .. N - 1 : m \in Good => m + 1 \in Good
    BY <1>2
  <2> QED BY <1>1, <2>1, <2>2, InductionTo
<1> QED BY <1>3 DEF Good, IsLoop

\* The same for a loop over the elements 1 .. N, whose turns are not all alike.
IsRun(w, N, T, G, a) ==
    w \in [0 .. N -> T] /\ w[0] = a /\ \A n \in 1 .. N : w[n] = G[<<n, w[n - 1]>>]

LEMMA RunExists ==
    ASSUME NEW N \in Nat, NEW T, NEW G \in [(1 .. N) \X T -> T], NEW a \in T
    PROVE  \E w : IsRun(w, N, T, G, a)
<1> DEFINE Run(m, w) == w[0] = a /\ \A n \in 1 .. m : w[n] = G[<<n, w[n - 1]>>]
           Good == {m \in Nat : \E w \in [0 .. m -> T] : Run(m, w)}
<1>1. 0 \in Good
  <2>1. [n \in 0 .. 0 |-> a] \in [0 .. 0 -> T] /\ Run(0, [n \in 0 .. 0 |-> a])
    OBVIOUS
  <2> QED BY <2>1
<1>2. ASSUME NEW m \in 0 .. N - 1, m \in Good PROVE m + 1 \in Good
  <2>1. PICK w \in [0 .. m -> T] : Run(m, w)
    BY <1>2
  <2> DEFINE x == [n \in 0 .. m + 1 |-> IF n = m + 1 THEN G[<<m + 1, w[m]>>] ELSE w[n]]
  <2>2. m \in Nat /\ w[m] \in T /\ m + 1 \in 1 .. N
    OBVIOUS
  <2>3. G[<<m + 1, w[m]>>] \in T
    BY <2>2
  <2>4. x \in [0 .. m + 1 -> T]
    BY <2>2, <2>3
  <2>5. /\ \A n \in 0 .. m : x[n] = w[n]
        /\ x[m + 1] = G[<<m + 1, w[m]>>] /\ m \in 0 .. m /\ 0 \in 0 .. m
    BY <2>2
  <2> HIDE DEF x
  <2>6. ASSUME NEW n \in 1 .. m + 1 PROVE x[n] = G[<<n, x[n - 1]>>]
    <3>1. CASE n = m + 1
      <4>1. n - 1 = m
        BY <2>2, <3>1
      <4> QED BY <2>5, <3>1, <4>1
    <3>2. CASE n \in 1 .. m
      <4>1. n - 1 \in 0 .. m /\ n \in 0 .. m
        BY <2>2, <3>2
      <4> QED BY <2>1, <2>5, <3>2, <4>1
    <3> QED BY <2>2, <3>1, <3>2
  <2>7. x[0] = a
    BY <2>1, <2>5
  <2>8. Run(m + 1, x)
    BY <2>6, <2>7
  <2>9. m + 1 \in Nat
    BY <2>2
  <2> HIDE DEF Run
  <2> QED BY <2>4, <2>8, <2>9
<1> HIDE DEF Good
<1>3. N \in Good
  <2>1. N \in 0 .. N
    OBVIOUS
  <2>2. \A m \in 0 .. N - 1 : m \in Good => m + 1 \in Good
    BY <1>2
  <2> QED BY <1>1, <2>1, <2>2, InductionTo
<1> QED BY <1>3 DEF Good, IsRun
===============================================================================
