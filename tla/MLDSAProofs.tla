---------------------------- MODULE MLDSAProofs ----------------------------
(***************************************************************************)
(* Theorems about MLDSA, for every ring, vector length, key and mask.      *)
(*                                                                         *)
(* First what the arithmetic is good for: a product of a row is linear in  *)
(* the vector modulo Q (DotLinear), the parts of a residue are determined  *)
(* by their sum (PartsUnique), and a hint takes the verifier back to the   *)
(* high part (HintRestores).  Then the indices of the masks, then the      *)
(* invariant of an attempt, from which follow that a finished signature    *)
(* hides the secrets (SecretHidden) and that the whole is a signature      *)
(* scheme (IsSignatureScheme).                                             *)
(***************************************************************************)
EXTENDS MLDSA, FiniteSetTheorems, SequenceTheorems, WellFoundedInduction, TLAPS

(* All that a sum over the columns needs. *)
LEMMA Width == L \in Nat \ {0} /\ Q \in Nat
  BY RingAssumption

(* A set that has 0 and every successor has every number: the library      *)
(* states induction for an operator, this is the same for a set.           *)
LEMMA Induction ==
    ASSUME NEW T, T \subseteq Nat, 0 \in T, \A n \in T : n + 1 \in T
    PROVE  T = Nat
<1> DEFINE Rest == Nat \ T
           R == OpToRel(<, Nat)
<1> SUFFICES ASSUME Rest # {} PROVE FALSE
  OBVIOUS
<1>1. PICK n \in Rest : \A k \in Rest : ~(<<k, n>> \in R)
  <2>1. IsWellFoundedOn(R, Nat)
    BY NatLessThanWellFounded
  <2>2. Rest \subseteq Nat
    OBVIOUS
  <2> HIDE DEF R, Rest
  <2> QED  BY <2>1, <2>2, WFMin
<1>2. n # 0 /\ n - 1 \in Nat /\ n - 1 < n
  OBVIOUS
<1>3. <<n - 1, n>> \in R
  BY <1>2 DEF OpToRel
<1>4. n - 1 \in T
  BY <1>1, <1>2, <1>3
<1>5. (n - 1) + 1 = n
  OBVIOUS
<1> QED  BY <1>4, <1>5

(* Dot is the last of its partial sums, which are integers. *)
LEMMA DotSums ==
    ASSUME NEW row \in [Columns -> Int], NEW v \in [Columns -> Int]
    PROVE  \E sum \in [0 .. L -> Int] :
               /\ sum[0] = 0
               /\ \A l \in Columns : sum[l] = sum[l - 1] + row[l] * v[l]
               /\ Dot(row, v) = sum[L]
<1> USE Width
<1> DEFINE Sums(n, f) == f[0] = 0 /\ \A l \in 1 .. n : f[l] = f[l - 1] + row[l] * v[l]
           T == {n \in Nat : n <= L => \E f \in [0 .. n -> Int] : Sums(n, f)}
<1>1. 0 \in T
  <2>1. [l \in 0 .. 0 |-> 0] \in [0 .. 0 -> Int] /\ Sums(0, [l \in 0 .. 0 |-> 0])
    OBVIOUS
  <2> QED  BY <2>1
<1>2. ASSUME NEW n \in T PROVE n + 1 \in T
  <2>1. n \in Nat /\ n + 1 \in Nat
    OBVIOUS
  <2>2. ASSUME n + 1 <= L PROVE \E f \in [0 .. n + 1 -> Int] : Sums(n + 1, f)
    <3>1. PICK f \in [0 .. n -> Int] : Sums(n, f)
      BY <2>1, <2>2
    <3>2. n + 1 \in Columns /\ row[n + 1] \in Int /\ v[n + 1] \in Int
      BY <2>1, <2>2 DEF Columns
    <3> DEFINE last == f[n] + row[n + 1] * v[n + 1]
               g == [l \in 0 .. n + 1 |-> IF l = n + 1 THEN last ELSE f[l]]
    <3>3. last \in Int
      BY <2>1, <3>2
    <3>4. \A l \in 0 .. n : g[l] = f[l]
      BY <2>1
    <3>5. g[n + 1] = f[n] + row[n + 1] * v[n + 1]
      BY <2>1
    <3> HIDE DEF last
    <3>6. g \in [0 .. n + 1 -> Int]
      BY <2>1, <3>3
    <3> HIDE DEF g
    <3>7. g[0] = 0
      BY <2>1, <3>1, <3>4
    <3>8. ASSUME NEW l \in 1 .. n + 1 PROVE g[l] = g[l - 1] + row[l] * v[l]
      <4>1. CASE l = n + 1
        <5>1. l - 1 = n /\ n \in 0 .. n
          BY <2>1, <4>1
        <5> QED  BY <3>4, <3>5, <4>1, <5>1
      <4>2. CASE l # n + 1
        <5>1. l \in 1 .. n /\ l \in 0 .. n /\ l - 1 \in 0 .. n
          BY <2>1, <4>2
        <5> QED  BY <3>1, <3>4, <5>1
      <4> QED  BY <4>1, <4>2
    <3> QED  BY <3>6, <3>7, <3>8
  <2> QED  BY <2>1, <2>2
<1>3. T = Nat
  <2> HIDE DEF T
  <2>1. T \subseteq Nat
    BY DEF T
  <2> QED  BY <1>1, <1>2, <2>1, Induction
<1>4. PICK f \in [0 .. L -> Int] : Sums(L, f)
  BY <1>3
<1> DEFINE Is(s) == s = [l \in 0 .. L |-> IF l = 0 THEN 0 ELSE s[l - 1] + row[l] * v[l]]
           sum == CHOOSE s : Is(s)
<1>5. Is(f)
  <2>1. \A l \in 0 .. L : f[l] = IF l = 0 THEN 0 ELSE f[l - 1] + row[l] * v[l]
    BY <1>4
  <2> QED  BY <2>1
<1>6. Is(sum)
  <2> HIDE DEF Is
  <2> QED  BY <1>5
<1>7. Dot(row, v) = sum[L]
  BY DEF Dot
<1> HIDE DEF sum
<1>8. DOMAIN sum = 0 .. L /\ sum[0] = 0 /\ \A l \in Columns : sum[l] = sum[l - 1] + row[l] * v[l]
  BY <1>6 DEF Columns
<1>9. \A l \in 0 .. L : sum[l] \in Int
  <2> DEFINE I == {n \in Nat : n <= L => sum[n] \in Int}
  <2>1. 0 \in I
    BY <1>8
  <2>2. ASSUME NEW n \in I PROVE n + 1 \in I
    <3> SUFFICES ASSUME n + 1 <= L PROVE sum[n + 1] \in Int
      OBVIOUS
    <3>1. n + 1 \in Columns /\ (n + 1) - 1 = n
      BY DEF Columns
    <3>2. sum[n] \in Int /\ row[n + 1] \in Int /\ v[n + 1] \in Int
      BY <3>1
    <3>3. sum[n + 1] = sum[n] + row[n + 1] * v[n + 1]
      BY <1>8, <3>1
    <3> QED  BY <3>2, <3>3
  <2>3. I = Nat
    <3> HIDE DEF I
    <3>1. I \subseteq Nat
      BY DEF I
    <3> QED  BY <2>1, <2>2, <3>1, Induction
  <2> QED  BY <2>3
<1>10. sum \in [0 .. L -> Int]
  BY <1>6, <1>9
<1> QED  BY <1>7, <1>8, <1>10

Congruent(a, b) == \E i \in Int : a = b + Q * i

(* The product of a row with v differs from that with x + d*u by a         *)
(* multiple of Q, if v and x + d*u do so everywhere.                       *)
Combines(v, x, d, u) == \A l \in Columns : Congruent(v[l], x[l] + d * u[l])

LEMMA DotLinear ==
    ASSUME NEW row \in [Columns -> Int], NEW v \in [Columns -> Int], NEW x \in [Columns -> Int],
           NEW u \in [Columns -> Int], NEW d \in Int,
           Combines(v, x, d, u)
    PROVE  Congruent(Dot(row, v), Dot(row, x) + d * Dot(row, u))
<1>1. PICK sv \in [0 .. L -> Int] : sv[0] = 0 /\ Dot(row, v) = sv[L]
               /\ \A l \in Columns : sv[l] = sv[l - 1] + row[l] * v[l]
  BY DotSums
<1>2. PICK sx \in [0 .. L -> Int] : sx[0] = 0 /\ Dot(row, x) = sx[L]
               /\ \A l \in Columns : sx[l] = sx[l - 1] + row[l] * x[l]
  BY DotSums
<1>3. PICK su \in [0 .. L -> Int] : su[0] = 0 /\ Dot(row, u) = su[L]
               /\ \A l \in Columns : su[l] = su[l - 1] + row[l] * u[l]
  BY DotSums
<1> DEFINE Same(n, i) == sv[n] = sx[n] + d * su[n] + Q * i
           T == {n \in Nat : n <= L => \E i \in Int : Same(n, i)}
<1>4. 0 \in T
  <2>1. sv[0] = 0 /\ sx[0] = 0 /\ su[0] = 0 /\ 0 \in Int /\ 0 \in Nat
    BY <1>1, <1>2, <1>3
  <2>2. d * 0 = 0 /\ Q * 0 = 0
    BY Width
  <2>3. Same(0, 0)
    BY <2>1, <2>2
  <2> HIDE DEF Same
  <2> QED  BY <2>1, <2>3
<1>5. ASSUME NEW n \in T PROVE n + 1 \in T
  <2>1. n \in Nat /\ n + 1 \in Nat
    OBVIOUS
  <2>2. ASSUME n + 1 <= L PROVE \E i \in Int : Same(n + 1, i)
    <3>1. PICK i \in Int : Same(n, i)
      BY <2>1, <2>2, Width
    <3>2. n + 1 \in Columns /\ (n + 1) - 1 = n /\ n \in 0 .. L
      BY <2>1, <2>2, Width DEF Columns
    <3> DEFINE r == row[n + 1]
               vn == v[n + 1]
               xn == x[n + 1]
               un == u[n + 1]
               s == sv[n]
               t == sx[n]
               w == su[n]
    <3>3. PICK kn \in Int : vn = xn + d * un + Q * kn
      BY <3>2 DEF Combines, Congruent
    <3>4. /\ r \in Int /\ vn \in Int /\ xn \in Int /\ un \in Int /\ kn \in Int
          /\ s \in Int /\ t \in Int /\ w \in Int
      BY <3>2
    <3>5. /\ sv[n + 1] = s + r * vn
          /\ sx[n + 1] = t + r * xn
          /\ su[n + 1] = w + r * un
      BY <1>1, <1>2, <1>3, <3>2
    <3>6. s = t + d * w + Q * i
      BY <3>1
    <3> HIDE DEF r, vn, xn, un, s, t, w, T
    <3>7. s + r * vn = (t + r * xn) + d * (w + r * un) + Q * (i + r * kn)
      <4>1. r * vn = r * xn + r * (d * un) + r * (Q * kn)
        <5>1. d * un \in Int /\ Q * kn \in Int
          BY <3>4, Width
        <5> QED  BY <3>3, <3>4, <5>1
      <4>2. r * (d * un) = d * (r * un) /\ r * (Q * kn) = Q * (r * kn)
        BY <3>4, Width
      <4>3. d * (w + r * un) = d * w + d * (r * un) /\ Q * (i + r * kn) = Q * i + Q * (r * kn)
        BY <3>4, Width
      <4>4. d * w \in Int /\ d * (r * un) \in Int /\ Q * i \in Int /\ Q * (r * kn) \in Int /\ r * xn \in Int
        BY <3>4, Width
      <4> QED  BY <3>4, <3>6, <4>1, <4>2, <4>3, <4>4
    <3>8. i + r * kn \in Int
      BY <3>4
    <3>9. Same(n + 1, i + r * kn)
      BY <3>5, <3>7
    <3> HIDE DEF Same
    <3> QED  BY <3>8, <3>9
  <2> QED  BY <2>1, <2>2
<1>6. T = Nat
  <2> HIDE DEF T
  <2>1. T \subseteq Nat
    BY DEF T
  <2> QED  BY <1>4, <1>5, <2>1, Induction
<1>7. L \in T
  BY <1>6, Width
<1>8. PICK i \in Int : sv[L] = sx[L] + d * su[L] + Q * i
  BY <1>7
<1> QED  BY <1>1, <1>2, <1>3, <1>8 DEF Congruent

LEMMA DotInt ==
    ASSUME NEW row \in [Columns -> Int], NEW v \in [Columns -> Int]
    PROVE  Dot(row, v) \in Int
<1>1. PICK sum \in [0 .. L -> Int] : Dot(row, v) = sum[L]
  BY DotSums
<1> QED  BY <1>1, Width

-----------------------------------------------------------------------------
(* The constants, as the arithmetic below needs them. *)
LEMMA Ring ==
    /\ Q \in Nat /\ GAMMA2 \in Nat \ {0} /\ Alpha \in Nat \ {0} /\ Alpha = 2 * GAMMA2
    /\ HighCount \in Nat /\ HighCount > 1 /\ HighCount * Alpha \in Nat /\ Q = HighCount * Alpha + 1
<1>1. Q \in Nat /\ GAMMA2 \in Nat \ {0} /\ HighCount > 1 /\ Q = HighCount * Alpha + 1
  BY RingAssumption
<1>2. Alpha \in Nat \ {0} /\ Alpha = 2 * GAMMA2
  BY <1>1 DEF Alpha
<1>3. HighCount \in Int
  BY <1>1, <1>2 DEF HighCount
<1> QED  BY <1>1, <1>2, <1>3

(* Division and remainder by any modulus. *)
LEMMA Quotient ==
    ASSUME NEW M \in Nat \ {0}, NEW k \in Int, NEW r \in 0 .. M - 1
    PROVE  (k * M + r) \div M = k /\ (k * M + r) % M = r
<1> DEFINE n == k * M + r
           q == n \div M
<1>1. k * M \in Int /\ n \in Int
  OBVIOUS
<1>2. n = M * q + (n % M) /\ (n % M) \in 0 .. M - 1 /\ q \in Int
  BY <1>1
<1>3. q = k
  <2>1. ASSUME q > k PROVE FALSE
    <3>1. PICK d \in Nat : q = k + 1 + d
      <4>1. q - k - 1 \in Nat
        BY <1>2, <2>1
      <4> QED  BY <1>2, <4>1
    <3>2. M * q = k * M + M + M * d /\ M * d \in Nat
      BY <3>1
    <3> HIDE DEF q
    <3> QED  BY <1>1, <1>2, <3>2
  <2>2. ASSUME q < k PROVE FALSE
    <3>1. PICK d \in Nat : k = q + 1 + d
      <4>1. k - q - 1 \in Nat
        BY <1>2, <2>2
      <4> QED  BY <1>2, <4>1
    <3>2. k * M = M * q + M + M * d /\ M * d \in Nat /\ M * q \in Int
      BY <1>2, <3>1
    <3> HIDE DEF q
    <3> QED  BY <1>1, <1>2, <3>2
  <2> QED  BY <1>2, <2>1, <2>2
<1>4. M * q = k * M
  BY <1>3
<1> QED  BY <1>1, <1>2, <1>3, <1>4

LEMMA Residue ==
    ASSUME NEW a \in Int
    PROVE  (a % Q) \in Coefficients /\ Congruent(a % Q, a)
<1>1. Q \in Nat \ {0}
  BY Ring
<1>2. a = Q * (a \div Q) + (a % Q) /\ (a % Q) \in 0 .. Q - 1 /\ (a \div Q) \in Int
  BY <1>1
<1>3. Q * (-(a \div Q)) = -(Q * (a \div Q)) /\ Q * (a \div Q) \in Int
  BY <1>1, <1>2
<1>4. -(a \div Q) \in Int /\ (a % Q) = a + Q * (-(a \div Q))
  BY <1>2, <1>3
<1> QED  BY <1>2, <1>4 DEF Coefficients, Congruent

LEMMA CenteredResidue ==
    ASSUME NEW a \in Int
    PROVE  Centered(a) \in Int /\ Congruent(Centered(a), a)
<1>1. PICK k \in Int : (a % Q) \in Coefficients /\ (a % Q) = a + Q * k
  BY Residue DEF Congruent
<1>2. Q \in Nat /\ (a % Q) \in Int
  BY <1>1, Ring DEF Coefficients
<1>3. CASE Centered(a) = (a % Q)
  BY <1>1, <1>2, <1>3 DEF Congruent
<1>4. CASE Centered(a) = (a % Q) - Q
  <2>1. Q * (k - 1) = Q * k - Q /\ k - 1 \in Int /\ Q * k \in Int
    BY <1>2
  <2>2. Centered(a) = a + Q * (k - 1) /\ Centered(a) \in Int
    BY <1>1, <1>2, <1>4, <2>1
  <2> QED  BY <2>1, <2>2 DEF Congruent
<1> QED  BY <1>3, <1>4 DEF Centered

(* A multiple of Alpha and a small rest are the parts of their sum. *)
LEMMA Remainder ==
    ASSUME NEW k \in Int, NEW r \in Int, -GAMMA2 < r, r <= GAMMA2
    PROVE  CenteredRemainder(k * Alpha + r) = r
<1>1. GAMMA2 \in Nat /\ Alpha \in Nat \ {0} /\ Alpha = 2 * GAMMA2
  BY Ring
<1>2. CASE r >= 0
  <2>1. r \in 0 .. Alpha - 1
    BY <1>1, <1>2
  <2>2. (k * Alpha + r) % Alpha = r
    BY <1>1, <2>1, Quotient
  <2> QED  BY <1>1, <2>2 DEF CenteredRemainder
<1>3. CASE r < 0
  <2>1. r + Alpha \in 0 .. Alpha - 1 /\ k - 1 \in Int
    BY <1>1, <1>3
  <2>2. ((k - 1) * Alpha + (r + Alpha)) % Alpha = r + Alpha
    BY <1>1, <2>1, Quotient
  <2>3. (k - 1) * Alpha + (r + Alpha) = k * Alpha + r
    BY <1>1
  <2>4. (k * Alpha + r) % Alpha = r + Alpha
    BY <2>2, <2>3
  <2> QED  BY <1>1, <2>4 DEF CenteredRemainder
<1> QED  BY <1>2, <1>3

(* Multiples of Alpha below the highest. *)
LEMMA Multiples ==
    ASSUME NEW k \in 0 .. HighCount - 1
    PROVE  k * Alpha \in Nat /\ k * Alpha + Alpha <= Q - 1
<1>1. PICK d \in Nat : HighCount = k + 1 + d
  <2>1. HighCount - k - 1 \in Nat
    BY Ring
  <2> QED  BY <2>1, Ring
<1>2. HighCount * Alpha = k * Alpha + Alpha + d * Alpha /\ k * Alpha \in Nat /\ d * Alpha \in Nat
  BY <1>1, Ring
<1> QED  BY <1>2, Ring

LEMMA Below ==
    ASSUME NEW k \in 0 .. HighCount - 1, NEW r \in Int, -GAMMA2 < r, r <= GAMMA2
    PROVE  ReferenceDecompose(k * Alpha + r) = [high |-> k, low |-> r]
<1>1. CenteredRemainder(k * Alpha + r) = r /\ k \in Int
  BY Remainder, Ring
<1>2. k * Alpha \in Nat /\ k * Alpha < Q - 1
  BY Multiples, Ring
<1>3. (k * Alpha + r) - r = k * Alpha
  BY <1>2
<1>4. (k * Alpha) \div Alpha = k
  <2>1. 0 \in 0 .. Alpha - 1 /\ k * Alpha + 0 = k * Alpha
    BY <1>2, Ring
  <2>2. (k * Alpha + 0) \div Alpha = k
    BY <1>1, <2>1, Quotient, Ring
  <2> QED  BY <2>1, <2>2
<1>5. k * Alpha # Q - 1
  BY <1>2, Ring
<1> QED  BY <1>1, <1>3, <1>4, <1>5 DEF ReferenceDecompose

LEMMA Top ==
    ASSUME NEW r \in Int, -GAMMA2 < r, r <= GAMMA2
    PROVE  ReferenceDecompose(Q - 1 + r) = [high |-> 0, low |-> r - 1]
<1>1. Q - 1 = HighCount * Alpha /\ Q - 1 \in Int /\ HighCount \in Int
  BY Ring
<1>2. CenteredRemainder(Q - 1 + r) = r
  BY <1>1, Remainder
<1>3. (Q - 1 + r) - r = Q - 1
  BY <1>1
<1> QED  BY <1>2, <1>3 DEF ReferenceDecompose

(* Parts in range determine the decomposition of the residue. *)
LEMMA PartsUnique ==
    ASSUME NEW a \in Coefficients, NEW k \in 0 .. HighCount - 1, NEW r \in Int,
           Congruent(a, k * Alpha + r), -GAMMA2 <= r, r <= GAMMA2, r = -GAMMA2 => k = 0
    PROVE  ReferenceDecompose(a) = [high |-> k, low |-> r]
<1>0. PICK i \in Int : a = k * Alpha + r + Q * i
  BY DEF Congruent
<1>1. k * Alpha \in Nat /\ k * Alpha + Alpha <= Q - 1 /\ k \in Nat /\ a \in Int /\ 0 <= a /\ a < Q
  BY Multiples, Ring DEF Coefficients
<1>2. GAMMA2 \in Nat \ {0} /\ Alpha = 2 * GAMMA2 /\ Q \in Nat /\ Q > 1
  BY Ring
<1> DEFINE e == k * Alpha + r
<1>3. e \in Int /\ -GAMMA2 <= e /\ e < Q /\ a = e + Q * i
  BY <1>0, <1>1, <1>2
<1>4. Q * i \in Int /\ (i >= 1 => Q * i >= Q) /\ (i <= -2 => Q * i <= -2 * Q) /\ (i = -1 => Q * i = -Q)
  BY <1>2
<1>5. CASE e >= 0
  <2>1. a = e
    <3>1. Q * i < Q /\ Q * i > -Q
      BY <1>1, <1>2, <1>3, <1>4, <1>5
    <3>2. i < 1 /\ i > -1
      BY <1>2, <1>4, <3>1
    <3>3. i = 0 /\ Q * 0 = 0
      BY <1>2, <3>2
    <3> QED  BY <1>2, <1>3, <3>3
  <2>2. -GAMMA2 < r
    <3>1. ASSUME r = -GAMMA2 PROVE FALSE
      <4>1. k = 0 /\ 0 * Alpha = 0
        BY <1>2, <3>1
      <4> QED  BY <1>2, <1>5, <3>1, <4>1
    <3> QED  BY <1>2, <3>1
  <2> QED  BY <2>1, <2>2, Below
<1>6. CASE e < 0
  <2>1. k = 0
    <3>1. ASSUME k # 0 PROVE FALSE
      <4>1. k * Alpha >= Alpha
        <5>1. k - 1 \in Nat /\ k * Alpha = (k - 1) * Alpha + Alpha
          BY <1>1, <1>2, <3>1
        <5>2. (k - 1) * Alpha \in Nat
          BY <1>2, <5>1
        <5> QED  BY <1>2, <5>1, <5>2
      <4> QED  BY <1>1, <1>2, <1>6, <4>1
    <3> QED  BY <3>1
  <2>2. k * Alpha = 0
    BY <1>2, <2>1
  <2>3. Q * i > 0 /\ Q * i <= Q + GAMMA2
    BY <1>1, <1>2, <1>3, <1>6
  <2>4. i = 1
    <3>1. i # 0 /\ i > -2 /\ i # -1
      BY <1>2, <1>4, <2>3
    <3>2. ASSUME i >= 2 PROVE FALSE
      <4>1. i - 2 \in Nat /\ Q * i = Q * (i - 2) + 2 * Q /\ Q * (i - 2) \in Nat
        BY <1>2, <3>2
      <4>2. GAMMA2 < Q
        BY <1>1, <1>2
      <4> QED  BY <1>2, <2>3, <4>1, <4>2
    <3> QED  BY <3>1, <3>2
  <2>5. a = Q - 1 + (r + 1)
    BY <1>1, <1>2, <1>3, <2>2, <2>4
  <2>6. r + 1 \in Int /\ -GAMMA2 < r + 1 /\ r + 1 <= GAMMA2 /\ (r + 1) - 1 = r
    BY <1>1, <1>2, <1>6, <2>2
  <2>7. ReferenceDecompose(a) = [high |-> 0, low |-> (r + 1) - 1]
    BY <2>5, <2>6, Top
  <2> QED  BY <2>1, <2>6, <2>7
<1> QED  BY <1>3, <1>5, <1>6

(* The hint made from what the low part has become takes the verifier,     *)
(* which knows only the sum, back to the high part.                        *)
LEMMA HintRestores ==
    ASSUME NEW a \in Coefficients, NEW k \in 0 .. HighCount - 1, NEW u \in Int,
           Congruent(a, k * Alpha + u), -Alpha < u, u < Alpha
    PROVE  Corrected(ReferenceDecompose(a), MakeHint(u, k)) = k
<1>0. PICK i \in Int : a = k * Alpha + u + Q * i
  BY DEF Congruent
<1>1. k * Alpha \in Nat /\ k \in Nat /\ a \in Int /\ k <= HighCount - 1
  BY Multiples, Ring DEF Coefficients
<1>2. /\ GAMMA2 \in Nat \ {0} /\ Alpha = 2 * GAMMA2 /\ Alpha \in Nat /\ Q \in Nat
      /\ HighCount \in Nat /\ HighCount > 1 /\ Q = HighCount * Alpha + 1
  BY Ring
<1>3. /\ Q * i \in Int
      /\ i + 1 \in Int /\ Q * (i + 1) = Q * i + Q
      /\ i - 1 \in Int /\ Q * (i - 1) = Q * i - Q
  BY <1>2
<1>4. (k + 1) * Alpha = k * Alpha + Alpha /\ (k - 1) * Alpha = k * Alpha - Alpha
  BY <1>1, <1>2
<1>5. CASE -GAMMA2 <= u /\ u <= GAMMA2 /\ (u = -GAMMA2 => k = 0)
  <2>1. MakeHint(u, k) = 0
    BY <1>2, <1>5 DEF MakeHint
  <2>2. ReferenceDecompose(a) = [high |-> k, low |-> u]
    BY <1>5, PartsUnique
  <2> QED  BY <2>1, <2>2 DEF Corrected
<1>6. CASE u > GAMMA2
  <2>1. MakeHint(u, k) = 1
    BY <1>2, <1>6 DEF MakeHint
  <2>2. u - Alpha \in Int /\ -GAMMA2 < u - Alpha /\ u - Alpha < 0
    BY <1>2, <1>6
  <2>3. CASE k + 1 < HighCount
    <3> DEFINE up == k + 1
               rest == u - Alpha
    <3>1. /\ up \in 0 .. HighCount - 1 /\ a = up * Alpha + rest + Q * i
          /\ rest \in Int /\ -GAMMA2 <= rest /\ rest <= GAMMA2 /\ rest # -GAMMA2
      BY <1>0, <1>1, <1>2, <1>3, <1>4, <2>2, <2>3
    <3>2. ReferenceDecompose(a) = [high |-> up, low |-> rest]
      <4> HIDE DEF up, rest
      <4>1. Congruent(a, up * Alpha + rest)
        BY <3>1 DEF Congruent
      <4> QED  BY <3>1, <4>1, PartsUnique
    <3>3. ((k + 1) - 1) % HighCount = k
      BY <1>1, <1>2
    <3> QED  BY <2>1, <2>2, <3>2, <3>3 DEF Corrected
  <2>4. CASE k + 1 = HighCount
    <3> DEFINE rest == u - Alpha - 1
               next == i + 1
    <3>1. a = 0 * Alpha + rest + Q * next /\ 0 \in 0 .. HighCount - 1 /\ next \in Int
      BY <1>0, <1>1, <1>2, <1>3, <1>4, <2>4
    <3>2. rest \in Int /\ -GAMMA2 <= rest /\ rest < 0 /\ rest <= GAMMA2
      BY <1>2, <2>2
    <3>3. ReferenceDecompose(a) = [high |-> 0, low |-> rest]
      <4> HIDE DEF rest, next
      <4>1. Congruent(a, 0 * Alpha + rest)
        BY <3>1 DEF Congruent
      <4> QED  BY <3>1, <3>2, <4>1, PartsUnique
    <3>4. (0 - 1) % HighCount = k
      <4>1. HighCount - 1 \in 0 .. HighCount - 1 /\ -1 \in Int
        BY <1>2
      <4>2. (-1 * HighCount + (HighCount - 1)) % HighCount = HighCount - 1
        BY <1>2, <4>1, Quotient
      <4>3. -1 * HighCount + (HighCount - 1) = 0 - 1
        BY <1>2
      <4> QED  BY <1>1, <1>2, <2>4, <4>2, <4>3
    <3> QED  BY <2>1, <3>2, <3>3, <3>4 DEF Corrected
  <2> QED  BY <1>1, <1>2, <2>3, <2>4
<1>7. CASE u < -GAMMA2 \/ (u = -GAMMA2 /\ k # 0)
  <2>1. MakeHint(u, k) = 1
    BY <1>2, <1>7 DEF MakeHint
  <2>2. u + Alpha \in Int /\ 0 < u + Alpha /\ u + Alpha <= GAMMA2
    BY <1>2, <1>7
  <2>3. CASE k # 0
    <3> DEFINE down == k - 1
               rest == u + Alpha
    <3>1. /\ down \in 0 .. HighCount - 1 /\ a = down * Alpha + rest + Q * i
          /\ rest \in Int /\ -GAMMA2 <= rest /\ rest <= GAMMA2 /\ rest # -GAMMA2
      BY <1>0, <1>1, <1>2, <1>3, <1>4, <2>2, <2>3
    <3>2. ReferenceDecompose(a) = [high |-> down, low |-> rest]
      <4> HIDE DEF down, rest
      <4>1. Congruent(a, down * Alpha + rest)
        BY <3>1 DEF Congruent
      <4> QED  BY <3>1, <4>1, PartsUnique
    <3>3. ((k - 1) + 1) % HighCount = k
      BY <1>1, <1>2
    <3> QED  BY <2>1, <2>2, <3>2, <3>3 DEF Corrected
  <2>4. CASE k = 0
    <3> DEFINE top == HighCount - 1
               rest == u + Alpha + 1
               next == i - 1
    <3>1. top \in 0 .. HighCount - 1 /\ top * Alpha = Q - 1 - Alpha /\ next \in Int
      BY <1>2, <1>3
    <3>2. k * Alpha = 0 /\ a = u + Q * i
      BY <1>0, <1>1, <1>2, <1>3, <2>4
    <3>3. a = top * Alpha + rest + Q * next
      BY <1>1, <1>2, <1>3, <3>1, <3>2
    <3>4. rest \in Int /\ 0 < rest /\ rest <= GAMMA2 /\ -GAMMA2 <= rest /\ rest # -GAMMA2
      BY <1>2, <1>7, <2>4
    <3>5. ReferenceDecompose(a) = [high |-> top, low |-> rest]
      <4> HIDE DEF top, rest, next
      <4>1. Congruent(a, top * Alpha + rest)
        BY <3>1, <3>3 DEF Congruent
      <4> QED  BY <3>1, <3>4, <4>1, PartsUnique
    <3>6. (top + 1) % HighCount = k
      <4>1. 0 \in 0 .. HighCount - 1 /\ (HighCount - 1) + 1 = 1 * HighCount + 0
        BY <1>2
      <4>2. (1 * HighCount + 0) % HighCount = 0
        BY <1>2, <4>1, Quotient
      <4> QED  BY <2>4, <4>1, <4>2
    <3> QED  BY <2>1, <3>4, <3>5, <3>6 DEF Corrected
  <2> QED  BY <2>3, <2>4
<1> QED  BY <1>1, <1>2, <1>5, <1>6, <1>7

(* Every coefficient has parts in range, of its own residue. *)
LEMMA PartsOf ==
    ASSUME NEW a \in Coefficients
    PROVE  /\ ReferenceDecompose(a).high \in 0 .. HighCount - 1
           /\ ReferenceDecompose(a).low \in Int
           /\ Congruent(ReferenceDecompose(a).high * Alpha + ReferenceDecompose(a).low, a)
<1> DEFINE k == a \div Alpha
           rest == a % Alpha
<1>1. /\ GAMMA2 \in Nat \ {0} /\ Alpha = 2 * GAMMA2 /\ Alpha \in Nat \ {0} /\ Q \in Nat
      /\ HighCount \in Nat /\ HighCount > 1 /\ Q = HighCount * Alpha + 1
  BY Ring
<1>2. a \in Nat /\ a < Q
  BY <1>1 DEF Coefficients
<1>3. a = Alpha * k + rest /\ rest \in 0 .. Alpha - 1 /\ k \in Nat
  <2>1. a = Alpha * k + rest /\ rest \in 0 .. Alpha - 1 /\ k \in Int
    BY <1>1, <1>2
  <2> HIDE DEF k, rest
  <2>2. ASSUME k < 0 PROVE FALSE
    <3>1. -1 - k \in Nat /\ Alpha * (-1 - k) = -Alpha - Alpha * k /\ Alpha * k \in Int
      BY <1>1, <2>1, <2>2
    <3>2. Alpha * (-1 - k) \in Nat
      BY <1>1, <3>1
    <3> QED  BY <1>1, <1>2, <2>1, <3>1, <3>2
  <2> QED  BY <2>1, <2>2
<1> HIDE DEF k, rest
<1>4. PICK q \in Int, r \in Int : a = q * Alpha + r /\ -GAMMA2 < r /\ r <= GAMMA2 /\ q >= 0
  <2>1. CASE rest <= GAMMA2
    <3>1. a = k * Alpha + rest /\ -GAMMA2 < rest /\ k >= 0 /\ k \in Int /\ rest \in Int
      BY <1>1, <1>3
    <3> QED  BY <2>1, <3>1
  <2>2. CASE rest > GAMMA2
    <3>1. (k + 1) * Alpha = Alpha * k + Alpha
      BY <1>1, <1>3
    <3>2. /\ a = (k + 1) * Alpha + (rest - Alpha) /\ k + 1 >= 0 /\ k + 1 \in Int
          /\ rest - Alpha \in Int /\ -GAMMA2 < rest - Alpha /\ rest - Alpha <= GAMMA2
      BY <1>1, <1>2, <1>3, <2>2, <3>1
    <3> QED  BY <3>2
  <2> QED  BY <1>1, <1>3, <2>1, <2>2
<1>5. q <= HighCount
  <2>1. ASSUME q > HighCount PROVE FALSE
    <3>1. PICK d \in Nat : q = HighCount + 1 + d
      <4>1. q - HighCount - 1 \in Nat
        BY <1>1, <2>1
      <4> QED  BY <1>1, <4>1
    <3>2. q * Alpha = HighCount * Alpha + Alpha + d * Alpha /\ d * Alpha \in Nat /\ HighCount * Alpha \in Nat
      BY <1>1, <3>1
    <3> QED  BY <1>1, <1>2, <1>4, <3>2
  <2> QED  BY <1>1, <2>1
<1>6. CASE q = HighCount
  <2>1. q * Alpha = Q - 1 /\ a = Q - 1 + r
    BY <1>1, <1>2, <1>4, <1>6
  <2>2. ReferenceDecompose(a) = [high |-> 0, low |-> r - 1]
    BY <1>4, <2>1, Top
  <2>3. 0 * Alpha + (r - 1) = a + Q * (-1) /\ -1 \in Int /\ 0 \in 0 .. HighCount - 1 /\ r - 1 \in Int
    BY <1>1, <1>2, <2>1
  <2> QED  BY <2>2, <2>3 DEF Congruent
<1>7. CASE q # HighCount
  <2>1. q \in 0 .. HighCount - 1
    BY <1>1, <1>4, <1>5, <1>7
  <2>2. ReferenceDecompose(a) = [high |-> q, low |-> r]
    BY <1>4, <2>1, Below
  <2>3. q * Alpha + r = a + Q * 0 /\ 0 \in Int
    BY <1>1, <1>2, <1>4
  <2> QED  BY <2>1, <2>2, <2>3 DEF Congruent
<1> QED  BY <1>6, <1>7
-----------------------------------------------------------------------------
(***************************************************************************)
(* What holds of the rejection loop for every ring and every key.  The     *)
(* indices drawn so far are exactly the first L * nonce ones, which is     *)
(* the inductive form of DistinctMasks: L * nonce cannot wrap as long as   *)
(* the number of attempts keeps within the uint16_t.                       *)
(***************************************************************************)

MaskInv ==
    /\ nonce \in 0 .. MaxAttempts
    /\ drawn = 0 .. L * nonce - 1

(* A block of L indices starts where the previous one ends. *)
LEMMA Block ==
    ASSUME NEW n \in Nat, n < MaxAttempts
    PROVE  {MaskIndex(n, l) : l \in Columns} = L * n .. L * (n + 1) - 1
<1> USE RingAssumption, NonceAssumption
<1>1. PICK top \in Nat : top = L * n
  OBVIOUS
<1>2. L * (n + 1) = top + L /\ top + L <= NonceRange
  <2>1. L * (n + 1) = L * n + L
    OBVIOUS
  <2>2. L * (n + 1) <= L * MaxAttempts
    <3>1. PICK rest \in Nat : MaxAttempts = (n + 1) + rest
      <4>1. MaxAttempts - (n + 1) \in Nat
        OBVIOUS
      <4> QED  BY <4>1
    <3>2. L * MaxAttempts = L * (n + 1) + L * rest
      BY <3>1
    <3>3. L * rest \in Nat
      BY <3>1
    <3> QED  BY <3>2, <3>3
  <2> QED  BY <2>1, <2>2, <1>1
<1>3. ASSUME NEW l \in Columns
      PROVE  MaskIndex(n, l) = top + l - 1
  <2>1. top + l - 1 \in 0 .. NonceRange - 1
    BY <1>2 DEF Columns
  <2>2. (top + l - 1) % NonceRange = top + l - 1
    BY <2>1
  <2> QED  BY <2>2, <1>1 DEF MaskIndex
<1>4. {MaskIndex(n, l) : l \in Columns} = {top + l - 1 : l \in Columns}
  BY <1>3
<1>5. {top + l - 1 : l \in Columns} = top .. top + L - 1
  <2>1. ASSUME NEW x \in top .. top + L - 1
        PROVE  x \in {top + l - 1 : l \in Columns}
    <3>1. x - top + 1 \in Columns /\ x = top + (x - top + 1) - 1
      BY DEF Columns
    <3> QED  BY <3>1
  <2>2. ASSUME NEW l \in Columns
        PROVE  top + l - 1 \in top .. top + L - 1
    BY DEF Columns
  <2> QED  BY <2>1, <2>2
<1>6. L * (n + 1) - 1 = top + L - 1
  BY <1>2
<1> QED  BY <1>1, <1>4, <1>5, <1>6

(* Every step keeps MaskInv; only Commit and StartSign move the nonce.     *)
LEMMA MaskStep == MaskInv /\ [Next]_vars => MaskInv'
<1> USE RingAssumption DEF MaskInv
<1> SUFFICES ASSUME MaskInv, [Next]_vars PROVE MaskInv'
  OBVIOUS
<1>1. CASE UNCHANGED vars
  BY <1>1 DEF vars, attempt
<1>2. ASSUME NEW msg \in Messages, NEW context \in Contexts, RefuseSign(msg, context) PROVE MaskInv'
  BY <1>2 DEF RefuseSign
<1>3. ASSUME NEW msg \in Messages, NEW context \in Contexts, StartSign(msg, context)
      PROVE  MaskInv'
  BY <1>3 DEF StartSign
<1>4. CASE Commit
  <2>1. nonce < MaxAttempts /\ nonce' = nonce + 1
        /\ drawn' = drawn \cup {MaskIndex(nonce, l) : l \in Columns}
    BY <1>4 DEF Commit
  <2>2. drawn' = (0 .. L * nonce - 1) \cup (L * nonce .. L * (nonce + 1) - 1)
    BY <2>1, Block
  <2>3. L * nonce \in Nat /\ L * (nonce + 1) \in Nat /\ L * nonce <= L * (nonce + 1)
    OBVIOUS
  <2> QED  BY <2>1, <2>2, <2>3
<1>5. CASE Respond
  BY <1>5 DEF Respond
<1>6. CASE CheckLow
  BY <1>6 DEF CheckLow
<1>7. CASE MakeHints
  BY <1>7 DEF MakeHints
<1>8. ASSUME NEW msg \in Messages, NEW context \in Contexts, Verify(msg, context)
      PROVE  MaskInv'
  BY <1>8 DEF Verify
<1> QED  BY <1>1, <1>2, <1>3, <1>4, <1>5, <1>6, <1>7, <1>8 DEF Next

(* However many attempts were rejected, the call has drawn L masks with    *)
(* indices of their own for each.                                          *)
THEOREM MasksDistinct == Spec => []DistinctMasks
<1>1. Init => MaskInv
  BY RingAssumption DEF Init, MaskInv
<1>2. MaskInv => DistinctMasks
  <2> SUFFICES ASSUME MaskInv PROVE DistinctMasks
    OBVIOUS
  <2>1. PICK top \in Nat : top = L * nonce
    BY RingAssumption DEF MaskInv
  <2>2. Cardinality(0 .. top - 1) = top
    BY <2>1, FS_Interval
  <2> QED  BY <2>1, <2>2 DEF MaskInv, DistinctMasks
<1> QED  BY <1>1, <1>2, MaskStep, PTL DEF Spec

-----------------------------------------------------------------------------
(* What relates the variables of an attempt.  A row of t is that of        *)
(* A s1 + s2; w1 * Alpha + w0 is first the commitment A y, and after the   *)
(* subtraction of c s2 it is A z - c t: the secrets have left the sum, and *)
(* both HidesSecret and the verifier's recomputation are about that one.   *)
(* All of it modulo Q.  Before Commit and after a rejection nothing is     *)
(* said of an attempt.                                                     *)
KeyInv ==
    /\ pk \in [A : Matrices, t1 : [RowSet -> Int]]
    /\ sk \in [s1 : [Columns -> Int], s2 : [RowSet -> Int], t0 : [RowSet -> Int]]
    /\ \A r \in RowSet : Congruent(pk.t1[r] * 2^D + sk.t0[r], Dot(pk.A[r], sk.s1) + sk.s2[r])

CallInv ==
    /\ pc \in {"idle", "rej", "response", "low", "hint"}
    /\ pc # "idle" => sig = None
    /\ pc # "idle" \/ sig # None => m \in Messages /\ ctx \in Contexts /\ ~ContextTooLong(ctx)

Committed ==
    /\ c \in {-1, 1}
    /\ w1 \in [RowSet -> 0 .. HighCount - 1] /\ w0 \in [RowSet -> Int]

CommitmentInv ==
    /\ Committed /\ y \in [Columns -> Int]
    /\ \A r \in RowSet : Congruent(w1[r] * Alpha + w0[r], Dot(pk.A[r], y))

ShortResponse == z \in [Columns -> Int] /\ ~VectorExceeds(z, GAMMA1 - BETA)

ResponseInv ==
    ShortResponse /\ Combines(z, y, c, sk.s1)

PublicInv ==
    /\ Committed /\ ShortResponse /\ ~LowBitsUnsafe(w0)
    /\ \A r \in RowSet :
           Congruent(w1[r] * Alpha + w0[r], Dot(pk.A[r], z) - c * (pk.t1[r] * 2^D + sk.t0[r]))

Inv ==
    /\ KeyInv /\ CallInv
    /\ pc \in {"response", "low"} => CommitmentInv
    /\ pc = "low" => ResponseInv
    /\ pc = "hint" => PublicInv
    /\ sig # None => Accepts(sig, m, ctx)
    /\ HidesSecret

-----------------------------------------------------------------------------
(* The sums of one row, as each step leaves them. *)
LEMMA SubtractedRow ==
    ASSUME NEW d \in {-1, 1}, NEW w \in Int, NEW low \in Int, NEW left \in Int, NEW Ay \in Int,
           NEW As \in Int, NEW Az \in Int, NEW s \in Int, NEW t \in Int,
           Congruent(t, As + s), Congruent(w + low, Ay),
           Congruent(Az, Ay + d * As), Congruent(left, low - d * s)
    PROVE  Congruent(w + left, Az - d * t)
<1>0. PICK i \in Int, j \in Int, k \in Int, n \in Int :
          t = As + s + Q * i /\ w + low = Ay + Q * j /\ Az = Ay + d * As + Q * k /\ left = low - d * s + Q * n
  BY DEF Congruent
<1> DEFINE qi == Q * i
           qj == Q * j
           qk == Q * k
           qn == Q * n
           dt == d * t
           ds == d * s
           dAs == d * As
           q == IF d = 1 THEN j - k + n + i ELSE j - k + n - i
           qq == Q * q
<1>1. /\ qi \in Int /\ qj \in Int /\ qk \in Int /\ qn \in Int
      /\ q \in Int /\ qq = IF d = 1 THEN qj - qk + qn + qi ELSE qj - qk + qn - qi
  BY Ring
<1>2. d = 1 => dt = t /\ ds = s /\ dAs = As
  OBVIOUS
<1>3. d = -1 => dt = -t /\ ds = -s /\ dAs = -As
  OBVIOUS
<1>4. t = As + s + qi /\ w + low = Ay + qj /\ Az = Ay + dAs + qk /\ left = low - ds + qn
  BY <1>0
<1>5. w + left = Az - dt + qq
  <2> HIDE DEF qi, qj, qk, qn, dt, ds, dAs, q, qq
  <2>1. CASE d = 1
    <3>1. qq = qj - qk + qn + qi
      BY <1>1, <2>1
    <3> QED  BY <1>1, <1>2, <1>4, <2>1, <3>1
  <2>2. CASE d = -1
    <3>1. qq = qj - qk + qn - qi
      BY <1>1, <2>2
    <3> QED  BY <1>1, <1>3, <1>4, <2>2, <3>1
  <2> QED  BY <2>1, <2>2
<1> HIDE DEF q
<1> QED  BY <1>1, <1>5 DEF Congruent

LEMMA VerifiedRow ==
    ASSUME NEW d \in {-1, 1}, NEW w \in Int, NEW low \in Int, NEW Az \in Int, NEW high \in Int, NEW t0 \in Int,
           NEW ct0 \in Int, NEW row \in Int, NEW a \in Int,
           Congruent(w + low, Az - d * (high + t0)), Congruent(ct0, d * t0),
           Congruent(row, Az), Congruent(a, row - d * high)
    PROVE  Congruent(a, w + (low + ct0))
<1>0. PICK i \in Int, j \in Int, k \in Int, n \in Int :
          /\ w + low = Az - d * (high + t0) + Q * i /\ ct0 = d * t0 + Q * j
          /\ row = Az + Q * k /\ a = row - d * high + Q * n
  BY DEF Congruent
<1> DEFINE qi == Q * i
           qj == Q * j
           qk == Q * k
           qn == Q * n
           dt == d * (high + t0)
           dt0 == d * t0
           dhigh == d * high
           q == k + n - i - j
           qq == Q * q
<1>1. /\ qi \in Int /\ qj \in Int /\ qk \in Int /\ qn \in Int
      /\ q \in Int /\ qq = qk + qn - qi - qj
  BY Ring
<1>2. dt = dhigh + dt0 /\ dhigh \in Int /\ dt0 \in Int
  OBVIOUS
<1>3. w + low = Az - dt + qi /\ ct0 = dt0 + qj /\ row = Az + qk /\ a = row - dhigh + qn
  BY <1>0
<1>4. a = w + (low + ct0) + qq
  <2> HIDE DEF qi, qj, qk, qn, dt, dt0, dhigh, q, qq
  <2> QED  BY <1>1, <1>2, <1>3
<1> HIDE DEF q
<1> QED  BY <1>1, <1>4 DEF Congruent

LEMMA HiddenRow ==
    ASSUME NEW d \in {-1, 1}, NEW w \in Int, NEW low \in Int, NEW Az \in Int, NEW t \in Int,
           NEW row \in Int, NEW delta \in Int, NEW a \in Int,
           Congruent(w + low, Az - d * t), Congruent(row, Az), Congruent(a, (row - d * t) + delta)
    PROVE  Congruent(a, w + (low + delta))
<1>0. PICK i \in Int, k \in Int, n \in Int :
          w + low = Az - d * t + Q * i /\ row = Az + Q * k /\ a = (row - d * t) + delta + Q * n
  BY DEF Congruent
<1> DEFINE qi == Q * i
           qk == Q * k
           qn == Q * n
           dt == d * t
           q == k + n - i
           qq == Q * q
<1>1. qi \in Int /\ qk \in Int /\ qn \in Int /\ dt \in Int /\ q \in Int /\ qq = qk + qn - qi
  BY Ring
<1>2. w + low = Az - dt + qi /\ row = Az + qk /\ a = (row - dt) + delta + qn
  BY <1>0
<1>3. a = w + (low + delta) + qq
  <2> HIDE DEF qi, qk, qn, dt, q, qq
  <2> QED  BY <1>1, <1>2
<1> HIDE DEF q
<1> QED  BY <1>1, <1>3 DEF Congruent

(* A norm that passes is a bound on both sides. *)
LEMMA Bounded ==
    ASSUME NEW a \in Int, NEW bound \in Int, ~NormExceeds(a, bound)
    PROVE  -bound < a /\ a < bound
BY DEF NormExceeds

LEMMA RowTypes ==
    ASSUME KeyInv, NEW r \in RowSet
    PROVE  /\ pk.A[r] \in [Columns -> Int] /\ pk.t1[r] \in Int /\ pk.t1[r] * 2^D \in Int
           /\ sk.s1 \in [Columns -> Int] /\ sk.s2[r] \in Int /\ sk.t0[r] \in Int
           /\ pk.t1[r] * 2^D + sk.t0[r] \in Int
<1>1. pk.A \in [RowSet -> [Columns -> Coefficients]]
  BY RingAssumption DEF KeyInv
<1>2. \A x \in Coefficients : x \in Int
  BY Ring DEF Coefficients
<1>3. pk.A[r] \in [Columns -> Int]
  BY <1>1, <1>2
<1>4. pk.t1[r] \in Int /\ sk.s1 \in [Columns -> Int] /\ sk.s2[r] \in Int /\ sk.t0[r] \in Int
  BY DEF KeyInv
<1>5. pk.t1[r] * 2^D \in Int
  BY <1>4, PowerAssumption
<1> QED  BY <1>3, <1>4, <1>5

(* power2round loses nothing. *)
LEMMA Halves ==
    ASSUME NEW a \in Int
    PROVE  T1(a) \in Int /\ T0(a) \in Int /\ T1(a) * 2^D + T0(a) = a
<1>1. T1(a) \in Int
  BY PowerAssumption DEF T1
<1>2. T1(a) * 2^D \in Int
  BY <1>1, PowerAssumption
<1> QED  BY <1>1, <1>2 DEF T0

LEMMA TimesRow ==
    ASSUME NEW matrix, NEW r \in RowSet, NEW v \in [Columns -> Int], matrix[r] \in [Columns -> Int]
    PROVE  /\ Dot(matrix[r], v) \in Int /\ Times(matrix, v)[r] \in Coefficients
           /\ Times(matrix, v)[r] \in Int
           /\ Congruent(Times(matrix, v)[r], Dot(matrix[r], v))
<1>1. Times(matrix, v)[r] = Dot(matrix[r], v) % Q
  BY DEF Times
<1>2. Dot(matrix[r], v) \in Int
  BY DotInt
<1>3. \A x \in Coefficients : x \in Int
  BY Ring DEF Coefficients
<1> QED  BY <1>1, <1>2, <1>3, Residue

LEMMA StartsInv == Init => Inv
<1> SUFFICES ASSUME Init PROVE Inv
  OBVIOUS
<1>1. PICK matrix \in Matrices, s1 \in [Columns -> -ETA .. ETA], s2 \in [RowSet -> -ETA .. ETA] :
          pk = KeyOf(matrix, s1, s2).public /\ sk = KeyOf(matrix, s1, s2).secret
  BY DEF Init
<1> DEFINE t == [r \in RowSet |-> (Times(matrix, s1)[r] + s2[r]) % Q]
<1>2. /\ pk = [A |-> matrix, t1 |-> [r \in RowSet |-> T1(t[r])]]
      /\ sk = [s1 |-> s1, s2 |-> s2, t0 |-> [r \in RowSet |-> T0(t[r])]]
  BY <1>1, Zenon DEF KeyOf
<1>3. s1 \in [Columns -> Int] /\ s2 \in [RowSet -> Int]
  <2>1. \A x \in -ETA .. ETA : x \in Int
    BY RingAssumption
  <2> QED  BY <2>1
<1>4. matrix \in [RowSet -> [Columns -> Int]]
  <2>1. matrix \in [RowSet -> [Columns -> Coefficients]]
    BY RingAssumption
  <2>2. \A x \in Coefficients : x \in Int
    BY Ring DEF Coefficients
  <2> QED  BY <2>1, <2>2
<1>5. ASSUME NEW r \in RowSet
      PROVE  /\ t[r] \in Int
             /\ Congruent(t[r], Dot(matrix[r], s1) + s2[r])
  <2>1. s2[r] \in Int /\ matrix[r] \in [Columns -> Int]
    BY <1>3, <1>4
  <2>2. PICK i \in Int : /\ Times(matrix, s1)[r] = Dot(matrix[r], s1) + Q * i
                         /\ Dot(matrix[r], s1) \in Int /\ Times(matrix, s1)[r] \in Int
    BY <1>3, <2>1, TimesRow DEF Congruent
  <2> DEFINE a == Times(matrix, s1)[r] + s2[r]
  <2>3. a \in Int
    BY <2>1, <2>2
  <2> HIDE DEF a
  <2>4. PICK j \in Int : (a % Q) \in Coefficients /\ (a % Q) = a + Q * j
    BY <2>3, Residue DEF Congruent
  <2>5. t[r] = a + Q * j
    BY <2>4 DEF a
  <2>6. i + j \in Int /\ Q * (i + j) = Q * i + Q * j /\ Q * i \in Int /\ Q * j \in Int
    BY Ring
  <2> HIDE DEF t
  <2>7. t[r] = Dot(matrix[r], s1) + s2[r] + Q * (i + j)
    BY <2>1, <2>2, <2>5, <2>6 DEF a
  <2>8. t[r] \in Int
    BY <2>3, <2>5, <2>6
  <2> QED  BY <2>6, <2>7, <2>8 DEF Congruent
<1> HIDE DEF t
<1>6. KeyInv
  <2>1. \A r \in RowSet : T1(t[r]) \in Int /\ T0(t[r]) \in Int /\ T1(t[r]) * 2^D + T0(t[r]) = t[r]
    BY <1>5, Halves
  <2>2. pk \in [A : Matrices, t1 : [RowSet -> Int]]
    BY <1>2, <2>1
  <2>3. sk \in [s1 : [Columns -> Int], s2 : [RowSet -> Int], t0 : [RowSet -> Int]]
    BY <1>2, <1>3, <2>1
  <2>4. ASSUME NEW r \in RowSet
        PROVE  Congruent(pk.t1[r] * 2^D + sk.t0[r], Dot(pk.A[r], sk.s1) + sk.s2[r])
    <3>1. pk.t1[r] = T1(t[r]) /\ sk.t0[r] = T0(t[r]) /\ pk.A[r] = matrix[r] /\ sk.s1 = s1 /\ sk.s2[r] = s2[r]
      BY <1>2
    <3> QED  BY <1>5, <2>1, <3>1
  <2> QED  BY <2>2, <2>3, <2>4 DEF KeyInv
<1>7. pc = "idle" /\ sig = None
  BY DEF Init
<1> QED  BY <1>6, <1>7 DEF Inv, CallInv, HidesSecret

(* What a step leaves alone that moves neither key nor signature. *)
LEMMA Quiet ==
    ASSUME Inv, UNCHANGED <<pk, sk, sig>>, sig = None \/ UNCHANGED <<m, ctx>>
    PROVE  KeyInv' /\ HidesSecret' /\ (sig' # None => Accepts(sig, m, ctx)')
<1>1. KeyInv'
  BY DEF Inv, KeyInv
<1>2. HidesSecret'
  BY DEF Inv, HidesSecret
<1>3. sig' # None => Accepts(sig, m, ctx)'
  BY DEF Inv, Accepts, Mu, Reconstructed
<1> QED  BY <1>1, <1>2, <1>3

LEMMA CommitKeeps == ASSUME Inv, Commit PROVE Inv'
<1>1. PICK mask \in [Columns -> Masks], ball \in {-1, 1} :
          LET parts == Decomposed(Times(pk.A, mask))
          IN  /\ y' = mask
              /\ w1' = [r \in RowSet |-> parts[r].high]
              /\ w0' = [r \in RowSet |-> parts[r].low]
              /\ c' = ball
  BY DEF Commit
<1>2. pc = "rej" /\ pc' = "response" /\ UNCHANGED <<pk, sk, m, ctx, z, h, sig>>
  BY DEF Commit
<1>3. mask \in [Columns -> Int]
  <2>1. \A x \in Masks : x \in Int
    BY RingAssumption
  <2> QED  BY <2>1
<1>4. ASSUME NEW r \in RowSet
      PROVE  /\ w1'[r] \in 0 .. HighCount - 1 /\ w0'[r] \in Int
             /\ Congruent(w1'[r] * Alpha + w0'[r], Dot(pk.A[r], mask))
  <2> DEFINE a == Times(pk.A, mask)[r]
             parts == ReferenceDecompose(a)
  <2>1. w1'[r] = parts.high /\ w0'[r] = parts.low
    BY <1>1 DEF Decomposed
  <2>2. pk.A[r] \in [Columns -> Int]
    BY RowTypes DEF Inv
  <2>3. PICK i \in Int : a \in Coefficients /\ a = Dot(pk.A[r], mask) + Q * i /\ Dot(pk.A[r], mask) \in Int
    BY <1>3, <2>2, TimesRow DEF Congruent
  <2> HIDE DEF a
  <2>4. PICK j \in Int : parts.high * Alpha + parts.low = a + Q * j
    BY <2>3, PartsOf DEF Congruent
  <2>5. parts.high \in 0 .. HighCount - 1 /\ parts.low \in Int
    BY <2>3, PartsOf
  <2> HIDE DEF parts
  <2>6. i + j \in Int /\ Q * (i + j) = Q * i + Q * j /\ Q * i \in Int /\ Q * j \in Int
    BY Ring
  <2>7. parts.high * Alpha + parts.low = Dot(pk.A[r], mask) + Q * (i + j)
    BY <2>3, <2>4, <2>6
  <2> QED  BY <2>1, <2>5, <2>6, <2>7 DEF Congruent
<1>5. w1' \in [RowSet -> 0 .. HighCount - 1] /\ w0' \in [RowSet -> Int]
  <2>1. DOMAIN w1' = RowSet /\ DOMAIN w0' = RowSet /\ w1' = [r \in RowSet |-> w1'[r]] /\ w0' = [r \in RowSet |-> w0'[r]]
    BY <1>1
  <2> QED  BY <1>4, <2>1
<1>6. CommitmentInv'
  <2>1. Committed'
    BY <1>1, <1>5 DEF Committed
  <2>2. y' = mask /\ pk' = pk
    BY <1>1, <1>2
  <2> QED  BY <1>3, <1>4, <2>1, <2>2 DEF CommitmentInv
<1>7. CallInv'
  BY <1>2 DEF Inv, CallInv
<1>8. KeyInv' /\ HidesSecret' /\ (sig' # None => Accepts(sig, m, ctx)')
  BY <1>2, Quiet
<1> QED  BY <1>2, <1>6, <1>7, <1>8 DEF Inv

LEMMA RespondKeeps == ASSUME Inv, Respond PROVE Inv'
<1>1. /\ pc = "response" /\ z' = [l \in Columns |-> Centered(y[l] + c * sk.s1[l])]
      /\ UNCHANGED <<pk, sk, m, ctx, y, w1, w0, c, sig>>
      /\ IF VectorExceeds(z', GAMMA1 - BETA) THEN pc' = "rej" ELSE pc' = "low"
  BY DEF Respond, Reject
<1>2. CommitmentInv /\ KeyInv
  BY <1>1 DEF Inv
<1>3. ASSUME NEW l \in Columns
      PROVE  z'[l] \in Int /\ Congruent(z'[l], y[l] + c * sk.s1[l])
  <2>1. y[l] \in Int /\ sk.s1[l] \in Int /\ c \in Int
    BY <1>2 DEF CommitmentInv, Committed, KeyInv
  <2>2. y[l] + c * sk.s1[l] \in Int
    BY <2>1
  <2>3. z'[l] = Centered(y[l] + c * sk.s1[l])
    BY <1>1
  <2> QED  BY <2>2, <2>3, CenteredResidue
<1>4. z' \in [Columns -> Int]
  <2>1. z' = [l \in Columns |-> z'[l]]
    BY <1>1
  <2> QED  BY <1>3, <2>1
<1>5. pc' = "low" => ResponseInv'
  <2> SUFFICES ASSUME pc' = "low" PROVE ResponseInv'
    OBVIOUS
  <2>1. ~VectorExceeds(z', GAMMA1 - BETA)
    BY <1>1
  <2>2. ShortResponse'
    BY <1>4, <2>1 DEF ShortResponse
  <2> QED  BY <1>1, <1>3, <2>2 DEF ResponseInv, Combines
<1>6. CommitmentInv'
  BY <1>1, <1>2 DEF CommitmentInv, Committed
<1>7. CallInv' /\ pc' \in {"rej", "low"}
  BY <1>1 DEF Inv, CallInv
<1>8. KeyInv' /\ HidesSecret' /\ (sig' # None => Accepts(sig, m, ctx)')
  BY <1>1, Quiet
<1> QED  BY <1>5, <1>6, <1>7, <1>8 DEF Inv

LEMMA CheckLowKeeps == ASSUME Inv, CheckLow PROVE Inv'
<1>1. /\ pc = "low" /\ w0' = [r \in RowSet |-> Centered(w0[r] - c * sk.s2[r])]
      /\ UNCHANGED <<pk, sk, m, ctx, y, w1, c, z, sig>>
      /\ IF LowBitsUnsafe(w0') THEN pc' = "rej" ELSE pc' = "hint"
  BY DEF CheckLow, Reject
<1>2. CommitmentInv /\ ResponseInv /\ KeyInv
  BY <1>1 DEF Inv
<1>3. /\ c \in {-1, 1} /\ y \in [Columns -> Int] /\ z \in [Columns -> Int]
      /\ sk.s1 \in [Columns -> Int] /\ c \in Int
  BY <1>2 DEF CommitmentInv, Committed, ResponseInv, ShortResponse, KeyInv
<1>4. ASSUME NEW r \in RowSet
      PROVE  /\ w0'[r] \in Int
             /\ Congruent(w1[r] * Alpha + w0'[r],
                          Dot(pk.A[r], z) - c * (pk.t1[r] * 2^D + sk.t0[r]))
  <2> DEFINE row == pk.A[r]
             t == pk.t1[r] * 2^D + sk.t0[r]
             w == w1[r] * Alpha
             s == sk.s2[r]
             left == w0'[r]
             low == w0[r]
             Ay == Dot(row, y)
             As == Dot(row, sk.s1)
             Az == Dot(row, z)
  <2>1. row \in [Columns -> Int] /\ t \in Int /\ s \in Int
    BY <1>2, RowTypes
  <2>2. low \in Int /\ w \in Int
    <3>1. w1[r] \in 0 .. HighCount - 1 /\ low \in Int
      BY <1>2 DEF CommitmentInv, Committed
    <3> QED  BY <3>1, Ring
  <2>3. left = Centered(low - c * s)
    BY <1>1
  <2>4. low - c * s \in Int
    BY <1>3, <2>1, <2>2
  <2>5. left \in Int /\ Congruent(left, low - c * s)
    <3> HIDE DEF left
    <3> QED  BY <2>3, <2>4, CenteredResidue
  <2>6. Congruent(t, As + s)
    BY <1>2 DEF KeyInv
  <2>7. Congruent(w + low, Ay)
    BY <1>2 DEF CommitmentInv
  <2>8. Congruent(Az, Ay + c * As)
    <3>1. Combines(z, y, c, sk.s1)
      BY <1>2 DEF ResponseInv
    <3> HIDE DEF row
    <3> QED  BY <1>3, <2>1, <3>1, DotLinear
  <2>9. Ay \in Int /\ As \in Int /\ Az \in Int
    <3> HIDE DEF row
    <3> QED  BY <1>3, <2>1, DotInt
  <2>10. Congruent(w + left, Az - c * t)
    <3> HIDE DEF row, t, w, s, left, low, Ay, As, Az
    <3> QED  BY <1>3, <2>1, <2>2, <2>5, <2>6, <2>7, <2>8, <2>9, SubtractedRow, Zenon
  <2> QED  BY <2>5, <2>10
<1>5. w0' \in [RowSet -> Int]
  <2>1. w0' = [r \in RowSet |-> w0'[r]]
    BY <1>1
  <2> QED  BY <1>4, <2>1
<1>6. pc' = "hint" => PublicInv'
  <2> SUFFICES ASSUME pc' = "hint" PROVE PublicInv'
    OBVIOUS
  <2>1. ~LowBitsUnsafe(w0')
    BY <1>1
  <2>2. Committed' /\ ShortResponse'
    BY <1>1, <1>2, <1>5 DEF CommitmentInv, ResponseInv, Committed, ShortResponse
  <2>3. (~LowBitsUnsafe(w0))'
    BY <2>1
  <2>4. ASSUME NEW r \in RowSet
        PROVE  Congruent(w1'[r] * Alpha + w0'[r],
                         Dot(pk'.A[r], z') - c' * (pk'.t1[r] * 2^D + sk'.t0[r]))
    BY <1>1, <1>4
  <2> QED  BY <2>2, <2>3, <2>4 DEF PublicInv
<1>7. CallInv' /\ pc' \in {"rej", "hint"}
  BY <1>1 DEF Inv, CallInv
<1>8. KeyInv' /\ HidesSecret' /\ (sig' # None => Accepts(sig, m, ctx)')
  BY <1>1, Quiet
<1> QED  BY <1>6, <1>7, <1>8 DEF Inv

(* A row of a finished attempt: the verifier finds w1, and so does anyone  *)
(* who shifts the low bits by what another secret could have put there.    *)
LEMMA FinishedRow ==
    ASSUME KeyInv, PublicInv, NEW r \in RowSet, NEW ct0 \in Int,
           Congruent(ct0, c * sk.t0[r]), ~NormExceeds(ct0, GAMMA2)
    PROVE  /\ UseHintAt(Times(pk.A, z)[r] - c * pk.t1[r] * 2^D, MakeHint(w0[r] + ct0, w1[r])) = w1[r]
           /\ \A delta \in -BETA .. BETA :
                  ReferenceDecompose((Times(pk.A, z)[r] - c * (pk.t1[r] * 2^D + sk.t0[r]) + delta) % Q).high
                  = w1[r]
<1> DEFINE row == Times(pk.A, z)[r]
           Az == Dot(pk.A[r], z)
           high == pk.t1[r] * 2^D
           t0 == sk.t0[r]
           low == w0[r]
           w == w1[r] * Alpha
<1>1. /\ c \in {-1, 1} /\ w1[r] \in 0 .. HighCount - 1 /\ low \in Int /\ z \in [Columns -> Int]
      /\ ~NormExceeds(low, GAMMA2 - BETA) /\ Congruent(w + low, Az - c * (high + t0))
  BY DEF PublicInv, Committed, ShortResponse, LowBitsUnsafe, VectorExceeds
<1>2. /\ pk.A[r] \in [Columns -> Int] /\ pk.t1[r] \in Int /\ high \in Int /\ t0 \in Int
      /\ high + t0 \in Int
  BY RowTypes
<1>3. Az \in Int /\ row \in Int /\ Congruent(row, Az)
  BY <1>1, <1>2, TimesRow
<1>4. GAMMA2 \in Nat /\ BETA \in Nat /\ Alpha = 2 * GAMMA2 /\ w \in Int
  BY <1>1, Ring, RingAssumption
<1>5. /\ -(GAMMA2 - BETA) < low /\ low < GAMMA2 - BETA
      /\ -GAMMA2 < ct0 /\ ct0 < GAMMA2
  BY <1>1, <1>4, Bounded
<1>6. UseHintAt(row - c * pk.t1[r] * 2^D, MakeHint(low + ct0, w1[r])) = w1[r]
  <2>1. c * pk.t1[r] * 2^D = c * high
    <3>1. CASE c = 1
      BY <1>2, <3>1
    <3>2. CASE c = -1
      <4> DEFINE t1 == pk.t1[r]
                 step == 2^D
      <4>1. t1 \in Int /\ step \in Int /\ high = t1 * step
        BY <1>2, PowerAssumption
      <4> HIDE DEF t1, step, high
      <4>2. c * t1 = -t1 /\ c * high = -high
        BY <1>2, <3>2, <4>1
      <4>3. (-t1) * step = -(t1 * step)
        BY <4>1
      <4>4. c * t1 * step = c * high
        BY <4>1, <4>2, <4>3
      <4> QED  BY <4>4 DEF t1, step
    <3> QED  BY <1>1, <3>1, <3>2
  <2> DEFINE a == (row - c * high) % Q
  <2>2. row - c * high \in Int
    BY <1>1, <1>2, <1>3
  <2>3. a \in Coefficients /\ Congruent(a, row - c * high)
    <3> HIDE DEF high, row
    <3> QED  BY <2>2, Residue
  <2>4. a \in Int
    BY <2>3, Ring DEF Coefficients
  <2>5. Congruent(a, w + (low + ct0))
    <3> HIDE DEF a, row, Az, high, t0, low, w
    <3>1. Congruent(ct0, c * t0)
      BY DEF t0
    <3> QED  BY <1>1, <1>2, <1>3, <1>4, <2>3, <2>4, <3>1, VerifiedRow, Zenon
  <2> DEFINE u == low + ct0
  <2>6. u \in Int /\ -Alpha < u /\ u < Alpha
    BY <1>1, <1>4, <1>5
  <2>7. Corrected(ReferenceDecompose(a), MakeHint(u, w1[r])) = w1[r]
    <3> HIDE DEF a, u
    <3>1. Congruent(a, w1[r] * Alpha + u)
      BY <2>5 DEF u
    <3> QED  BY <1>1, <2>3, <2>6, <3>1, HintRestores
  <2> QED  BY <2>1, <2>7 DEF UseHintAt
<1>7. ASSUME NEW delta \in -BETA .. BETA
      PROVE  ReferenceDecompose((row - c * (high + t0) + delta) % Q).high = w1[r]
  <2> DEFINE sum == row - c * (high + t0) + delta
             a == sum % Q
             u == low + delta
  <2>1. sum \in Int /\ delta \in Int
    BY <1>1, <1>2, <1>3, <1>4
  <2>2. a \in Coefficients /\ Congruent(a, sum)
    <3> HIDE DEF sum
    <3> QED  BY <2>1, Residue
  <2>3. a \in Int
    BY <2>2, Ring DEF Coefficients
  <2>4. Congruent(a, w + (low + delta))
    <3> DEFINE t == high + t0
    <3>1. Congruent(w + low, Az - c * t) /\ Congruent(a, (row - c * t) + delta) /\ t \in Int
      BY <1>1, <1>2, <2>2
    <3> HIDE DEF a, row, Az, t, low, w
    <3> QED  BY <1>1, <1>3, <1>4, <2>1, <2>3, <3>1, HiddenRow, Zenon
  <2>5. u \in Int /\ -GAMMA2 < u /\ u < GAMMA2
    BY <1>1, <1>4, <1>5, <2>1
  <2>6. ReferenceDecompose(a) = [high |-> w1[r], low |-> u]
    <3> HIDE DEF a, u
    <3>1. Congruent(a, w1[r] * Alpha + u)
      BY <2>4 DEF u
    <3>2. -GAMMA2 <= u /\ u <= GAMMA2 /\ u # -GAMMA2
      BY <1>4, <2>5
    <3> QED  BY <1>1, <2>2, <2>5, <3>1, <3>2, PartsUnique
  <2> QED  BY <2>6
<1> QED  BY <1>6, <1>7

LEMMA MakeHintsKeeps == ASSUME Inv, MakeHints PROVE Inv'
<1>1. pc = "hint" /\ UNCHANGED <<pk, sk, m, ctx, y, w1, c, z>>
  BY DEF MakeHints
<1>2. PublicInv /\ KeyInv /\ CallInv
  BY <1>1 DEF Inv
<1> DEFINE ct0 == [r \in RowSet |-> Centered(c * sk.t0[r])]
           hints == [r \in RowSet |-> MakeHint(w0[r] + ct0[r], w1[r])]
           made == [ctilde |-> [mu |-> Mu(pk, m, ctx), w1 |-> w1, ball |-> c], z |-> z, h |-> hints]
<1>3. CASE pc' = "rej" /\ sig' = sig
  <2>1. CallInv'
    BY <1>1, <1>2, <1>3 DEF CallInv
  <2>2. KeyInv' /\ HidesSecret' /\ (sig' # None => Accepts(sig, m, ctx)')
    BY <1>1, <1>3, Quiet
  <2> QED  BY <1>3, <2>1, <2>2 DEF Inv
<1>4. CASE pc' = "idle" /\ sig' = made /\ ~CarryTooLarge(ct0)
  <2>1. ASSUME NEW r \in RowSet
        PROVE  /\ UseHintAt(Times(pk.A, z)[r] - c * pk.t1[r] * 2^D, hints[r]) = w1[r]
               /\ \A delta \in -BETA .. BETA :
                      ReferenceDecompose((Times(pk.A, z)[r] - c * (pk.t1[r] * 2^D + sk.t0[r]) + delta) % Q).high
                      = w1[r]
    <3> DEFINE carry == ct0[r]
    <3>1. c * sk.t0[r] \in Int
      <4>1. c \in Int /\ sk.t0[r] \in Int
        BY <1>2, RowTypes DEF PublicInv, Committed
      <4> QED  BY <4>1
    <3>2. carry \in Int /\ Congruent(carry, c * sk.t0[r])
      BY <3>1, CenteredResidue
    <3>3. ~NormExceeds(carry, GAMMA2)
      <4> HIDE DEF carry
      <4>1. r \in DOMAIN ct0
        OBVIOUS
      <4> HIDE DEF ct0
      <4> QED  BY <1>4, <4>1 DEF CarryTooLarge, VectorExceeds, carry
    <3>4. hints[r] = MakeHint(w0[r] + carry, w1[r])
      OBVIOUS
    <3> HIDE DEF carry, hints
    <3> QED  BY <1>2, <3>2, <3>3, <3>4, FinishedRow
  <2> HIDE DEF hints
  <2>2. /\ sig'.z = z /\ sig'.h = hints /\ sig'.ctilde.mu = Mu(pk, m, ctx)
        /\ sig'.ctilde.w1 = w1 /\ sig'.ctilde.ball = c
    BY <1>4
  <2>3. ShortResponse /\ w1 = [r \in RowSet |-> w1[r]]
    BY <1>2 DEF PublicInv, Committed
  <2>4. Accepts(sig, m, ctx)'
    <3>1. [r \in RowSet |-> UseHintAt(Times(pk.A, z)[r] - c * pk.t1[r] * 2^D, hints[r])]
          = [r \in RowSet |-> w1[r]]
      BY <2>1
    <3>2. Reconstructed(sig)' = w1
      BY <1>1, <2>2, <2>3, <3>1 DEF Reconstructed
    <3>3. ~VectorExceeds(sig'.z, GAMMA1 - BETA)
      BY <2>2, <2>3 DEF ShortResponse
    <3> QED  BY <1>1, <2>2, <3>2, <3>3 DEF Accepts
  <2>5. HidesSecret'
    <3>1. ASSUME NEW delta \in -BETA .. BETA, NEW l \in Columns
          PROVE  z[l] - delta \in -GAMMA1 + 1 .. GAMMA1
      <4>1. GAMMA1 \in Nat /\ BETA \in Nat /\ GAMMA1 - BETA \in Int
        BY RingAssumption
      <4>2. z[l] \in Int /\ ~NormExceeds(z[l], GAMMA1 - BETA)
        BY <2>3 DEF ShortResponse, VectorExceeds
      <4>3. -(GAMMA1 - BETA) < z[l] /\ z[l] < GAMMA1 - BETA
        BY <4>1, <4>2, Bounded
      <4> QED  BY <4>1, <4>2, <4>3
    <3>2. ASSUME NEW delta \in -BETA .. BETA, NEW r \in RowSet
          PROVE  ReferenceDecompose(((Times(pk'.A, sig'.z)[r]
                                      - sig'.ctilde.ball * (pk'.t1[r] * 2^D + sk'.t0[r])) + delta) % Q).high
                 = sig'.ctilde.w1[r]
      BY <1>1, <2>1, <2>2
    <3>3. \A delta \in -BETA .. BETA, l \in Columns : sig'.z[l] - delta \in -GAMMA1 + 1 .. GAMMA1
      BY <2>2, <3>1
    <3> QED  BY <3>2, <3>3 DEF HidesSecret
  <2>6. KeyInv' /\ CallInv'
    BY <1>1, <1>2, <1>4 DEF KeyInv, CallInv
  <2> QED  BY <1>4, <2>4, <2>5, <2>6 DEF Inv
<1>5. \/ pc' = "rej" /\ sig' = sig
      \/ pc' = "idle" /\ sig' = made /\ ~CarryTooLarge(ct0)
  BY DEF MakeHints, Reject
<1> QED  BY <1>3, <1>4, <1>5

LEMMA CallsKeep ==
    ASSUME Inv, NEW msg \in Messages, NEW context \in Contexts,
           RefuseSign(msg, context) \/ StartSign(msg, context) \/ Verify(msg, context)
    PROVE  Inv'
<1>1. UNCHANGED <<pk, sk, sig>> /\ pc = "idle" /\ (sig = None \/ UNCHANGED <<m, ctx>>)
  BY DEF RefuseSign, StartSign, Verify
<1>2. KeyInv' /\ HidesSecret' /\ (sig' # None => Accepts(sig, m, ctx)')
  BY <1>1, Quiet
<1>3. CallInv' /\ pc' \in {"idle", "rej"}
  <2>1. CASE StartSign(msg, context)
    BY <1>1, <2>1 DEF Inv, CallInv, StartSign
  <2>2. CASE RefuseSign(msg, context) \/ Verify(msg, context)
    BY <1>1, <2>2 DEF Inv, CallInv, RefuseSign, Verify
  <2> QED  BY <2>1, <2>2
<1> QED  BY <1>2, <1>3 DEF Inv

LEMMA InvStep == Inv /\ [Next]_vars => Inv'
<1> SUFFICES ASSUME Inv, [Next]_vars PROVE Inv'
  OBVIOUS
<1>1. CASE UNCHANGED vars
  <2>1. UNCHANGED <<pc, pk, sk, m, ctx, y, w1, w0, c, z, sig>>
    BY <1>1 DEF vars, attempt
  <2>2. KeyInv' /\ HidesSecret' /\ (sig' # None => Accepts(sig, m, ctx)')
    BY <2>1, Quiet
  <2>3. CallInv' /\ (pc \in {"response", "low"} => CommitmentInv')
    BY <2>1 DEF Inv, CallInv, CommitmentInv, Committed
  <2>4. (pc = "low" => ResponseInv') /\ (pc = "hint" => PublicInv')
    BY <2>1 DEF Inv, ResponseInv, ShortResponse, PublicInv, Committed, LowBitsUnsafe
  <2> QED  BY <2>1, <2>2, <2>3, <2>4 DEF Inv
<1> QED  BY <1>1, CallsKeep, CommitKeeps, RespondKeeps, CheckLowKeeps, MakeHintsKeeps DEF Next

(* In every reachable state of key generation, signing and verification    *)
(* the variables of an attempt are related as Inv says.                    *)
THEOREM Invariance == Spec => []Inv
BY StartsInv, InvStep, PTL DEF Spec

(* A finished signature could have been made with every secret within the  *)
(* bounds: the two rejection tests leave room for all of them, for every   *)
(* ring, key and mask.                                                     *)
THEOREM SecretHidden == Spec => []HidesSecret
<1>1. Inv => HidesSecret
  BY DEF Inv
<1> QED  BY <1>1, Invariance, PTL

-----------------------------------------------------------------------------
(* Where the parts of a framed message are. *)
LEMMA Joined ==
    ASSUME NEW s \in Seq(Nat), NEW t \in Seq(Nat)
    PROVE  /\ s \o t \in Seq(Nat) /\ Len(s \o t) = Len(s) + Len(t)
           /\ \A i \in 1 .. Len(s) : (s \o t)[i] = s[i]
           /\ \A i \in 1 .. Len(t) : (s \o t)[Len(s) + i] = t[i]
<1>1. s \o t \in Seq(Nat) /\ Len(s \o t) = Len(s) + Len(t)
  BY ConcatProperties
<1>2. \A i \in 1 .. Len(s) + Len(t) : (s \o t)[i] = IF i <= Len(s) THEN s[i] ELSE t[i - Len(s)]
  BY ConcatProperties
<1>3. Len(s) \in Nat /\ Len(t) \in Nat
  OBVIOUS
<1> DEFINE n == Len(s)
           k == Len(t)
           all == s \o t
<1> HIDE DEF n, k, all
<1>4. n \in Nat /\ k \in Nat /\ \A i \in 1 .. n + k : all[i] = IF i <= n THEN s[i] ELSE t[i - n]
  BY <1>2, <1>3 DEF n, k, all
<1>5. \A i \in 1 .. n : all[i] = s[i]
  BY <1>4
<1>6. ASSUME NEW i \in 1 .. k PROVE all[n + i] = t[i]
  <2>1. n + i \in 1 .. n + k /\ ~(n + i <= n) /\ (n + i) - n = i
    BY <1>4
  <2> QED  BY <1>4, <2>1
<1> QED  BY <1>1, <1>5, <1>6 DEF n, k, all

LEMMA Frame ==
    ASSUME NEW msg \in Seq(Nat), NEW context \in Seq(Nat), ~ContextTooLong(context)
    PROVE  LET e == Extend(msg, context)
               n == Len(context)
           IN  /\ e \in Seq(Nat) /\ Len(e) = 2 + n + Len(msg) /\ e[2] = n
               /\ \A i \in 1 .. n : e[2 + i] = context[i]
               /\ \A i \in 1 .. Len(msg) : e[2 + n + i] = msg[i]
<1> DEFINE n == Len(context)
           k == Len(msg)
           head == <<0, n>>
           front == head \o context
           all == front \o msg
<1>1. n \in Nat /\ k \in Nat /\ MaxContext \in Nat /\ n <= MaxContext
  BY RingAssumption DEF ContextTooLong
<1>2. n % (MaxContext + 1) = n
  <2> DEFINE M == MaxContext + 1
  <2>1. M \in Nat \ {0} /\ n < M
    BY <1>1
  <2> HIDE DEF n, M
  <2>2. n % M = n
    BY <1>1, <2>1
  <2> QED  BY <2>2 DEF M
<1>3. all = Extend(msg, context)
  BY <1>2 DEF Extend
<1>4. head \in Seq(Nat) /\ Len(head) = 2 /\ head[2] = n
  BY <1>1
<1> HIDE DEF head
<1>5. /\ front \in Seq(Nat) /\ Len(front) = 2 + n /\ \A i \in 1 .. 2 : front[i] = head[i]
      /\ \A i \in 1 .. n : front[2 + i] = context[i]
  <2>1. /\ front \in Seq(Nat) /\ Len(front) = Len(head) + n /\ \A i \in 1 .. Len(head) : front[i] = head[i]
        /\ \A i \in 1 .. n : front[Len(head) + i] = context[i]
    BY <1>4, Joined, Zenon
  <2> HIDE DEF front, n
  <2> QED  BY <1>4, <2>1
<1> HIDE DEF front
<1>6. /\ all \in Seq(Nat) /\ Len(all) = 2 + n + k /\ \A i \in 1 .. 2 + n : all[i] = front[i]
      /\ \A i \in 1 .. k : all[2 + n + i] = msg[i]
  <2>1. /\ all \in Seq(Nat) /\ Len(all) = Len(front) + k /\ \A i \in 1 .. Len(front) : all[i] = front[i]
        /\ \A i \in 1 .. k : all[Len(front) + i] = msg[i]
    BY <1>5, Joined, Zenon
  <2> HIDE DEF all, n, k
  <2> QED  BY <1>5, <2>1
<1> HIDE DEF all, n, k
<1>7. all[2] = n
  <2>1. 2 \in 1 .. 2 /\ 2 \in 1 .. 2 + n
    BY <1>1
  <2> QED  BY <1>4, <1>5, <1>6, <2>1
<1>8. ASSUME NEW i \in 1 .. n PROVE all[2 + i] = context[i]
  <2>1. 2 + i \in 1 .. 2 + n
    BY <1>1
  <2> QED  BY <1>5, <1>6, <2>1
<1> QED  BY <1>3, <1>6, <1>7, <1>8 DEF n, k

(* The length byte keeps the context string apart from the message. *)
LEMMA FramesDiffer ==
    ASSUME NEW msg1 \in Seq(Nat), NEW context1 \in Seq(Nat), ~ContextTooLong(context1),
           NEW msg2 \in Seq(Nat), NEW context2 \in Seq(Nat), ~ContextTooLong(context2),
           Extend(msg1, context1) = Extend(msg2, context2)
    PROVE  msg1 = msg2 /\ context1 = context2
<1> DEFINE e == Extend(msg1, context1)
           f == Extend(msg2, context2)
           n == Len(context1)
           n2 == Len(context2)
<1>1. /\ Len(e) = 2 + n + Len(msg1) /\ e[2] = n
      /\ \A i \in 1 .. n : e[2 + i] = context1[i]
      /\ \A i \in 1 .. Len(msg1) : e[2 + n + i] = msg1[i]
  BY Frame
<1>2. /\ Len(f) = 2 + n2 + Len(msg2) /\ f[2] = n2
      /\ \A i \in 1 .. n2 : f[2 + i] = context2[i]
      /\ \A i \in 1 .. Len(msg2) : f[2 + n2 + i] = msg2[i]
  BY Frame
<1>0. e = f /\ n \in Nat /\ n2 \in Nat /\ Len(msg1) \in Nat /\ Len(msg2) \in Nat
  OBVIOUS
<1> HIDE DEF e, f
<1>3. n2 = n /\ Len(msg2) = Len(msg1)
  BY <1>0, <1>1, <1>2
<1>4. \A i \in 1 .. n : context1[i] = context2[i]
  BY <1>0, <1>1, <1>2, <1>3
<1>5. \A i \in 1 .. Len(msg1) : msg1[i] = msg2[i]
  BY <1>0, <1>1, <1>2, <1>3
<1> QED  BY <1>3, <1>4, <1>5, SeqEqual

(* The verdict on a finished signature is that of the abstract scheme. *)
LEMMA Verdict ==
    ASSUME Inv, sig # None, NEW msg \in Messages, NEW context \in Contexts
    PROVE  (~ContextTooLong(context) /\ Accepts(sig, msg, context))
           <=> (~ContextTooLong(context) /\ <<m, ctx>> = <<msg, context>>)
<1>1. /\ Accepts(sig, m, ctx) /\ m \in Messages /\ ctx \in Contexts /\ ~ContextTooLong(ctx)
  BY DEF Inv, CallInv
<1>2. ASSUME ~ContextTooLong(context), Accepts(sig, msg, context) PROVE m = msg /\ ctx = context
  <2>1. Mu(pk, msg, context) = Mu(pk, m, ctx)
    BY <1>1, <1>2 DEF Accepts
  <2>2. Extend(msg, context) = Extend(m, ctx)
    BY <2>1 DEF Mu
  <2>3. {msg, context, m, ctx} \subseteq Seq(Nat)
    BY <1>1, BytesAssumption
  <2> QED  BY <1>1, <1>2, <2>2, <2>3, FramesDiffer
<1> QED  BY <1>1, <1>2

Signed == IF sig = None THEN None ELSE <<m, ctx>>

LEMMA Attempts ==
    ASSUME Inv, UNCHANGED <<m, ctx, sig, ret>>
    PROVE  UNCHANGED <<Signed, ret>>
BY DEF Signed

LEMMA Finishes ==
    ASSUME Inv, MakeHints
    PROVE  \/ Scheme!Sign(m, ctx)
           \/ UNCHANGED <<Signed, ret>>
<1>1. CASE UNCHANGED <<sig, ret>>
  BY <1>1 DEF MakeHints, Signed
<1>2. CASE ~UNCHANGED <<sig, ret>>
  <2> DEFINE hints == [r \in RowSet |-> MakeHint(w0[r] + Centered(c * sk.t0[r]), w1[r])]
             made == [ctilde |-> [mu |-> Mu(pk, m, ctx), w1 |-> w1, ball |-> c], z |-> z, h |-> hints]
  <2>1. sig' = made /\ ret' = Returned(m, ctx, 0) /\ UNCHANGED <<m, ctx>> /\ pc = "hint"
    <3>1. [r \in RowSet |-> MakeHint(w0[r] + [q \in RowSet |-> Centered(c * sk.t0[q])][r], w1[r])] = hints
      OBVIOUS
    <3> QED  BY <1>2, <3>1 DEF MakeHints
  <2>2. made \in SignatureSet
    <3>1. hints \in [RowSet -> {0, 1}]
      BY DEF MakeHint
    <3> HIDE DEF hints
    <3>2. PublicInv /\ pk \in [A : Matrices, t1 : [RowSet -> Int]]
      BY <2>1 DEF Inv, KeyInv
    <3>3. m \in Seq(Nat) /\ ctx \in Seq(Nat) /\ ~ContextTooLong(ctx)
      BY <2>1, BytesAssumption DEF Inv, CallInv
    <3>4. Mu(pk, m, ctx) \in [A : Matrices, t1 : [RowSet -> Int]] \X Seq(Nat)
      BY <3>2, <3>3, Frame DEF Mu
    <3>5. c \in {-1, 1} /\ w1 \in [RowSet -> Int] /\ z \in [Columns -> Int]
      <4>1. \A x \in 0 .. HighCount - 1 : x \in Int
        BY Ring
      <4> QED  BY <3>2, <4>1 DEF PublicInv, Committed, ShortResponse
    <3> QED  BY <3>1, <3>4, <3>5 DEF SignatureSet
  <2>3. sig' # None
    BY <2>1, <2>2, NoneAssumption
  <2>4. sig = None /\ ~ContextTooLong(ctx)
    BY <2>1 DEF Inv, CallInv
  <2>5. Signed = None /\ Signed' = <<m, ctx>>
    BY <2>1, <2>3, <2>4 DEF Signed
  <2> QED  BY <2>1, <2>4, <2>5 DEF Scheme!Sign, Scheme!Returned, Returned, Signed
<1> QED  BY <1>1, <1>2

LEMMA CallsMap ==
    ASSUME Inv, NEW msg \in Messages, NEW context \in Contexts,
           RefuseSign(msg, context) \/ StartSign(msg, context) \/ Verify(msg, context)
    PROVE  \/ Scheme!Enter
           \/ Scheme!RefuseSign(msg, context) \/ Scheme!Verify(msg, context)
<1>1. CASE RefuseSign(msg, context)
  BY <1>1 DEF RefuseSign, Returned, Scheme!RefuseSign, Scheme!Returned
<1>2. CASE StartSign(msg, context)
  BY <1>2 DEF StartSign, Scheme!Enter
<1>3. CASE Verify(msg, context)
  <2>1. /\ sig # None /\ UNCHANGED <<m, ctx, sig>>
        /\ ret' = Returned(msg, context,
                           IF ~ContextTooLong(context) /\ Accepts(sig, msg, context) THEN 0 ELSE -1)
    BY <1>3 DEF Verify
  <2>2. <<m, ctx>> # None
    BY <2>1, NoneAssumption DEF Inv, CallInv
  <2>3. ret' = Returned(msg, context,
                        IF ~ContextTooLong(context) /\ <<m, ctx>> = <<msg, context>> THEN 0 ELSE -1)
    BY <2>1, Verdict
  <2> QED  BY <2>1, <2>2, <2>3 DEF Scheme!Verify, Scheme!Returned, Returned
<1> QED  BY <1>1, <1>2, <1>3

(* For every ring, key, mask, message and context string: every signature  *)
(* the rejection loop lets through verifies, for its own message and       *)
(* context string and for no other.                                        *)
THEOREM IsSignatureScheme == Spec => ImplementsScheme
<1>1. Init => Scheme!Init
  BY DEF Init, Scheme!Init
<1>2. Inv /\ [Next]_vars => [Scheme!Next]_<<Signed, ret>>
  <2> SUFFICES ASSUME Inv, [Next]_vars PROVE [Scheme!Next]_<<Signed, ret>>
    OBVIOUS
  <2>1. CASE UNCHANGED vars \/ Commit \/ Respond \/ CheckLow
    <3>1. UNCHANGED <<m, ctx, sig, ret>>
      BY <2>1 DEF vars, Commit, Respond, CheckLow
    <3> QED  BY <3>1, Attempts
  <2>2. CASE MakeHints
    <3>1. CASE UNCHANGED <<Signed, ret>>
      BY <3>1
    <3>2. CASE Scheme!Sign(m, ctx)
      <4>1. m \in Messages /\ ctx \in Contexts
        BY <2>2 DEF Inv, CallInv, MakeHints
      <4> QED  BY <3>2, <4>1 DEF Scheme!Next
    <3> QED  BY <2>2, <3>1, <3>2, Finishes
  <2>3. ASSUME NEW msg \in Messages, NEW context \in Contexts,
               RefuseSign(msg, context) \/ StartSign(msg, context) \/ Verify(msg, context)
        PROVE  Scheme!Next
    BY <2>3, CallsMap DEF Scheme!Next
  <2> QED  BY <2>1, <2>2, <2>3 DEF Next
<1> QED  BY <1>1, <1>2, Invariance, PTL DEF Spec, ImplementsScheme, Scheme!Spec, Signed
=============================================================================
