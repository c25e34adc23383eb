----------------------------- MODULE KEMProofs -----------------------------
(***************************************************************************)
(* Theorems about KEM, for every ring, rank, noise and width for which the *)
(* noise is small enough.                                                  *)
(*                                                                         *)
(* First sums: a product is linear in each vector, is the same from either *)
(* side of the matrix (MatrixMoves), and errors in one vector are errors   *)
(* of the product (DotNear).  Then compression, whose error is bounded     *)
(* (CompressionNear), and decryption, which is right (DecryptsRight).      *)
(* From that follows that what the calls return is the key of an ideal KEM *)
(* (IsIdealKEM).                                                           *)
(***************************************************************************)
EXTENDS KEM, WellFoundedInduction, TLAPS

Vectors == [Rank -> Int]

LEMMA RankIs == K \in Nat \ {0} /\ Q \in Nat /\ Q > 2 /\ Eta \in Nat
  BY RingAssumption

(* A set that has 0 and every successor has every number. *)
LEMMA Induction ==
    ASSUME NEW T, T \subseteq Nat, 0 \in T, \A n \in T : n + 1 \in T
    PROVE  T = Nat
<1> DEFINE Rest == Nat \ T
           R == OpToRel(<, Nat)
<1> SUFFICES ASSUME Rest # {} PROVE FALSE
  OBVIOUS
<1>1. PICK n \in Rest : \A k \in Rest : ~(<<k, n>> \in R)
  <2>1. IsWellFoundedOn(R, Nat)
    BY NatLessThanWellFounded
  <2>2. Rest \subseteq Nat
    OBVIOUS
  <2> HIDE DEF R, Rest
  <2> QED  BY <2>1, <2>2, WFMin
<1>2. n # 0 /\ n - 1 \in Nat /\ n - 1 < n
  OBVIOUS
<1>3. <<n - 1, n>> \in R
  BY <1>2 DEF OpToRel
<1>4. n - 1 \in T
  BY <1>1, <1>2, <1>3
<1>5. (n - 1) + 1 = n
  OBVIOUS
<1> QED  BY <1>4, <1>5

-----------------------------------------------------------------------------
(* Partial sums: f[n] is the sum of the first n products. *)
Sums(f, n, v, w) == f[0] = 0 /\ \A i \in 1 .. n : f[i] = f[i - 1] + v[i] * w[i]

(* There are partial sums of any length, all of them integers. *)
LEMMA SumsExist ==
    ASSUME NEW v \in Vectors, NEW w \in Vectors
    PROVE  \E f \in [0 .. K -> Int] : Sums(f, K, v, w)
<1> USE RankIs
<1> DEFINE T == {n \in Nat : n <= K => \E f \in [0 .. n -> Int] : Sums(f, n, v, w)}
<1>1. 0 \in T
  <2>1. [i \in 0 .. 0 |-> 0] \in [0 .. 0 -> Int] /\ Sums([i \in 0 .. 0 |-> 0], 0, v, w)
    BY DEF Sums
  <2> QED  BY <2>1
<1>2. ASSUME NEW n \in T PROVE n + 1 \in T
  <2>1. n \in Nat /\ n + 1 \in Nat
    OBVIOUS
  <2>2. ASSUME n + 1 <= K PROVE \E f \in [0 .. n + 1 -> Int] : Sums(f, n + 1, v, w)
    <3>1. PICK f \in [0 .. n -> Int] : Sums(f, n, v, w)
      BY <2>1, <2>2
    <3>2. v[n + 1] \in Int /\ w[n + 1] \in Int
      BY <2>1, <2>2 DEF Rank, Vectors
    <3> DEFINE last == f[n] + v[n + 1] * w[n + 1]
               g == [i \in 0 .. n + 1 |-> IF i = n + 1 THEN last ELSE f[i]]
    <3>3. last \in Int
      BY <2>1, <3>2
    <3>4. (\A i \in 0 .. n : g[i] = f[i]) /\ g[n + 1] = f[n] + v[n + 1] * w[n + 1]
      BY <2>1
    <3> HIDE DEF last
    <3>5. g \in [0 .. n + 1 -> Int]
      BY <2>1, <3>3
    <3> HIDE DEF g
    <3>6. ASSUME NEW i \in 1 .. n + 1 PROVE g[i] = g[i - 1] + v[i] * w[i]
      <4>1. CASE i = n + 1
        <5>1. i - 1 = n /\ n \in 0 .. n
          BY <2>1, <4>1
        <5> QED  BY <3>4, <4>1, <5>1
      <4>2. CASE i # n + 1
        <5>1. i \in 1 .. n /\ i \in 0 .. n /\ i - 1 \in 0 .. n
          BY <2>1, <4>2
        <5> QED  BY <3>1, <3>4, <5>1 DEF Sums
      <4> QED  BY <4>1, <4>2
    <3>7. g[0] = 0
      BY <2>1, <3>1, <3>4 DEF Sums
    <3> QED  BY <3>5, <3>6, <3>7 DEF Sums
  <2> QED  BY <2>1, <2>2
<1>3. T = Nat
  <2> HIDE DEF T
  <2>1. T \subseteq Nat
    BY DEF T
  <2> QED  BY <1>1, <1>2, <2>1, Induction
<1> QED  BY <1>3

(* There is only one sequence of partial sums. *)
LEMMA SumsUnique ==
    ASSUME NEW v \in Vectors, NEW w \in Vectors, NEW f, NEW g,
           Sums(f, K, v, w), Sums(g, K, v, w)
    PROVE  \A n \in 0 .. K : f[n] = g[n]
<1> USE RankIs
<1> DEFINE T == {n \in Nat : n <= K => f[n] = g[n]}
<1>1. 0 \in T
  BY DEF Sums
<1>2. ASSUME NEW n \in T PROVE n + 1 \in T
  <2> SUFFICES ASSUME n + 1 <= K PROVE f[n + 1] = g[n + 1]
    OBVIOUS
  <2>1. n + 1 \in 1 .. K /\ (n + 1) - 1 = n /\ f[n] = g[n]
    OBVIOUS
  <2> QED  BY <2>1 DEF Sums
<1>3. T = Nat
  <2> HIDE DEF T
  <2>1. T \subseteq Nat
    BY DEF T
  <2> QED  BY <1>1, <1>2, <2>1, Induction
<1> QED  BY <1>3

(* Dot is the last of the partial sums. *)
LEMMA DotIs ==
    ASSUME NEW v \in Vectors, NEW w \in Vectors, NEW f \in [0 .. K -> Int], Sums(f, K, v, w)
    PROVE  Dot(v, w) = f[K] /\ Dot(v, w) \in Int
<1> USE RankIs
<1> DEFINE Is(s) == s = [i \in 0 .. K |-> IF i = 0 THEN 0 ELSE s[i - 1] + v[i] * w[i]]
           sum == CHOOSE s : Is(s)
<1>1. Is(f)
  <2>1. \A i \in 0 .. K : f[i] = IF i = 0 THEN 0 ELSE f[i - 1] + v[i] * w[i]
    BY DEF Sums
  <2> QED  BY <2>1
<1>2. Is(sum)
  <2> HIDE DEF Is
  <2> QED  BY <1>1
<1>3. Dot(v, w) = sum[K]
  BY DEF Dot
<1> HIDE DEF sum
<1>4. Sums(sum, K, v, w)
  BY <1>2 DEF Sums
<1> HIDE DEF Is
<1>5. sum[K] = f[K]
  BY <1>4, SumsUnique
<1> QED  BY <1>3, <1>5

LEMMA DotSums ==
    ASSUME NEW v \in Vectors, NEW w \in Vectors
    PROVE  /\ Dot(v, w) \in Int
           /\ \E f \in [0 .. K -> Int] : Sums(f, K, v, w) /\ Dot(v, w) = f[K]
  BY SumsExist, DotIs

LEMMA DotCommutes ==
    ASSUME NEW v \in Vectors, NEW w \in Vectors PROVE Dot(v, w) = Dot(w, v)
<1>1. PICK f \in [0 .. K -> Int] : Sums(f, K, v, w) /\ Dot(v, w) = f[K]
  BY DotSums
<1>2. \A i \in 1 .. K : v[i] * w[i] = w[i] * v[i]
  BY DEF Vectors, Rank
<1>3. Sums(f, K, w, v)
  BY <1>1, <1>2 DEF Sums
<1> QED  BY <1>1, <1>3, DotIs

(* A product is linear in the vector. *)
LEMMA DotLinear ==
    ASSUME NEW v \in Vectors, NEW x \in Vectors, NEW u \in Vectors, NEW y \in Vectors, NEW d \in Int,
           \A i \in Rank : y[i] = x[i] + d * u[i]
    PROVE  Dot(v, y) = Dot(v, x) + d * Dot(v, u)
<1> USE RankIs
<1>1. PICK f \in [0 .. K -> Int] : Sums(f, K, v, x) /\ Dot(v, x) = f[K]
  BY DotSums
<1>2. PICK g \in [0 .. K -> Int] : Sums(g, K, v, u) /\ Dot(v, u) = g[K]
  BY DotSums
<1> DEFINE h == [i \in 0 .. K |-> f[i] + d * g[i]]
<1>3. h \in [0 .. K -> Int] /\ \A i \in 0 .. K : h[i] = f[i] + d * g[i]
  OBVIOUS
<1> HIDE DEF h
<1>4. ASSUME NEW i \in 1 .. K PROVE h[i] = h[i - 1] + v[i] * y[i]
  <2>1. i \in 0 .. K /\ i - 1 \in 0 .. K /\ i \in Rank
    BY DEF Rank
  <2> DEFINE a == f[i - 1]
             b == g[i - 1]
             p == v[i]
             q == x[i]
             r == u[i]
  <2>2. a \in Int /\ b \in Int /\ p \in Int /\ q \in Int /\ r \in Int
    BY <2>1 DEF Vectors
  <2>3. f[i] = a + p * q /\ g[i] = b + p * r /\ h[i - 1] = a + d * b /\ y[i] = q + d * r
    BY <1>1, <1>2, <1>3, <2>1 DEF Sums
  <2>4. h[i] = (a + p * q) + d * (b + p * r)
    BY <1>3, <2>1, <2>3
  <2> HIDE DEF a, b, p, q, r
  <2>5. (a + p * q) + d * (b + p * r) = (a + d * b) + p * (q + d * r)
    BY <2>2, Z3
  <2> QED  BY <2>3, <2>4, <2>5 DEF p
<1>5. h[0] = 0
  <2>1. 0 \in 0 .. K /\ d * 0 = 0
    OBVIOUS
  <2> QED  BY <1>1, <1>2, <1>3, <2>1 DEF Sums
<1>6. Sums(h, K, v, y)
  BY <1>4, <1>5 DEF Sums
<1>7. Dot(v, y) = h[K]
  BY <1>3, <1>6, DotIs
<1>8. K \in 0 .. K
  OBVIOUS
<1> QED  BY <1>1, <1>2, <1>3, <1>7, <1>8

Matrix == [Rank -> Vectors]

LEMMA TimesIs ==
    ASSUME NEW A \in Matrix, NEW v \in Vectors
    PROVE  Times(A, v) \in Vectors /\ \A i \in Rank : Times(A, v)[i] = Dot(A[i], v)
<1>1. \A i \in Rank : A[i] \in Vectors
  BY DEF Matrix
<1>2. \A i \in Rank : Dot(A[i], v) \in Int
  BY <1>1, DotSums
<1> QED  BY <1>2 DEF Times, Vectors

LEMMA DotZero ==
    ASSUME NEW v \in Vectors, NEW z \in Vectors, \A i \in Rank : z[i] = 0
    PROVE  Dot(v, z) = 0
<1> USE RankIs
<1> DEFINE f == [i \in 0 .. K |-> 0]
<1>1. f \in [0 .. K -> Int] /\ \A i \in 0 .. K : f[i] = 0
  OBVIOUS
<1> HIDE DEF f
<1>2. ASSUME NEW i \in 1 .. K PROVE f[i] = f[i - 1] + v[i] * z[i]
  <2>1. i \in 0 .. K /\ i - 1 \in 0 .. K /\ z[i] = 0 /\ v[i] \in Int
    BY DEF Rank, Vectors
  <2> QED  BY <1>1, <2>1
<1>3. Sums(f, K, v, z)
  BY <1>1, <1>2 DEF Sums
<1> QED  BY <1>1, <1>3, DotIs

(* The matrix may be on either side: r A s is the same, read from the left *)
(* or, with the transposed matrix, from the right.                         *)
LEMMA MatrixMoves ==
    ASSUME NEW A \in Matrix, NEW r \in Vectors, NEW s \in Vectors
    PROVE  Dot(r, Times(A, s)) = Dot(s, Times(Transpose(A), r))
<1> USE RankIs
<1>1. Transpose(A) \in Matrix /\ \A i, j \in Rank : Transpose(A)[j][i] = A[i][j]
  BY DEF Transpose, Matrix, Vectors
<1> DEFINE As == Times(A, s)
           B == Transpose(A)
           IsSum(f, j) == Sums(f, K, B[j], r) /\ Dot(B[j], r) = f[K]
           P == [j \in Rank |-> CHOOSE f \in [0 .. K -> Int] : IsSum(f, j)]
           G(n) == [j \in Rank |-> P[j][n]]
<1>2. ASSUME NEW j \in Rank PROVE P[j] \in [0 .. K -> Int] /\ IsSum(P[j], j)
  <2>1. B[j] \in Vectors
    BY <1>1 DEF Matrix
  <2>2. \E f \in [0 .. K -> Int] : IsSum(f, j)
    BY <2>1, DotSums
  <2> HIDE DEF IsSum
  <2> QED  BY <2>2
<1> HIDE DEF P
<1>3. As \in Vectors /\ \A i \in Rank : As[i] = Dot(A[i], s)
  BY TimesIs
<1>4. PICK f \in [0 .. K -> Int] : Sums(f, K, r, As) /\ Dot(r, As) = f[K]
  BY <1>3, DotSums
<1> HIDE DEF As, B
<1>5. ASSUME NEW n \in 0 .. K PROVE G(n) \in Vectors
  BY <1>2 DEF Vectors
<1> DEFINE T == {n \in Nat : n <= K => f[n] = Dot(s, G(n))}
<1>6. 0 \in T
  <2>1. 0 \in 0 .. K
    OBVIOUS
  <2>2. \A j \in Rank : G(0)[j] = 0
    BY <1>2 DEF Sums
  <2>3. G(0) \in Vectors
    BY <1>5, <2>1
  <2> HIDE DEF G
  <2>4. Dot(s, G(0)) = 0
    BY <2>2, <2>3, DotZero
  <2> QED  BY <2>4, <1>4 DEF Sums
<1>7. ASSUME NEW n \in T PROVE n + 1 \in T
  <2> SUFFICES ASSUME n + 1 <= K PROVE f[n + 1] = Dot(s, G(n + 1))
    OBVIOUS
  <2>1. n \in Nat /\ n + 1 \in 1 .. K /\ n + 1 \in Rank /\ n \in 0 .. K /\ n + 1 \in 0 .. K
        /\ (n + 1) - 1 = n /\ f[n] = Dot(s, G(n))
    BY DEF Rank
  <2> DEFINE d == r[n + 1]
             u == A[n + 1]
  <2>2. d \in Int /\ u \in Vectors
    BY <2>1 DEF Vectors, Matrix
  <2>3. ASSUME NEW j \in Rank PROVE G(n + 1)[j] = G(n)[j] + d * u[j]
    <3>1. P[j][n + 1] = P[j][n] + B[j][n + 1] * r[n + 1]
      BY <1>2, <2>1 DEF Sums
    <3>2. B[j][n + 1] = u[j] /\ u[j] \in Int
      BY <1>1, <2>1, <2>2 DEF B, Vectors
    <3>3. B[j][n + 1] * r[n + 1] = d * u[j]
      BY <2>2, <3>2
    <3> QED  BY <3>1, <3>3
  <2>4. G(n) \in Vectors /\ G(n + 1) \in Vectors
    BY <1>5, <2>1
  <2>5. Dot(s, u) = As[n + 1]
    BY <1>3, <2>1, <2>2, DotCommutes
  <2> HIDE DEF G, T
  <2>6. Dot(s, G(n + 1)) = Dot(s, G(n)) + d * Dot(s, u)
    <3> HIDE DEF d, u
    <3> QED  BY <2>2, <2>3, <2>4, DotLinear
  <2>7. f[n + 1] = f[n] + d * As[n + 1]
    BY <1>4, <2>1 DEF Sums
  <2> QED  BY <2>1, <2>5, <2>6, <2>7
<1>8. T = Nat
  <2> HIDE DEF T
  <2>1. T \subseteq Nat
    BY DEF T
  <2> QED  BY <1>6, <1>7, <2>1, Induction
<1>9. f[K] = Dot(s, G(K))
  <2> HIDE DEF G
  <2>1. K \in T
    BY <1>8
  <2> QED  BY <2>1
<1>10. G(K) = Times(B, r)
  <2>1. ASSUME NEW j \in Rank PROVE P[j][K] = Dot(B[j], r)
    BY <1>2
  <2> QED  BY <2>1 DEF Times
<1> QED  BY <1>4, <1>9, <1>10 DEF As, B

-----------------------------------------------------------------------------
(* Modulo Q, a and b differ by E at most. *)
Near(a, b, E) == \E e, k \in Int : -E <= e /\ e <= E /\ a = b + e + Q * k

LEMMA NearSelf == ASSUME NEW a \in Int, NEW E \in Nat PROVE Near(a, a, E)
<1> USE RankIs
<1>1. -E <= 0 /\ 0 <= E /\ a = a + 0 + Q * 0
  OBVIOUS
<1> SUFFICES \E e, k \in Int : -E <= e /\ e <= E /\ a = a + e + Q * k
  BY DEF Near
<1> WITNESS 0 \in Int, 0 \in Int
<1> QED  BY <1>1

LEMMA NearAdded ==
    ASSUME NEW a \in Int, NEW n \in Int, NEW E \in Nat, -E <= n, n <= E
    PROVE  Near(a + n, a, E)
<1> USE RankIs
<1>1. a + n = a + n + Q * 0
  OBVIOUS
<1> SUFFICES \E e, k \in Int : -E <= e /\ e <= E /\ a + n = a + e + Q * k
  BY DEF Near
<1> WITNESS n \in Int, 0 \in Int
<1> QED  BY <1>1

LEMMA NearTransitive ==
    ASSUME NEW a \in Int, NEW b \in Int, NEW c \in Int, NEW E \in Nat, NEW F \in Nat,
           Near(a, b, E), Near(b, c, F)
    PROVE  Near(a, c, E + F)
<1> USE RankIs
<1>1. PICK e, k \in Int : -E <= e /\ e <= E /\ a = b + e + Q * k
  BY DEF Near
<1>2. PICK f, l \in Int : -F <= f /\ f <= F /\ b = c + f + Q * l
  BY DEF Near
<1>3. Q * (k + l) = Q * k + Q * l /\ Q * k \in Int /\ Q * l \in Int
  OBVIOUS
<1>4. a = c + (e + f) + Q * (k + l)
  BY <1>1, <1>2, <1>3
<1>5. -(E + F) <= e + f /\ e + f <= E + F /\ e + f \in Int /\ k + l \in Int
  BY <1>1, <1>2
<1> QED  BY <1>4, <1>5 DEF Near

LEMMA NearSum ==
    ASSUME NEW a \in Int, NEW b \in Int, NEW c \in Int, NEW d \in Int, NEW E \in Nat, NEW F \in Nat,
           Near(a, b, E), Near(c, d, F)
    PROVE  Near(a + c, b + d, E + F)
<1> USE RankIs
<1>1. PICK e, k \in Int : -E <= e /\ e <= E /\ a = b + e + Q * k
  BY DEF Near
<1>2. PICK f, l \in Int : -F <= f /\ f <= F /\ c = d + f + Q * l
  BY DEF Near
<1>3. Q * (k + l) = Q * k + Q * l /\ Q * k \in Int /\ Q * l \in Int
  OBVIOUS
<1>4. a + c = (b + d) + (e + f) + Q * (k + l)
  BY <1>1, <1>2, <1>3
<1>5. -(E + F) <= e + f /\ e + f <= E + F /\ e + f \in Int /\ k + l \in Int
  BY <1>1, <1>2
<1> QED  BY <1>4, <1>5 DEF Near

LEMMA NearNegative ==
    ASSUME NEW a \in Int, NEW b \in Int, NEW E \in Nat, Near(a, b, E)
    PROVE  Near(-a, -b, E)
<1> USE RankIs
<1>1. PICK e, k \in Int : -E <= e /\ e <= E /\ a = b + e + Q * k
  BY DEF Near
<1>2. Q * (-k) = -(Q * k) /\ Q * k \in Int
  OBVIOUS
<1>3. -a = -b + (-e) + Q * (-k) /\ -e \in Int /\ -k \in Int /\ -E <= -e /\ -e <= E
  BY <1>1, <1>2
<1> QED  BY <1>3 DEF Near

LEMMA ProductBound ==
    ASSUME NEW p \in Int, NEW e \in Int, NEW M \in Nat, NEW E \in Nat,
           -M <= p, p <= M, -E <= e, e <= E
    PROVE  -(M * E) <= p * e /\ p * e <= M * E
<1>1. ASSUME NEW a \in Nat, NEW b \in Int, NEW c \in Int, b <= c PROVE a * b <= a * c
  BY <1>1
<1>2. CASE p >= 0
  <2>1. p * e <= p * E /\ p * (-E) <= p * e /\ p * (-E) = -(p * E)
    BY <1>1, <1>2
  <2>2. E * p <= E * M
    BY <1>1
  <2> QED  BY <2>1, <2>2
<1>3. CASE p < 0
  <2>1. (-p) * e <= (-p) * E /\ (-p) * (-E) <= (-p) * e
    BY <1>1, <1>3
  <2>2. E * (-p) <= E * M
    BY <1>1, <1>3
  <2>3. (-p) * e = -(p * e) /\ (-p) * (-E) = -((-p) * E) /\ E * (-p) = (-p) * E /\ E * M = M * E
    OBVIOUS
  <2> QED  BY <2>1, <2>2, <2>3
<1> QED  BY <1>2, <1>3

(* Errors of E in one vector are errors of K * Eta * E in the product with *)
(* a vector of noise.                                                      *)
LEMMA DotNear ==
    ASSUME NEW v \in [Rank -> Noise], NEW x \in Vectors, NEW y \in Vectors, NEW E \in Nat,
           \A i \in Rank : Near(y[i], x[i], E)
    PROVE  Near(Dot(v, y), Dot(v, x), K * (Eta * E))
<1> USE RankIs
<1>1. v \in Vectors
  BY DEF Noise, Vectors
<1>2. PICK f \in [0 .. K -> Int] : Sums(f, K, v, y) /\ Dot(v, y) = f[K]
  BY <1>1, DotSums
<1>3. PICK g \in [0 .. K -> Int] : Sums(g, K, v, x) /\ Dot(v, x) = g[K]
  BY <1>1, DotSums
<1> DEFINE B == Eta * E
<1>4. B \in Nat
  OBVIOUS
<1> HIDE DEF B
<1> DEFINE T == {n \in Nat : n <= K => Near(f[n], g[n], n * B)}
<1>5. 0 \in T
  <2>1. f[0] = 0 /\ g[0] = 0
    BY <1>2, <1>3 DEF Sums
  <2>2. 0 * B = 0 /\ Q * 0 = 0
    BY <1>4
  <2>3. Near(0, 0, 0)
    BY NearSelf
  <2> QED  BY <2>1, <2>2, <2>3
<1>6. ASSUME NEW n \in T PROVE n + 1 \in T
  <2> SUFFICES ASSUME n + 1 <= K PROVE Near(f[n + 1], g[n + 1], (n + 1) * B)
    OBVIOUS
  <2>1. n \in Nat /\ n + 1 \in 1 .. K /\ n + 1 \in Rank /\ n \in 0 .. K /\ (n + 1) - 1 = n
        /\ Near(f[n], g[n], n * B)
    BY DEF Rank
  <2> DEFINE p == v[n + 1]
             yn == y[n + 1]
             xn == x[n + 1]
  <2>2. p \in Int /\ -Eta <= p /\ p <= Eta /\ yn \in Int /\ xn \in Int
    BY <2>1 DEF Noise, Vectors
  <2>3. PICK e, k \in Int : -E <= e /\ e <= E /\ yn = xn + e + Q * k
    BY <2>1 DEF Near
  <2>4. f[n + 1] = f[n] + p * yn /\ g[n + 1] = g[n] + p * xn
    BY <1>2, <1>3, <2>1 DEF Sums
  <2> HIDE DEF p, yn, xn, T
  <2>5. p * yn = p * xn + p * e + Q * (p * k)
    BY <2>2, <2>3, Z3
  <2>6. -B <= p * e /\ p * e <= B
    BY <2>2, <2>3, ProductBound DEF B
  <2>7. p * yn \in Int /\ p * xn \in Int /\ p * e \in Int /\ p * k \in Int
    BY <2>2
  <2>8. Near(p * yn, p * xn, B)
    BY <2>5, <2>6, <2>7 DEF Near
  <2>9. (n + 1) * B = n * B + B /\ n * B \in Nat /\ f[n] \in Int /\ g[n] \in Int
    BY <1>4, <2>1
  <2> DEFINE py == p * yn
             px == p * xn
             nB == n * B
  <2> HIDE DEF py, px, nB
  <2>10. Near(f[n] + py, g[n] + px, nB + B)
    BY <1>4, <2>1, <2>7, <2>8, <2>9, NearSum DEF py, px, nB
  <2> QED  BY <2>4, <2>9, <2>10 DEF py, px, nB
<1>7. T = Nat
  <2> HIDE DEF T
  <2>1. T \subseteq Nat
    BY DEF T
  <2> QED  BY <1>5, <1>6, <2>1, Induction
<1>8. Near(f[K], g[K], K * B)
  BY <1>7
<1> QED  BY <1>2, <1>3, <1>8 DEF B

-----------------------------------------------------------------------------
(* Division rounds down. *)
LEMMA Division ==
    ASSUME NEW a \in Int, NEW M \in Nat \ {0}
    PROVE  /\ a \div M \in Int /\ a % M \in 0 .. M - 1
           /\ a = (a \div M) * M + (a % M)
<1>1. a = M * (a \div M) + (a % M) /\ (a % M) \in 0 .. M - 1 /\ a \div M \in Int
  OBVIOUS
<1>2. M * (a \div M) = (a \div M) * M
  BY <1>1
<1> QED  BY <1>1, <1>2

LEMMA Cancel ==
    ASSUME NEW a \in Int, NEW b \in Int, NEW M \in Nat \ {0}, a * M < b * M
    PROVE  a < b
<1> SUFFICES ASSUME b <= a PROVE FALSE
  OBVIOUS
<1>1. a - b \in Nat
  OBVIOUS
<1>2. (a - b) * M >= 0
  BY <1>1
<1>3. (a - b) * M = a * M - b * M
  OBVIOUS
<1> QED  BY <1>2, <1>3

LEMMA Quotient ==
    ASSUME NEW a \in Int, NEW M \in Nat \ {0}, NEW q \in Int, q * M <= a, a < (q + 1) * M
    PROVE  a \div M = q
<1> DEFINE p == a \div M
<1>1. p \in Int /\ p * M <= a /\ a < p * M + M
  BY Division
<1> HIDE DEF p
<1>2. p * M \in Int /\ q * M \in Int /\ (p + 1) * M = p * M + M /\ (q + 1) * M = q * M + M
  BY <1>1
<1>3. p * M < (q + 1) * M /\ q * M < (p + 1) * M
  BY <1>1, <1>2
<1>4. p < q + 1 /\ q < p + 1
  BY <1>1, <1>3, Cancel
<1> QED  BY <1>1, <1>4 DEF p

Widths == {1, DT, DU, DV}

LEMMA Powers ==
    ASSUME NEW d \in Widths
    PROVE  2^d \in Nat \ {0} /\ 2^(d - 1) \in Nat \ {0} /\ 2^d = 2 * 2^(d - 1)
  BY PowerAssumption DEF Widths

LEMMA HalfQ == /\ Q \div 2 \in Nat /\ 2 * (Q \div 2) <= Q /\ Q <= 2 * (Q \div 2) + 1
               /\ (Q + 1) \div 2 \in Nat /\ Q <= 2 * ((Q + 1) \div 2) /\ 2 * ((Q + 1) \div 2) <= Q + 1
               /\ Q \div 4 \in Nat /\ 4 * (Q \div 4) <= Q
  BY RankIs

(* An error that is what compression makes of it, times 2^d, is bounded.   *)
LEMMA ErrorBound ==
    ASSUME NEW d \in Widths, NEW e \in Int,
           e * 2^d <= Q \div 2 + 2^(d - 1),
           Q \div 2 + 2^(d - 1) - Q - 2^d + 2 <= e * 2^d
    PROVE  /\ CompressionError(d) \in Nat
           /\ -CompressionError(d) <= e /\ e <= CompressionError(d)
<1> USE RankIs
<1> DEFINE P == 2^d
           H == 2^(d - 1)
           h == Q \div 2
           E == CompressionError(d)
           M == 2 * P
           eP == e * P
           sum == Q + P
<1>1. P \in Nat \ {0} /\ H \in Nat \ {0} /\ P = 2 * H
  BY Powers
<1>2. M \in Nat \ {0} /\ sum \in Int
  BY <1>1
<1>3. E = sum \div M
  BY DEF CompressionError
<1>4. eP \in Int /\ eP <= h + H /\ h + H - Q - P + 2 <= eP
  BY <1>1
<1>5. h \in Int /\ 2 * h <= Q /\ Q <= 2 * h + 1
  BY HalfQ
<1> HIDE DEF P, H, h, E
<1>6. E \in Int /\ Q + P < E * M + M /\ E * M \in Int /\ E * M <= Q + P
  <2> HIDE DEF M, sum
  <2>1. E \in Int /\ sum < E * M + M /\ E * M \in Int /\ E * M <= sum
    BY <1>2, <1>3, Division
  <2> QED  BY <2>1 DEF sum
<1>7. e * M = 2 * eP /\ (-e) * M = -(2 * eP) /\ (E + 1) * M = E * M + M
  BY <1>1, <1>6
<1> HIDE DEF M, eP
<1>8. e * M < (E + 1) * M /\ (-e) * M < (E + 1) * M
  BY <1>1, <1>2, <1>4, <1>5, <1>6, <1>7
<1>9. e < E + 1 /\ -e < E + 1
  <2>1. E + 1 \in Int /\ -e \in Int
    BY <1>6
  <2> DEFINE E1 == E + 1
             n == -e
  <2> HIDE DEF E1, n
  <2>2. e < E1 /\ n < E1
    BY <1>2, <1>8, <2>1, Cancel DEF E1, n
  <2> QED  BY <2>2 DEF E1, n
<1>10. E \in Nat
  BY <1>6, <1>9
<1> QED  BY <1>6, <1>9, <1>10 DEF E

(* What is decompressed differs from what was compressed by the error, a   *)
(* rounding to the nearest of 2^d steps around the circle.                 *)
LEMMA CompressionNear ==
    ASSUME NEW d \in Widths, NEW x \in Int
    PROVE  /\ Decompress(Compress(x, d), d) \in Int /\ CompressionError(d) \in Nat
           /\ Near(Decompress(Compress(x, d), d), x, CompressionError(d))
<1> USE RankIs
<1> DEFINE P == 2^d
           H == 2^(d - 1)
           h == Q \div 2
           y == x % Q
           j == x \div Q
           n == y * P + h
           c0 == n \div Q
           rem == n % Q
           c == c0 % P
           D == (c * Q + H) \div P
<1>1. P \in Nat \ {0} /\ H \in Nat \ {0} /\ P = 2 * H
  BY Powers
<1>2. h \in Nat /\ 2 * h <= Q /\ Q <= 2 * h + 1
  BY HalfQ
<1>3. j \in Int /\ y \in 0 .. Q - 1 /\ x = Q * j + y
  <2>1. x \div Q \in Int /\ x % Q \in 0 .. Q - 1 /\ x = (x \div Q) * Q + (x % Q)
    BY Division
  <2> QED  BY <2>1
<1> HIDE DEF h, y, j
<1>4. y * P \in Nat /\ y * P <= Q * P - P /\ Q * P \in Nat
  <2>1. Q - 1 - y \in Nat /\ P \in Nat
    BY <1>1, <1>3
  <2> DEFINE gap == Q - 1 - y
  <2>2. gap * P >= 0 /\ y = Q - 1 - gap
    BY <2>1, <1>3
  <2> HIDE DEF P, gap
  <2>3. y * P = Q * P - P - gap * P
    BY <2>1, <2>2 DEF gap
  <2>4. gap * P \in Int /\ Q * P \in Nat /\ y * P \in Nat
    BY <2>1, <1>3 DEF gap
  <2> QED  BY <2>1, <2>2, <2>3, <2>4
<1> HIDE DEF P, H
<1>5. n \in Int
  BY <1>2, <1>4
<1>6. c0 \in Int /\ 0 <= rem /\ rem < Q /\ rem \in Int /\ n = c0 * Q + rem
  <2> HIDE DEF n
  <2> QED  BY <1>5, Division
<1> HIDE DEF c0, rem
<1>7. c0 * Q \in Int /\ P * Q = Q * P
  BY <1>1, <1>6
<1>8. c0 >= 0
  <2>1. (-1) * Q < c0 * Q
    BY <1>2, <1>4, <1>6, <1>7
  <2>2. -1 < c0
    BY <1>6, <2>1, Cancel
  <2> QED  BY <1>6, <2>2
<1>9. c0 <= P
  <2>1. (P + 1) * Q = Q * P + Q
    BY <1>1
  <2>2. c0 * Q < (P + 1) * Q
    BY <1>1, <1>2, <1>4, <1>6, <1>7, <2>1
  <2>3. P + 1 \in Int
    BY <1>1
  <2> DEFINE P1 == P + 1
  <2> HIDE DEF P1
  <2>4. c0 < P1
    BY <1>6, <2>2, <2>3, Cancel DEF P1
  <2> QED  BY <1>1, <1>6, <2>4 DEF P1
<1>10. Compress(x, d) = c /\ Decompress(c, d) = D
  BY DEF Compress, Decompress, c, c0, n, y, h, P, H, D
<1>11. \E e, k \in Int : /\ D \in Int /\ D = y + e + Q * k
                         /\ e * P <= h + H /\ h + H - Q - P + 2 <= e * P
  <2>1. CASE c0 < P
    <3>1. c = c0
      BY <1>1, <1>6, <1>8, <2>1
    <3> DEFINE m == c * Q + H
               s == m % P
    <3>2. m \in Int
      BY <1>1, <1>7, <3>1
    <3>3. D \in Int /\ 0 <= s /\ s < P /\ s \in Int /\ m = D * P + s
      <4>1. D = m \div P
        OBVIOUS
      <4> HIDE DEF m, D
      <4>2. m \div P \in Int /\ m % P \in 0 .. P - 1 /\ m = (m \div P) * P + (m % P)
        BY <1>1, <3>2, Division
      <4> QED  BY <1>1, <4>1, <4>2
    <3>4. m = c0 * Q + H
      BY <3>1
    <3> HIDE DEF D, s, m, n, c
    <3> DEFINE err == D - y
    <3>5. err \in Int /\ err * P = D * P - y * P /\ D * P \in Int
      BY <1>1, <1>3, <3>3
    <3>6. err * P = h + H - rem - s
      BY <1>1, <1>2, <1>4, <1>6, <1>7, <3>3, <3>4, <3>5 DEF n
    <3>7. err * P <= h + H /\ h + H - Q - P + 2 <= err * P
      BY <1>1, <1>2, <1>6, <3>3, <3>6
    <3>8. D = y + err + Q * 0
      BY <1>3, <3>3
    <3> HIDE DEF err
    <3> err \in Int
      BY <3>5
    <3> WITNESS err \in Int, 0 \in Int
    <3> QED  BY <3>3, <3>7, <3>8
  <2>2. CASE c0 = P
    <3>1. c = 0
      BY <1>1, <2>2
    <3>2. D = 0
      <4>1. 0 * Q + H = H /\ 0 * P <= H /\ H < (0 + 1) * P /\ H \in Int
        BY <1>1
      <4>2. H \div P = 0
        BY <1>1, <4>1, Quotient
      <4> QED  BY <3>1, <4>1, <4>2
    <3> HIDE DEF D, c, n
    <3> DEFINE err == Q - y
    <3>3. err \in Int /\ err * P = Q * P - y * P
      BY <1>1, <1>3
    <3>4. err * P = h - rem
      BY <1>2, <1>4, <1>6, <1>7, <2>2, <3>3 DEF n
    <3>5. err * P <= h + H /\ h + H - Q - P + 2 <= err * P
      BY <1>1, <1>2, <1>6, <3>4
    <3>6. D = y + err + Q * (-1) /\ D \in Int
      BY <1>3, <3>2
    <3> HIDE DEF err
    <3> err \in Int
      BY <3>3
    <3> WITNESS err \in Int, -1 \in Int
    <3> QED  BY <3>5, <3>6
  <2> QED  BY <1>1, <1>6, <1>9, <2>1, <2>2
<1>12. PICK e, k \in Int : /\ D \in Int /\ D = y + e + Q * k
                           /\ e * P <= h + H /\ h + H - Q - P + 2 <= e * P
  BY <1>11
<1> DEFINE E == CompressionError(d)
<1>13. E \in Nat /\ -E <= e /\ e <= E
  BY <1>12, ErrorBound DEF P, H, h
<1>14. Q * (k - j) = Q * k - Q * j /\ Q * k \in Int /\ Q * j \in Int /\ k - j \in Int
  BY <1>3
<1> HIDE DEF E, D, c
<1>15. D = x + e + Q * (k - j)
  BY <1>3, <1>12, <1>14
<1>16. Near(D, x, E)
  BY <1>13, <1>14, <1>15 DEF Near
<1> QED  BY <1>10, <1>12, <1>13, <1>16 DEF E

-----------------------------------------------------------------------------
(* Less than a quarter of Q away from the code of a bit, that bit is read. *)
LEMMA ReadsBit ==
    ASSUME NEW x \in Int, NEW bit \in Bits, NEW E \in Nat, E < Q \div 4, Near(x, FromMsg(bit), E)
    PROVE  ToMsg(x) = bit
<1> USE RankIs
<1> DEFINE y == x % Q
           h == Q \div 2
           m == (Q + 1) \div 2
           n == y * 2 + h
<1>1. ToMsg(x) = (n \div Q) % 2
  <2>1. 2^1 = 2
    BY PowerAssumption
  <2> QED  BY <2>1 DEF ToMsg, Compress
<1>2. PICK e, k \in Int : -E <= e /\ e <= E /\ x = FromMsg(bit) + e + Q * k
  BY DEF Near
<1>3. /\ h \in Nat /\ 2 * h <= Q /\ Q <= 2 * h + 1
      /\ m \in Nat /\ Q <= 2 * m /\ 2 * m <= Q + 1
      /\ 4 * E + 4 <= Q
  BY HalfQ
<1>4. FromMsg(bit) = IF bit = 0 THEN 0 ELSE m
  <2>1. 0 * m = 0 /\ 1 * m = m
    BY <1>3
  <2> QED  BY <2>1 DEF FromMsg, Bits
<1>5. ASSUME NEW r \in Int, NEW q \in Int, 0 <= r, r < Q, x = r + Q * q
      PROVE  y = r
  <2>1. q * Q = Q * q /\ (q + 1) * Q = Q * q + Q /\ Q * q \in Int
    OBVIOUS
  <2>2. q * Q <= x /\ x < (q + 1) * Q
    BY <1>5, <2>1
  <2>3. x \div Q = q
    BY <2>2, Quotient
  <2>4. x = (x \div Q) * Q + (x % Q) /\ x % Q \in Int
    BY Division
  <2> QED  BY <1>5, <2>1, <2>3, <2>4
<1>6. ASSUME NEW q \in {0, 1, 2}, y \in Int, q * Q <= n, n < (q + 1) * Q, q % 2 = bit
      PROVE  ToMsg(x) = bit
  <2>1. n \in Int
    BY <1>3, <1>6
  <2> HIDE DEF n
  <2>2. n \div Q = q
    BY <1>6, <2>1, Quotient
  <2> QED  BY <1>1, <1>6, <2>2
<1> HIDE DEF y, h, m
<1>7. CASE bit = 0 /\ e >= 0
  <2>1. y = e
    BY <1>2, <1>3, <1>4, <1>5, <1>7
  <2>2. 0 * Q <= n /\ n < (0 + 1) * Q
    BY <1>2, <1>3, <1>7, <2>1
  <2> QED  BY <1>6, <1>7, <2>1, <2>2
<1>8. CASE bit = 0 /\ e < 0
  <2>1. y = Q + e
    <3>1. Q * (k - 1) = Q * k - Q /\ Q * k \in Int /\ k - 1 \in Int
      OBVIOUS
    <3>2. x = (Q + e) + Q * (k - 1) /\ 0 <= Q + e /\ Q + e < Q /\ Q + e \in Int
      BY <1>2, <1>3, <1>4, <1>8, <3>1
    <3> QED  BY <1>5, <3>1, <3>2
  <2>2. 2 * Q <= n /\ n < (2 + 1) * Q
    BY <1>2, <1>3, <1>8, <2>1
  <2> QED  BY <1>6, <1>8, <2>1, <2>2
<1>9. CASE bit = 1
  <2>1. y = m + e
    <3>1. x = (m + e) + Q * k /\ 0 <= m + e /\ m + e < Q /\ m + e \in Int
      BY <1>2, <1>3, <1>4, <1>9
    <3> QED  BY <1>5, <3>1
  <2>2. 1 * Q <= n /\ n < (1 + 1) * Q
    BY <1>2, <1>3, <2>1
  <2>3. y \in Int
    BY <1>3, <2>1
  <2> QED  BY <1>6, <1>9, <2>2, <2>3
<1> QED  BY <1>7, <1>8, <1>9 DEF Bits

(* What is made of a polynomial by reducing it stays near it. *)
LEMMA ReducedNear == ASSUME NEW x \in Int PROVE (x % Q) \in Int /\ Near(x % Q, x, 0)
<1> USE RankIs
<1>1. x \div Q \in Int /\ x % Q \in 0 .. Q - 1 /\ x = (x \div Q) * Q + (x % Q)
  BY Division
<1> DEFINE j == x \div Q
           r == x % Q
<1>2. Q * (-j) = -(j * Q) /\ j * Q \in Int /\ -j \in Int
  BY <1>1
<1>3. r = x + 0 + Q * (-j) /\ r \in Int
  BY <1>1, <1>2
<1> HIDE DEF j, r
<1>4. Near(r, x, 0)
  <2> SUFFICES \E e, k \in Int : -0 <= e /\ e <= 0 /\ r = x + e + Q * k
    BY DEF Near
  <2> -j \in Int
    BY <1>2
  <2> WITNESS 0 \in Int, -j \in Int
  <2> QED  BY <1>3
<1> QED  BY <1>3, <1>4 DEF r

LEMMA NearDown ==
    ASSUME NEW a \in Int, NEW b \in Int, NEW E \in Nat, NEW F \in Nat, Near(a, b, E), E <= F
    PROVE  Near(a, b, F)
<1>1. PICK e, k \in Int : -E <= e /\ e <= E /\ a = b + e + Q * k
  BY DEF Near
<1>2. -F <= e /\ e <= F
  BY <1>1
<1> QED  BY <1>1, <1>2 DEF Near

(* Decryption is right.  What it reads is the message but for the product  *)
(* of the secrets with the errors of the other side's vector, on both      *)
(* sides, the noise of v and the compression of v; r A s is on both sides. *)
LEMMA DecryptsRight ==
    ASSUME variant \in Variants, NEW u, NEW A \in Matrices, NEW kn \in KeyNoise,
           NEW bit \in Bits, NEW cn \in CoinNoise
    PROVE  LET k == KeyPair(u, A, kn)
           IN  Decrypt(k.s, Encrypt(k.pk, A, bit, cn)) = bit
<1> USE RankIs
<1> DEFINE s == [i \in Rank |-> kn[i - 1]]
           r == [i \in Rank |-> cn[i - 1]]
           B == EncryptionMatrix(A)
           As == Times(A, s)
           Br == Times(B, r)
           t == [i \in Rank |-> (As[i] + kn[K + i - 1]) % Q]
           pk == KeyPair(u, A, kn).pk
           p == PublicVector(pk)
           b == [i \in Rank |-> Br[i] + cn[K + i - 1]]
           v == Dot(p, r) + cn[2 * K] + Sign * FromMsg(bit)
           c == [i \in Rank |-> Decompress(Compress(b[i], DU), DU)]
           w == Decompress(Compress(v, DV), DV)
           ET == CompressionError(DT)
           EU == CompressionError(DU)
           EV == CompressionError(DV)
           F == Eta * (Eta + ET)
           G == Eta * (Eta + EU)
<1>1. /\ A \in Matrix /\ B \in Matrix /\ B = Transpose(A)
      /\ kn \in [0 .. 2 * K - 1 -> Noise] /\ cn \in [0 .. 2 * K -> Noise]
  BY RingAssumption DEF Matrix, Vectors, EncryptionMatrix, Transpose
<1>2. s \in [Rank -> Noise] /\ r \in [Rank -> Noise] /\ s \in Vectors /\ r \in Vectors
  BY <1>1 DEF Noise, Rank, Vectors
<1>3. As \in Vectors /\ Br \in Vectors
  BY <1>1, <1>2, TimesIs
<1>4. DT \in Widths /\ DU \in Widths /\ DV \in Widths
  BY DEF Widths
<1>5. ET \in Nat /\ EU \in Nat /\ EV \in Nat
  BY <1>4, CompressionNear
<1>6. Dot(r, As) = Dot(s, Br)
  BY <1>1, <1>2, MatrixMoves
<1>7. Decrypt(KeyPair(u, A, kn).s, Encrypt(pk, A, bit, cn)) = ToMsg(Sign * (w - Dot(s, c)))
  BY DEF Decrypt, Encrypt, KeyPair
<1>8. pk.t = IF variant = "aigis" THEN [i \in Rank |-> Compress(t[i], DT)] ELSE t
  BY DEF KeyPair
<1>9. p = IF variant = "aigis" THEN [i \in Rank |-> Decompress(Compress(t[i], DT), DT)] ELSE t
  BY <1>8 DEF PublicVector
<1> HIDE DEF pk, B, As, Br, s, r, ET, EU, EV
<1>10. ASSUME NEW i \in Rank PROVE p[i] \in Int /\ Near(p[i], As[i], Eta + ET)
  <2> DEFINE n == kn[K + i - 1]
             a == As[i]
             sum == a + n
  <2>1. n \in Int /\ -Eta <= n /\ n <= Eta
    BY <1>1 DEF Rank, Noise
  <2>2. a \in Int /\ sum \in Int
    BY <1>3, <2>1 DEF Vectors
  <2>3. t[i] = sum % Q
    OBVIOUS
  <2>4. Near(sum, a, Eta)
    BY <2>1, <2>2, NearAdded
  <2> HIDE DEF n, a, sum, p, t
  <2>5. t[i] \in Int /\ Near(t[i], sum, 0)
    BY <2>2, <2>3, ReducedNear
  <2>6. Near(t[i], a, Eta)
    <3>1. Near(t[i], a, 0 + Eta)
      BY <2>2, <2>4, <2>5, NearTransitive
    <3> QED  BY <3>1
  <2>7. CASE variant = "aigis"
    <3>1. p[i] = Decompress(Compress(t[i], DT), DT)
      BY <1>9, <2>7
    <3>2. p[i] \in Int /\ Near(p[i], t[i], ET)
      BY <1>4, <2>5, <3>1, CompressionNear DEF ET
    <3>3. Near(p[i], a, ET + Eta)
      BY <1>5, <2>2, <2>5, <2>6, <3>2, NearTransitive
    <3>4. ET + Eta = Eta + ET
      BY <1>5
    <3> QED  BY <3>2, <3>3, <3>4 DEF a
  <2>8. CASE variant # "aigis"
    <3>1. p[i] = t[i]
      BY <1>9, <2>8
    <3>2. Eta + ET \in Nat /\ Eta <= Eta + ET
      BY <1>5
    <3> DEFINE S == Eta + ET
    <3> HIDE DEF S
    <3>3. Near(p[i], a, S)
      BY <2>2, <2>5, <2>6, <3>1, <3>2, NearDown DEF S
    <3> QED  BY <2>5, <3>1, <3>3 DEF S, a
  <2> QED  BY <2>7, <2>8
<1>11. p \in Vectors
  <2>1. p = [i \in Rank |-> p[i]]
    BY <1>9
  <2> HIDE DEF p
  <2> QED  BY <1>10, <2>1 DEF Vectors
<1>12. ASSUME NEW i \in Rank PROVE c[i] \in Int /\ Near(c[i], Br[i], Eta + EU)
  <2> DEFINE n == cn[K + i - 1]
             a == Br[i]
             sum == a + n
  <2>1. n \in Int /\ -Eta <= n /\ n <= Eta
    BY <1>1 DEF Rank, Noise
  <2>2. a \in Int /\ sum \in Int
    BY <1>3, <2>1 DEF Vectors
  <2>3. c[i] = Decompress(Compress(sum, DU), DU)
    OBVIOUS
  <2>4. Near(sum, a, Eta)
    BY <2>1, <2>2, NearAdded
  <2> HIDE DEF n, a, sum, c
  <2>5. c[i] \in Int /\ Near(c[i], sum, EU)
    BY <1>4, <2>2, <2>3, CompressionNear DEF EU
  <2>6. Near(c[i], a, EU + Eta)
    BY <1>5, <2>2, <2>4, <2>5, NearTransitive
  <2>7. EU + Eta = Eta + EU
    BY <1>5
  <2> QED  BY <2>5, <2>6, <2>7 DEF a
<1>13. c \in Vectors
  BY <1>12 DEF Vectors
<1> HIDE DEF p, c
<1>14. F \in Nat /\ G \in Nat /\ K * F \in Nat /\ K * G \in Nat
  BY <1>5
<1>15. Near(Dot(r, p), Dot(r, As), K * F)
  <2>1. Eta + ET \in Nat
    BY <1>5
  <2> DEFINE E == Eta + ET
  <2> HIDE DEF E
  <2>2. Near(Dot(r, p), Dot(r, As), K * (Eta * E))
    BY <1>2, <1>3, <1>10, <1>11, <2>1, DotNear DEF E
  <2> QED  BY <2>2 DEF E
<1>16. Near(Dot(s, c), Dot(s, Br), K * G)
  <2>1. Eta + EU \in Nat
    BY <1>5
  <2> DEFINE E == Eta + EU
  <2> HIDE DEF E
  <2>2. Near(Dot(s, c), Dot(s, Br), K * (Eta * E))
    BY <1>2, <1>3, <1>12, <1>13, <2>1, DotNear DEF E
  <2> QED  BY <2>2 DEF E
<1> DEFINE KF == K * F
           KG == K * G
           d == Dot(r, p)
           e == Dot(r, As)
           f == Dot(s, c)
           n == cn[2 * K]
           msg == FromMsg(bit)
           m == Sign * msg
<1>17. d \in Int /\ e \in Int /\ f \in Int /\ Dot(p, r) = d
  BY <1>2, <1>3, <1>11, <1>13, DotSums, DotCommutes
<1>18. n \in Int /\ -Eta <= n /\ n <= Eta
  BY <1>1 DEF Noise
<1>19. msg \in Int /\ m \in Int /\ Sign * m = msg /\ Sign \in {1, -1}
  <2>1. msg \in Int
    BY HalfQ DEF FromMsg, Bits
  <2> HIDE DEF msg
  <2> QED  BY <2>1 DEF Sign
<1>20. v = d + n + m
  BY <1>17
<1>21. KF + Eta + EV + KG \in Nat /\ KF + Eta + EV + KG < Q \div 4 /\ KF \in Nat /\ KG \in Nat
  <2>1. KF + KG + Eta + EV < Q \div 4
    BY CorrectnessAssumption DEF ET, EU, EV
  <2> HIDE DEF F, G
  <2> QED  BY <1>5, <1>14, <2>1, HalfQ
<1>22. Near(d, e, KF) /\ Near(f, e, KG)
  BY <1>6, <1>15, <1>16
<1> HIDE DEF F, G, KF, KG, d, e, f, n, msg, m, v
<1>23. w \in Int /\ Near(w, v, EV)
  <2>1. v \in Int
    BY <1>17, <1>18, <1>19, <1>20
  <2> QED  BY <1>4, <2>1, CompressionNear DEF EV
<1> HIDE DEF w
<1> DEFINE nm == n + m
           em == e + m
           neg == -f
           x == w + neg
           E1 == KF + Eta
           E2 == EV + E1
           E3 == E2 + KG
<1>24. Near(v, em, E1) /\ em \in Int /\ v \in Int
  <2>1. nm \in Int /\ v = d + nm
    BY <1>17, <1>18, <1>19, <1>20
  <2>2. nm = m + n
    BY <1>18, <1>19
  <2> HIDE DEF nm
  <2>3. Near(nm, m, Eta)
    BY <1>18, <1>19, <2>2, NearAdded
  <2> QED  BY <1>17, <1>19, <1>21, <1>22, <2>1, <2>3, NearSum
<1> HIDE DEF em, E1
<1>25. Near(w, em, E2)
  <2>1. E1 \in Nat
    BY <1>21 DEF E1
  <2> QED  BY <1>5, <1>23, <1>24, <2>1, NearTransitive
<1>26. Near(neg, -e, KG) /\ neg \in Int /\ -e \in Int
  BY <1>17, <1>21, <1>22, NearNegative
<1> DEFINE ne == -e
<1> HIDE DEF neg, E2, ne
<1>27. Near(x, em + ne, E3)
  <2>1. E2 \in Nat /\ ne \in Int /\ Near(neg, ne, KG)
    BY <1>5, <1>21, <1>26 DEF E1, E2, ne
  <2> QED  BY <1>21, <1>23, <1>24, <1>25, <1>26, <2>1, NearSum
<1>28. em + ne = m /\ x = w - f /\ x \in Int
  BY <1>17, <1>19, <1>23, <1>26 DEF em, ne, neg
<1>29. E3 \in Nat /\ E3 < Q \div 4
  BY <1>5, <1>21 DEF E1, E2
<1> HIDE DEF E3, x
<1>30. Near(x, m, E3)
  BY <1>27, <1>28
<1>31. Near(Sign * x, msg, E3) /\ Sign * x \in Int
  <2>1. CASE Sign = 1
    <3>1. Sign * x = x /\ msg = m
      BY <1>19, <1>28, <2>1
    <3> QED  BY <1>28, <1>30, <3>1
  <2>2. CASE Sign = -1
    <3>1. Sign * x = -x /\ msg = -m /\ -x \in Int
      BY <1>19, <1>28, <2>2
    <3>2. Near(-x, -m, E3)
      BY <1>19, <1>28, <1>29, <1>30, NearNegative
    <3> QED  BY <3>1, <3>2
  <2> QED  BY <1>19, <2>1, <2>2
<1>32. ToMsg(Sign * x) = bit
  BY <1>29, <1>31, ReadsBit DEF msg
<1> QED  BY <1>7, <1>28, <1>32 DEF pk, f

-----------------------------------------------------------------------------
(* The bit that u reads in a ciphertext, and the key that it stands for:   *)
(* it depends on the noise that was drawn for that bit, and on no call.    *)
BitFor(u, ct) == Decrypt(sk[u].s, ct)
CoinsFor(u, ct) == coins[<<u, BitFor(u, ct)>>]
Honest(u, ct) == ct = Encrypt(sk[u].pk, matrix[u], BitFor(u, ct), CoinsFor(u, ct))

KeyFor(u, ct) ==
    IF Honest(u, ct) THEN SharedKey(BitFor(u, ct), sk[u].h, ct) ELSE RejectKey(sk[u].z, sk[u].h, ct)

(* The noise is drawn already, and the key is the one it determines.       *)
Settled(u, ct, key) ==
    /\ u \in Users
    /\ <<u, BitFor(u, ct)>> \in DOMAIN coins
    /\ key = KeyFor(u, ct)

KeysInv ==
    /\ variant \in Variants
    /\ matrix \in [Users -> Matrices]
    /\ \A u \in Users : \E noise \in KeyNoise : sk[u] = KeyPair(u, matrix[u], noise)
    /\ \A x \in DOMAIN coins : coins[x] \in CoinNoise

Inv == KeysInv /\ \A a \in known : Settled(a.user, a.ct, a.key)

LEMMA StartsInv == Init => Inv
<1> SUFFICES ASSUME Init PROVE Inv
  OBVIOUS
<1>1. PICK noise \in [Users -> KeyNoise] : sk = [u \in Users |-> KeyPair(u, matrix[u], noise[u])]
  BY DEF Init
<1>2. \A u \in Users : sk[u] = KeyPair(u, matrix[u], noise[u]) /\ noise[u] \in KeyNoise
  BY <1>1
<1>3. \A u \in Users : \E n \in KeyNoise : sk[u] = KeyPair(u, matrix[u], n)
  BY <1>2
<1>4. DOMAIN coins = {} /\ known = {}
  BY DEF Init
<1> QED  BY <1>3, <1>4 DEF Init, Inv, KeysInv

(* Whose key pair it is can be seen in each of its parts. *)
LEMMA PartsOf ==
    ASSUME KeysInv, NEW u \in Users
    PROVE  /\ sk[u].h = <<"H", sk[u].pk>> /\ sk[u].pk.seed = u /\ sk[u].z = <<"z", u>>
<1>1. PICK noise \in KeyNoise : sk[u] = KeyPair(u, matrix[u], noise)
  BY DEF KeysInv
<1> DEFINE k == KeyPair(u, matrix[u], noise)
<1>2. k.h = <<"H", k.pk>> /\ k.z = <<"z", u>>
  BY DEF KeyPair
<1>3. k.pk.seed = u
  BY DEF KeyPair
<1> HIDE DEF k
<1>4. sk[u] = k
  BY <1>1 DEF k
<1> QED  BY <1>2, <1>3, <1>4

(* A hash of two, three or four parts shows them. *)
LEMMA Pairs ==
    ASSUME NEW a, NEW b, NEW c, NEW d, <<a, b>> = <<c, d>>
    PROVE  a = c /\ b = d
<1>1. <<a, b>>[1] = a /\ <<c, d>>[1] = c /\ <<a, b>>[2] = b /\ <<c, d>>[2] = d
  OBVIOUS
<1> QED  BY <1>1

LEMMA Triples ==
    ASSUME NEW a, NEW b, NEW c, NEW d, NEW e, NEW f, <<a, b, c>> = <<d, e, f>>
    PROVE  a = d /\ b = e /\ c = f
<1>1. /\ <<a, b, c>>[1] = a /\ <<a, b, c>>[2] = b /\ <<a, b, c>>[3] = c
      /\ <<d, e, f>>[1] = d /\ <<d, e, f>>[2] = e /\ <<d, e, f>>[3] = f
  OBVIOUS
<1> QED  BY <1>1

LEMMA Quadruples ==
    ASSUME NEW a, NEW b, NEW c, NEW d, NEW e, NEW f, NEW g, NEW h,
           <<a, b, c, d>> = <<e, f, g, h>>
    PROVE  a = e /\ b = f /\ c = g /\ d = h
<1>1. /\ <<a, b, c, d>>[1] = a /\ <<a, b, c, d>>[2] = b /\ <<a, b, c, d>>[3] = c /\ <<a, b, c, d>>[4] = d
      /\ <<e, f, g, h>>[1] = e /\ <<e, f, g, h>>[2] = f /\ <<e, f, g, h>>[3] = g /\ <<e, f, g, h>>[4] = h
  OBVIOUS
<1> QED  BY <1>1

(* Two and three parts are never the same hash if they begin differently.  *)
LEMMA PairIsNoTriple ==
    ASSUME NEW a, NEW b, NEW c, NEW d, NEW e, a # c
    PROVE  <<a, b>> # <<c, d, e>>
<1>1. <<a, b>>[1] = a /\ <<c, d, e>>[1] = c
  OBVIOUS
<1> QED  BY <1>1

(* A recipient is known by the hash of the public key. *)
LEMMA HashOfUser ==
    ASSUME KeysInv, NEW u \in Users, NEW w \in Users, sk[u].h = sk[w].h
    PROVE  u = w
<1>1. sk[u].pk = sk[w].pk
  BY PartsOf, Pairs
<1> QED  BY <1>1, PartsOf

LEMMA SeedOfUser ==
    ASSUME KeysInv, NEW u \in Users, NEW w \in Users, sk[u].z = sk[w].z
    PROVE  u = w
  BY PartsOf, Pairs

(* The key of an honest ciphertext shows the bit and the recipient; in     *)
(* ML-KEM these determine the ciphertext.                                  *)
LEMMA SharedShows ==
    ASSUME KeysInv, NEW u \in Users, NEW w \in Users, NEW b, NEW c, NEW x, NEW y,
           SharedKey(b, sk[u].h, x) = SharedKey(c, sk[w].h, y)
    PROVE  u = w /\ b = c /\ (variant # "ml_kem" => x = y)
<1>1. variant \in {"ml_kem", "kyber", "aigis"}
  BY RingAssumption DEF KeysInv
<1> DEFINE h == sk[u].h
           k == sk[w].h
<1>2. ASSUME PreKey(b, h) = PreKey(c, k) PROVE b = c /\ u = w
  <2>1. << <<"m", b>>, h >> = << <<"m", c>>, k >>
    BY <1>2, Pairs DEF PreKey, Buf
  <2>2. <<"m", b>> = <<"m", c>> /\ h = k
    BY <2>1, Pairs
  <2>3. b = c
    BY <2>2, Pairs
  <2> QED  BY <2>2, <2>3, HashOfUser
<1>3. CASE variant = "ml_kem"
  BY <1>2, <1>3 DEF SharedKey, MLKEMKey
<1>4. CASE variant = "kyber"
  <2>1. <<"kdf", PreKey(b, h), <<"H", x>> >> = <<"kdf", PreKey(c, k), <<"H", y>> >>
    BY <1>4 DEF SharedKey, KyberKey, KyberKdf
  <2>2. PreKey(b, h) = PreKey(c, k) /\ <<"H", x>> = <<"H", y>>
    BY <2>1, Triples
  <2>3. x = y
    BY <2>2, Pairs
  <2> QED  BY <1>2, <2>2, <2>3
<1>5. CASE variant = "aigis"
  <2>1. <<"Hash", Buf(b, h)[1], Buf(b, h)[2], <<"H", x>> >>
            = <<"Hash", Buf(c, k)[1], Buf(c, k)[2], <<"H", y>> >>
    BY <1>5 DEF SharedKey, AigisKey, AigisHash
  <2>2. /\ Buf(b, h)[1] = Buf(c, k)[1] /\ Buf(b, h)[2] = Buf(c, k)[2] /\ <<"H", x>> = <<"H", y>>
    BY <2>1, Quadruples
  <2>3. <<"m", b>> = <<"m", c>> /\ h = k
    BY <2>2 DEF Buf
  <2>4. b = c /\ x = y
    BY <2>2, <2>3, Pairs
  <2> QED  BY <2>3, <2>4, HashOfUser
<1> QED  BY <1>1, <1>3, <1>4, <1>5

LEMMA RejectShows ==
    ASSUME KeysInv, NEW u \in Users, NEW w \in Users, NEW x, NEW y,
           RejectKey(sk[u].z, sk[u].h, x) = RejectKey(sk[w].z, sk[w].h, y)
    PROVE  u = w /\ x = y
<1>1. variant \in {"ml_kem", "kyber", "aigis"}
  BY RingAssumption DEF KeysInv
<1>2. CASE variant = "ml_kem"
  <2>1. <<"rkprf", sk[u].z, x>> = <<"rkprf", sk[w].z, y>>
    BY <1>2 DEF RejectKey, MLKEMReject
  <2>2. sk[u].z = sk[w].z /\ x = y
    BY <2>1, Triples
  <2> QED  BY <2>2, SeedOfUser
<1>3. CASE variant = "kyber"
  <2>1. <<"kdf", sk[u].z, <<"H", x>> >> = <<"kdf", sk[w].z, <<"H", y>> >>
    BY <1>3 DEF RejectKey, KyberReject, KyberKdf
  <2>2. sk[u].z = sk[w].z /\ <<"H", x>> = <<"H", y>>
    BY <2>1, Triples
  <2> QED  BY <2>2, Pairs, SeedOfUser
<1>4. CASE variant = "aigis"
  <2>1. <<"Hash", sk[u].z, sk[u].h, <<"H", x>> >> = <<"Hash", sk[w].z, sk[w].h, <<"H", y>> >>
    BY <1>4 DEF RejectKey, AigisReject, AigisHash
  <2>2. sk[u].z = sk[w].z /\ <<"H", x>> = <<"H", y>>
    BY <2>1, Quadruples
  <2> QED  BY <2>2, Pairs, SeedOfUser
<1> QED  BY <1>1, <1>2, <1>3, <1>4

(* No key is given for an honest ciphertext and for another one. *)
LEMMA SharedIsNotReject ==
    ASSUME KeysInv, NEW u \in Users, NEW w \in Users, NEW b, NEW x, NEW y
    PROVE  SharedKey(b, sk[u].h, x) # RejectKey(sk[w].z, sk[w].h, y)
<1>1. variant \in {"ml_kem", "kyber", "aigis"}
  BY RingAssumption DEF KeysInv
<1>2. sk[w].z = <<"z", w>>
  BY PartsOf
<1> SUFFICES ASSUME SharedKey(b, sk[u].h, x) = RejectKey(sk[w].z, sk[w].h, y) PROVE FALSE
  OBVIOUS
<1>3. CASE variant = "ml_kem"
  <2>1. <<"G", Buf(b, sk[u].h)>> = <<"rkprf", sk[w].z, y>>
    BY <1>3 DEF SharedKey, RejectKey, MLKEMKey, MLKEMReject, PreKey
  <2>2. "G" # "rkprf"
    OBVIOUS
  <2> QED  BY <2>1, <2>2, PairIsNoTriple
<1>4. CASE variant = "kyber"
  <2>1. <<"kdf", <<"G", Buf(b, sk[u].h)>>, <<"H", x>> >> = <<"kdf", <<"z", w>>, <<"H", y>> >>
    BY <1>2, <1>4 DEF SharedKey, RejectKey, KyberKey, KyberReject, KyberKdf, PreKey
  <2>2. <<"G", Buf(b, sk[u].h)>> = <<"z", w>>
    BY <2>1, Triples
  <2>3. "G" = "z"
    BY <2>2, Pairs
  <2> QED  BY <2>3
<1>5. CASE variant = "aigis"
  <2>1. <<"Hash", Buf(b, sk[u].h)[1], Buf(b, sk[u].h)[2], <<"H", x>> >>
            = <<"Hash", <<"z", w>>, sk[w].h, <<"H", y>> >>
    BY <1>2, <1>5 DEF SharedKey, RejectKey, AigisKey, AigisReject, AigisHash
  <2>2. Buf(b, sk[u].h)[1] = <<"z", w>>
    BY <2>1, Quadruples
  <2>3. <<"m", b>> = <<"z", w>>
    BY <2>2 DEF Buf
  <2>4. "m" = "z"
    BY <2>3, Pairs
  <2> QED  BY <2>4
<1> QED  BY <1>1, <1>3, <1>4, <1>5

(* A key shows the recipient and the ciphertext it stands for.  In ML-KEM  *)
(* the key of an honest one does not contain it, but re-encryption makes   *)
(* it the only ciphertext of its bit.                                      *)
NamesKey ==
    \A u, w \in Users : \A x, y : KeyFor(u, x) = KeyFor(w, y) => u = w /\ x = y

LEMMA KeyShows == KeysInv => NamesKey
<1> SUFFICES ASSUME KeysInv, NEW u \in Users, NEW w \in Users, NEW x, NEW y,
                    KeyFor(u, x) = KeyFor(w, y)
             PROVE  u = w /\ x = y
  BY DEF NamesKey
<1>1. CASE Honest(u, x) /\ Honest(w, y)
  <2>1. SharedKey(BitFor(u, x), sk[u].h, x) = SharedKey(BitFor(w, y), sk[w].h, y)
    BY <1>1 DEF KeyFor
  <2>2. u = w /\ BitFor(u, x) = BitFor(w, y)
    BY <2>1, SharedShows
  <2> QED  BY <1>1, <2>2 DEF Honest, CoinsFor
<1>2. CASE ~Honest(u, x) /\ ~Honest(w, y)
  BY <1>2, RejectShows DEF KeyFor
<1>3. CASE Honest(u, x) /\ ~Honest(w, y)
  BY <1>3, SharedIsNotReject DEF KeyFor
<1>4. CASE ~Honest(u, x) /\ Honest(w, y)
  <2>1. SharedKey(BitFor(w, y), sk[w].h, y) = RejectKey(sk[u].z, sk[u].h, x)
    BY <1>4 DEF KeyFor
  <2> QED  BY <2>1, SharedIsNotReject
<1> QED  BY <1>1, <1>2, <1>3, <1>4

(* It does so after a step as well. *)
LEMMA KeyShowsAgain == KeysInv' => NamesKey'
  BY KeyShows, PTL

(* Noise that is drawn stays as it was, and what was settled stays so.     *)
LEMMA DrawnKeeps ==
    ASSUME Inv, NEW u, NEW bit, NEW noise \in CoinNoise, Drawn(u, bit, noise),
           UNCHANGED <<variant, matrix, sk>>
    PROVE  /\ KeysInv'
           /\ <<u, bit>> \in DOMAIN coins' /\ coins'[<<u, bit>>] = noise
           /\ \A a \in known : Settled(a.user, a.ct, a.key)'
<1>1. /\ coins' = [x \in DOMAIN coins \cup {<<u, bit>>} |-> IF x = <<u, bit>> THEN noise ELSE coins[x]]
      /\ <<u, bit>> \in DOMAIN coins => noise = coins[<<u, bit>>]
  BY DEF Drawn
<1> DEFINE q == <<u, bit>>
<1> HIDE DEF q
<1>2. q \in DOMAIN coins' /\ coins'[q] = noise
  BY <1>1 DEF q
<1>3. ASSUME NEW x \in DOMAIN coins PROVE x \in DOMAIN coins' /\ coins'[x] = coins[x]
  BY <1>1, <1>3 DEF q
<1>4. \A x \in DOMAIN coins' : coins'[x] \in CoinNoise
  <2>1. DOMAIN coins' = DOMAIN coins \cup {q}
    BY <1>1 DEF q
  <2> QED  BY <1>2, <1>3, <2>1 DEF Inv, KeysInv
<1>5. KeysInv'
  BY <1>4 DEF Inv, KeysInv, KeyPair
<1>6. ASSUME NEW a \in known PROVE Settled(a.user, a.ct, a.key)'
  <2>1. Settled(a.user, a.ct, a.key)
    BY DEF Inv
  <2>2. BitFor(a.user, a.ct)' = BitFor(a.user, a.ct)
    BY DEF BitFor, Decrypt, Sign
  <2>3. CoinsFor(a.user, a.ct)' = CoinsFor(a.user, a.ct)
    BY <1>3, <2>1, <2>2 DEF CoinsFor, Settled
  <2>4. Honest(a.user, a.ct)' = Honest(a.user, a.ct)
    BY <2>2, <2>3 DEF Honest, Encrypt, PublicVector, Sign
  <2>5. KeyFor(a.user, a.ct)' = KeyFor(a.user, a.ct)
    BY <2>2, <2>4 DEF KeyFor, SharedKey, RejectKey
  <2> QED  BY <1>3, <2>1, <2>2, <2>5 DEF Settled
<1> QED  BY <1>2, <1>5, <1>6 DEF q

(* Both calls return the key that the ciphertext stands for. *)
LEMMA CallSettles ==
    ASSUME Inv, NEW u \in Users, (\E bit \in Bits : Encapsulate(u, bit)) \/ \E ct : Decapsulate(u, ct)
    PROVE  Inv' /\ known' = known \cup {answer'} /\ Settled(answer.user, answer.ct, answer.key)'
<1>1. ASSUME NEW bit, NEW noise \in CoinNoise, NEW ct, NEW key, Drawn(u, bit, noise),
             UNCHANGED <<variant, matrix, sk>>, Return(u, ct, key),
             KeysInv' => bit = BitFor(u, ct)' /\ key = KeyFor(u, ct)'
      PROVE  Inv' /\ known' = known \cup {answer'} /\ Settled(answer.user, answer.ct, answer.key)'
  <2>1. /\ KeysInv' /\ <<u, bit>> \in DOMAIN coins'
        /\ \A a \in known : Settled(a.user, a.ct, a.key)'
    BY <1>1, DrawnKeeps
  <2>2. Settled(u, ct, key)'
    BY <1>1, <2>1 DEF Settled
  <2>3. answer' = [user |-> u, ct |-> ct, key |-> key] /\ known' = known \cup {answer'}
    BY <1>1 DEF Return
  <2>4. answer'.user = u /\ answer'.ct = ct /\ answer'.key = key
    BY <2>3
  <2>5. Settled(answer.user, answer.ct, answer.key)'
    BY <2>2, <2>4 DEF Settled, KeyFor, Honest, BitFor, CoinsFor
  <2> QED  BY <2>1, <2>3, <2>5 DEF Inv
<1>2. ASSUME NEW bit \in Bits, Encapsulate(u, bit)
      PROVE  Inv' /\ known' = known \cup {answer'} /\ Settled(answer.user, answer.ct, answer.key)'
  <2> DEFINE ct(n) == Encrypt(sk[u].pk, matrix[u], bit, n)
  <2>1. PICK noise \in CoinNoise :
            Drawn(u, bit, noise) /\ Return(u, ct(noise), SharedKey(bit, sk[u].h, ct(noise)))
    BY <1>2 DEF Encapsulate
  <2>2. UNCHANGED <<variant, matrix, sk>>
    BY <1>2 DEF Encapsulate
  <2>3. coins'[<<u, bit>>] = noise
    BY <2>1, <2>2, DrawnKeeps
  <2>4. BitFor(u, ct(noise)) = bit
    <3>1. PICK kn \in KeyNoise : sk[u] = KeyPair(u, matrix[u], kn)
      BY DEF Inv, KeysInv
    <3>2. variant \in Variants /\ matrix[u] \in Matrices
      BY DEF Inv, KeysInv
    <3> QED  BY <3>1, <3>2, DecryptsRight DEF BitFor
  <2>5. PICK x : x = ct(noise)
    OBVIOUS
  <2>6. BitFor(u, x)' = bit
    BY <2>2, <2>4, <2>5 DEF BitFor, Decrypt, Sign
  <2>7. CoinsFor(u, x)' = noise
    BY <2>3, <2>6 DEF CoinsFor
  <2>8. Honest(u, x)'
    BY <2>2, <2>5, <2>6, <2>7 DEF Honest, Encrypt, PublicVector, Sign
  <2>9. KeyFor(u, x)' = SharedKey(bit, sk[u].h, x)
    BY <2>2, <2>6, <2>8 DEF KeyFor, SharedKey
  <2>10. PICK key : key = SharedKey(bit, sk[u].h, x)
    OBVIOUS
  <2>11. Return(u, x, key)
    BY <2>1, <2>5, <2>10
  <2> QED  BY <1>1, <2>1, <2>2, <2>6, <2>9, <2>10, <2>11
<1>3. ASSUME NEW ct, Decapsulate(u, ct)
      PROVE  Inv' /\ known' = known \cup {answer'} /\ Settled(answer.user, answer.ct, answer.key)'
  <2>1. PICK bit : bit = BitFor(u, ct)
    OBVIOUS
  <2> DEFINE Key(n) == IF ct # Encrypt(sk[u].pk, matrix[u], bit, n)
                       THEN RejectKey(sk[u].z, sk[u].h, ct) ELSE SharedKey(bit, sk[u].h, ct)
  <2>2. PICK noise \in CoinNoise : Drawn(u, bit, noise) /\ Return(u, ct, Key(noise))
    BY <1>3, <2>1 DEF Decapsulate, BitFor
  <2>3. UNCHANGED <<variant, matrix, sk>>
    BY <1>3 DEF Decapsulate
  <2>4. coins'[<<u, bit>>] = noise
    BY <2>2, <2>3, DrawnKeeps
  <2>5. BitFor(u, ct)' = bit
    BY <2>1, <2>3 DEF BitFor, Decrypt, Sign
  <2>6. CoinsFor(u, ct)' = noise
    BY <2>4, <2>5 DEF CoinsFor
  <2>7. Honest(u, ct)' <=> ct = Encrypt(sk[u].pk, matrix[u], bit, noise)
    BY <2>3, <2>5, <2>6 DEF Honest, Encrypt, PublicVector, Sign
  <2>8. PICK key : key = Key(noise)
    OBVIOUS
  <2>9. KeyFor(u, ct)' = key
    <3>1. CASE Honest(u, ct)'
      <4>1. KeyFor(u, ct)' = SharedKey(bit, sk[u].h, ct)
        BY <2>3, <2>5, <3>1 DEF KeyFor, SharedKey
      <4> QED  BY <2>7, <2>8, <3>1, <4>1
    <3>2. CASE ~Honest(u, ct)'
      <4>1. KeyFor(u, ct)' = RejectKey(sk[u].z, sk[u].h, ct)
        BY <2>3, <3>2 DEF KeyFor, RejectKey
      <4> QED  BY <2>7, <2>8, <3>2, <4>1
    <3> QED  BY <3>1, <3>2
  <2>10. Return(u, ct, key)
    BY <2>2, <2>8
  <2> QED  BY <1>1, <2>2, <2>3, <2>5, <2>9, <2>10
<1> QED  BY <1>2, <1>3

LEMMA InvStep == Inv /\ [Next]_vars => Inv'
<1> SUFFICES ASSUME Inv, [Next]_vars PROVE Inv'
  OBVIOUS
<1>1. CASE Next
  BY <1>1, CallSettles DEF Next
<1>2. CASE UNCHANGED vars
  <2> USE <1>2 DEF vars
  <2>1. KeysInv'
    BY DEF Inv, KeysInv, KeyPair
  <2>2. ASSUME NEW a \in known PROVE Settled(a.user, a.ct, a.key)'
    <3>1. Settled(a.user, a.ct, a.key)
      BY DEF Inv
    <3>2. BitFor(a.user, a.ct)' = BitFor(a.user, a.ct)
      BY DEF BitFor, Decrypt, Sign
    <3>3. Honest(a.user, a.ct)' = Honest(a.user, a.ct)
      BY <3>2 DEF Honest, CoinsFor, Encrypt, PublicVector, Sign
    <3>4. KeyFor(a.user, a.ct)' = KeyFor(a.user, a.ct)
      BY <3>2, <3>3 DEF KeyFor, SharedKey, RejectKey
    <3> QED  BY <3>1, <3>2, <3>4 DEF Settled
  <2> QED  BY <2>1, <2>2 DEF Inv
<1> QED  BY <1>1, <1>2

(* Every call of crypto_kem_enc and crypto_kem_dec is an answer of the     *)
(* ideal KEM: a question asked before has the key it had, and any other    *)
(* one a key that is new.                                                  *)
LEMMA CallIsAnswer ==
    ASSUME Inv, Inv', Next PROVE Ideal!Answer
<1>1. PICK u \in Users : (\E bit \in Bits : Encapsulate(u, bit)) \/ \E ct : Decapsulate(u, ct)
  BY DEF Next
<1>2. known' = known \cup {answer'} /\ Settled(answer.user, answer.ct, answer.key)'
  BY <1>1, CallSettles
<1>3. ASSUME NEW a \in known PROVE Ideal!SameQuestion(a, answer') <=> a.key = answer'.key
  <2>1. a \in known' /\ KeysInv'
    BY <1>2 DEF Inv
  <2>2. Settled(a.user, a.ct, a.key)'
    BY <2>1 DEF Inv
  <2>3. PICK v, x, w, y : v = a.user /\ x = a.ct /\ w = answer'.user /\ y = answer'.ct
    OBVIOUS
  <2>4. a.key = KeyFor(v, x)' /\ answer'.key = KeyFor(w, y)' /\ v \in Users /\ w \in Users
    BY <1>2, <2>2, <2>3 DEF Settled, KeyFor, Honest, BitFor, CoinsFor
  <2>5. KeyFor(v, x)' = KeyFor(w, y)' => v = w /\ x = y
    BY <2>1, <2>4, KeyShowsAgain DEF NamesKey
  <2>6. v = w /\ x = y => KeyFor(v, x)' = KeyFor(w, y)'
    BY DEF KeyFor, Honest, BitFor, CoinsFor
  <2> QED  BY <2>3, <2>4, <2>5, <2>6 DEF Ideal!SameQuestion
<1> QED  BY <1>2, <1>3 DEF Ideal!Answer

(* Sender and recipient agree on the key of every ciphertext, and no two   *)
(* ciphertexts or recipients share one: the three KEMs are the ideal one,  *)
(* for any number of recipients, any ring and any noise that is small      *)
(* enough for it, and any number of calls.                                 *)
THEOREM IsIdealKEM == Spec => ImplementsIdealKEM
<1>1. Init => Ideal!Init
  BY DEF Init, Ideal!Init, Ideal!NoAnswer
<1>2. Inv /\ Inv' /\ [Next]_vars => [Ideal!Answer]_<<known, answer>>
  <2>1. ASSUME UNCHANGED vars PROVE UNCHANGED <<known, answer>>
    BY <2>1 DEF vars
  <2> QED  BY <2>1, CallIsAnswer
<1>3. Spec => []Inv
  BY StartsInv, InvStep, PTL DEF Spec
<1> QED  BY <1>1, <1>2, <1>3, PTL DEF Spec, ImplementsIdealKEM, Ideal!Spec

=============================================================================
