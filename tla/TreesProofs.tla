---------------------------- MODULE TreesProofs ----------------------------
(***************************************************************************)
(* What is proved of the trees of the SPHINCS schemes, for every depth,    *)
(* height, width of a digit and number of chains, and for every number of  *)
(* trees that treehashx1 builds on its stack: the verifier reaches the     *)
(* root that the signer computed, no address is used for two inputs, and   *)
(* no one-time key signs two messages.                                     *)
(***************************************************************************)
EXTENDS MCTrees, FiniteSetTheorems, WellFoundedInduction, TLAPS

(* A set that has 0 and every successor has every number: the library      *)
(* states induction for an operator, this is the same for a set.           *)
LEMMA Induction ==
    ASSUME NEW T, T \subseteq Nat, 0 \in T, \A n \in T : n + 1 \in T
    PROVE  T = Nat
<1> DEFINE Rest == Nat \ T
           R == OpToRel(<, Nat)
<1> SUFFICES ASSUME Rest # {} PROVE FALSE
  OBVIOUS
<1>1. PICK n \in Rest : \A m \in Rest : ~(<<m, n>> \in R)
  <2>1. IsWellFoundedOn(R, Nat)
    BY NatLessThanWellFounded
  <2>2. Rest \subseteq Nat
    OBVIOUS
  <2> HIDE DEF R, Rest
  <2> QED  BY <2>1, <2>2, WFMin
<1>2. n # 0 /\ n - 1 \in Nat /\ n - 1 < n
  OBVIOUS
<1>3. <<n - 1, n>> \in R
  BY <1>2 DEF OpToRel
<1>4. n - 1 \in T
  BY <1>1, <1>2, <1>3
<1>5. (n - 1) + 1 = n
  OBVIOUS
<1> QED  BY <1>4, <1>5

-----------------------------------------------------------------------------
(* Numbers. *)
LEMMA Division ==
    ASSUME NEW a \in Nat, NEW M \in Nat \ {0}
    PROVE  /\ a \div M \in Nat /\ a % M \in 0 .. M - 1
           /\ a = (a \div M) * M + (a % M)
<1>1. a = M * (a \div M) + (a % M) /\ (a % M) \in 0 .. M - 1 /\ a \div M \in Int
  OBVIOUS
<1>2. M * (a \div M) = (a \div M) * M
  BY <1>1
<1>3. a \div M >= 0
  <2> DEFINE q == a \div M
  <2>1. q \in Int /\ q * M + M > 0
    BY <1>1, <1>2
  <2> HIDE DEF q
  <2>2. ASSUME q <= -1 PROVE FALSE
    <3>1. (-1 - q) * M >= 0
      BY <2>1, <2>2
    <3>2. (-1 - q) * M = -M - q * M
      BY <2>1
    <3> QED  BY <2>1, <3>1, <3>2
  <2> QED  BY <2>1, <2>2 DEF q
<1> QED  BY <1>1, <1>2, <1>3

LEMMA Cancel ==
    ASSUME NEW a \in Int, NEW b \in Int, NEW M \in Nat \ {0}, a * M < b * M
    PROVE  a < b
<1> SUFFICES ASSUME b <= a PROVE FALSE
  OBVIOUS
<1>1. a - b \in Nat
  OBVIOUS
<1>2. (a - b) * M >= 0
  BY <1>1
<1>3. (a - b) * M = a * M - b * M
  OBVIOUS
<1> QED  BY <1>2, <1>3

(* Quotient and rest are unique. *)
LEMMA Quotient ==
    ASSUME NEW a \in Nat, NEW M \in Nat \ {0}, NEW q \in Int, NEW r \in 0 .. M - 1, a = q * M + r
    PROVE  a \div M = q /\ a % M = r
<1> DEFINE p == a \div M
           o == a % M
<1>1. p \in Int /\ o \in 0 .. M - 1 /\ a = p * M + o
  BY Division
<1> HIDE DEF p, o
<1>2. p * M \in Int /\ q * M \in Int /\ (p + 1) * M = p * M + M /\ (q + 1) * M = q * M + M
  BY <1>1
<1>3. p * M < (q + 1) * M /\ q * M < (p + 1) * M
  BY <1>1, <1>2
<1>4. p < q + 1 /\ q < p + 1
  BY <1>1, <1>3, Cancel
<1>5. p = q
  BY <1>1, <1>4
<1> QED  BY <1>1, <1>5 DEF p, o

(* Dividing twice is dividing by the product. *)
LEMMA DivTwice ==
    ASSUME NEW a \in Nat, NEW M \in Nat \ {0}, NEW N \in Nat \ {0}
    PROVE  M * N \in Nat \ {0} /\ (a \div M) \div N = a \div (M * N)
<1> DEFINE b == a \div M
           c == b \div N
<1>1. b \in Nat /\ a % M \in 0 .. M - 1 /\ a = b * M + (a % M)
  BY Division
<1>2. PICK r \in 0 .. M - 1 : a = b * M + r
  BY <1>1
<1> HIDE DEF b
<1>3. c \in Nat /\ b % N \in 0 .. N - 1 /\ b = c * N + (b % N)
  BY <1>1, Division
<1>4. PICK s \in 0 .. N - 1 : b = c * N + s
  BY <1>3
<1> HIDE DEF c
<1>5. M * N \in Nat \ {0}
  <2>1. M * N >= 1 * N
    <3>1. (M - 1) * N >= 0
      OBVIOUS
    <3>2. (M - 1) * N = M * N - N
      OBVIOUS
    <3> QED  BY <3>1, <3>2
  <2> QED  BY <2>1
<1>6. s * M \in Nat /\ s * M <= M * N - M
  <2>1. (N - 1 - s) * M >= 0
    OBVIOUS
  <2>2. (N - 1 - s) * M = M * N - M - s * M
    OBVIOUS
  <2>3. s * M >= 0
    OBVIOUS
  <2> QED  BY <2>1, <2>2, <2>3
<1>7. s * M + r \in 0 .. M * N - 1
  BY <1>5, <1>6
<1>8. a = c * (M * N) + (s * M + r)
  <2>1. b * M = (c * N + s) * M
    BY <1>4
  <2>2. (c * N + s) * M = c * (M * N) + s * M
    BY <1>3
  <2> DEFINE x == b * M
             y == c * (M * N)
             z == s * M
  <2>3. x = y + z /\ a = x + r /\ x \in Int /\ y \in Int /\ z \in Int
    BY <1>1, <1>2, <1>3, <1>5, <1>6, <2>1, <2>2
  <2> HIDE DEF x, y, z
  <2>4. a = y + (z + r)
    BY <2>3
  <2> QED  BY <2>4 DEF y, z
<1> DEFINE P == M * N
           t == s * M + r
<1>9. P \in Nat \ {0} /\ t \in 0 .. P - 1 /\ c \in Int /\ a = c * P + t
  BY <1>3, <1>5, <1>7, <1>8
<1> HIDE DEF P, t
<1>10. a \div P = c
  BY <1>9, Quotient
<1> QED  BY <1>5, <1>10 DEF P, c, b

LEMMA DivProduct ==
    ASSUME NEW a, NEW M, NEW N, NEW P, a \in Nat, M \in Nat \ {0}, N \in Nat \ {0}, P = M * N
    PROVE  (a \div M) \div N = a \div P
BY DivTwice

(* What the powers of the parameters are. *)
LEMMA Exponents ==
    /\ MaxExponent \in Nat /\ MaxExponent >= 17
    /\ Height * Depth \in Nat /\ Height * Depth <= MaxExponent /\ 8 * Len2 <= MaxExponent
    /\ Height <= Height * Depth /\ Height \in Nat \ {0} /\ Depth \in Nat \ {0} /\ Len2 \in Nat \ {0}
<1>1. Height \in Nat \ {0} /\ Depth \in Nat \ {0} /\ Len2 \in Nat \ {0}
  BY HypertreeAssumption
<1>2. Height * Depth \in Nat /\ Height <= Height * Depth
  <2>1. Height * (Depth - 1) >= 0
    BY <1>1
  <2>2. Height * (Depth - 1) = Height * Depth - Height
    BY <1>1
  <2> QED  BY <1>1, <2>1, <2>2
<1> DEFINE p == Height * Depth
<1>3. p \in Nat /\ Height <= p
  BY <1>2
<1>4. MaxExponent = 8 * Len2 + p + 8
  BY DEF MaxExponent
<1> HIDE DEF p
<1>5. MaxExponent \in Nat /\ MaxExponent >= 17 /\ p <= MaxExponent /\ 8 * Len2 <= MaxExponent
  BY <1>1, <1>3, <1>4
<1> QED  BY <1>1, <1>2, <1>5 DEF p

LEMMA PowerSum ==
    ASSUME NEW a \in Nat, NEW b \in Nat, a + b <= MaxExponent
    PROVE  2^a \in Nat \ {0} /\ 2^b \in Nat \ {0} /\ 2^(a + b) = 2^a * 2^b
<1> DEFINE M == MaxExponent
<1>1. M \in Nat /\ a + b <= M
  BY Exponents
<1>2. \A x \in 0 .. M : \A y \in 0 .. M - x : 2^x \in Nat \ {0} /\ 2^(x + y) = 2^x * 2^y
  BY PowerAssumption
<1> HIDE DEF M
<1>3. a \in 0 .. M /\ b \in 0 .. M - a /\ b \in 0 .. M /\ 0 \in 0 .. M - b
  BY <1>1
<1>4. 2^a \in Nat \ {0} /\ 2^(a + b) = 2^a * 2^b
  BY <1>2, <1>3
<1>5. 2^b \in Nat \ {0}
  BY <1>2, <1>3
<1> QED  BY <1>4, <1>5

LEMMA SmallPowers ==
    2^0 = 1 /\ 2^1 = 2 /\ 2^2 = 4 /\ 2^3 = 8 /\ 2^4 = 16 /\ 2^5 = 32 /\ 2^6 = 64 /\ 2^7 = 128
    /\ 2^8 = 256
<1>1. \A n \in 0 .. 7 : 2^n \in Nat /\ 2^(n + 1) = 2 * 2^n
  <2> TAKE n \in 0 .. 7
  <2>1. n \in Nat /\ 1 \in Nat /\ n + 1 <= MaxExponent
    BY Exponents
  <2>2. 2^n \in Nat \ {0} /\ 2^(n + 1) = 2^n * 2^1
    BY <2>1, PowerSum
  <2> QED  BY <2>2, PowerAssumption
<1>2. 0 + 1 = 1 /\ 1 + 1 = 2 /\ 2 + 1 = 3 /\ 3 + 1 = 4 /\ 4 + 1 = 5 /\ 5 + 1 = 6 /\ 6 + 1 = 7
      /\ 7 + 1 = 8
  OBVIOUS
<1>3. 2^0 = 1 /\ 2^1 = 2
  BY PowerAssumption
<1>4. 2^2 = 2 * 2^1 /\ 2^3 = 2 * 2^2 /\ 2^4 = 2 * 2^3 /\ 2^5 = 2 * 2^4 /\ 2^6 = 2 * 2^5
      /\ 2^7 = 2 * 2^6 /\ 2^8 = 2 * 2^7
  BY <1>1, <1>2
<1> QED  BY <1>3, <1>4

LEMMA WIs == W \in 2 .. 256 /\ LogW \in {1, 2, 4, 8} /\ W = 2^LogW
<1>1. LogW = 1 \/ LogW = 2 \/ LogW = 4 \/ LogW = 8
  BY HypertreeAssumption
<1>2. W = 2^LogW
  BY DEF W
<1>3. 2^1 = 2 /\ 2^2 = 4 /\ 2^4 = 16 /\ 2^8 = 256
  BY SmallPowers
<1>4. W = 2 \/ W = 4 \/ W = 16 \/ W = 256
  BY <1>1, <1>2, <1>3
<1> QED  BY <1>1, <1>2, <1>4

LEMMA WotsLenIs ==
    Len1 \in Nat \ {0} /\ Len2 \in Nat \ {0} /\ WotsLen = Len1 + Len2 /\ WotsLen <= 256
BY HypertreeAssumption DEF WotsLen

(* Widths of the levels of a tree. *)
LEMMA Levels ==
    ASSUME NEW n \in 0 .. Height
    PROVE  /\ 2^n \in Nat \ {0} /\ 2^(Height - n) \in Nat \ {0} /\ 2^Height = 2^n * 2^(Height - n)
           /\ n > 0 => /\ 2^n = 2 * 2^(n - 1) /\ 2^(n - 1) \in Nat \ {0}
                       /\ 2^(Height - (n - 1)) = 2 * 2^(Height - n)
<1>1. Height \in Nat /\ Height <= MaxExponent /\ MaxExponent \in Nat
  BY Exponents
<1>2. n \in Nat /\ Height - n \in Nat /\ n + (Height - n) = Height
  BY <1>1
<1>3. 2^n \in Nat \ {0} /\ 2^(Height - n) \in Nat \ {0} /\ 2^(n + (Height - n)) = 2^n * 2^(Height - n)
  BY <1>1, <1>2, PowerSum
<1>4. ASSUME n > 0
      PROVE  /\ 2^n = 2 * 2^(n - 1) /\ 2^(n - 1) \in Nat \ {0}
             /\ 2^(Height - (n - 1)) = 2 * 2^(Height - n)
  <2>1. n - 1 \in Nat /\ 1 \in Nat /\ (n - 1) + 1 = n /\ (n - 1) + 1 <= MaxExponent
    BY <1>1, <1>2, <1>4
  <2>2. 2^(n - 1) \in Nat \ {0} /\ 2^((n - 1) + 1) = 2^(n - 1) * 2^1
    BY <2>1, PowerSum
  <2>3. /\ (Height - n) + 1 = Height - (n - 1) /\ (Height - n) + 1 <= MaxExponent
    BY <1>1, <1>2, <1>4
  <2>4. 2^((Height - n) + 1) = 2^(Height - n) * 2^1
    BY <1>2, <2>1, <2>3, PowerSum
  <2> QED  BY <1>3, <2>1, <2>2, <2>3, <2>4, SmallPowers
<1> QED  BY <1>2, <1>3, <1>4

LEMMA LeavesAre == Leaves = 0 .. 2^Height - 1 /\ 2^Height \in Nat \ {0} /\ 2^0 = 1
<1>1. Height \in 0 .. Height
  BY Exponents
<1> QED  BY <1>1, Levels, SmallPowers DEF Leaves

-----------------------------------------------------------------------------
(* Addresses, field by field. *)
At(l, t, type, keypair, chain, node) ==
    [layer |-> l, tree |-> t, type |-> type, keypair |-> keypair, chain |-> chain, index |-> node]

LEMMA Setters ==
    ASSUME NEW l, NEW t, NEW y, NEW p, NEW c, NEW x, NEW v
    PROVE  /\ Zero = At(0, 0, 0, 0, 0, 0)
           /\ SetLayer(At(l, t, y, p, c, x), v) = At(v % 256, t, y, p, c, x)
           /\ SetTree(At(l, t, y, p, c, x), v) = At(l, v, y, p, c, x)
           /\ SetType(At(l, t, y, p, c, x), v) = At(l, t, v, p, c, x)
           /\ SetKeypair(At(l, t, y, p, c, x), v) = At(l, t, y, v, c, x)
           /\ SetChain(At(l, t, y, p, c, x), v) = At(l, t, y, p, v % 256, x)
BY DEF Zero, At, SetLayer, SetTree, SetType, SetKeypair, SetChain

LEMMA NodeSetter ==
    ASSUME NEW l, NEW t, NEW y, NEW p, NEW c, NEW x, NEW v, NEW w
    PROVE  SetNode(At(l, t, y, p, c, x), v, w) = At(l, t, y, p, v % 256, w)
<1>1. [At(l, t, y, p, v % 256, x) EXCEPT !.index = w] = At(l, t, y, p, v % 256, w)
  BY DEF At
<1> QED  BY <1>1, Setters DEF SetNode

LEMMA CopySetters ==
    ASSUME NEW l, NEW t, NEW y, NEW p, NEW c, NEW x,
           NEW l1, NEW t1, NEW y1, NEW p1, NEW c1, NEW x1
    PROVE  /\ CopySubtree(At(l, t, y, p, c, x), At(l1, t1, y1, p1, c1, x1)) = At(l1, t1, y, p, c, x)
           /\ CopyKeypair(At(l, t, y, p, c, x), At(l1, t1, y1, p1, c1, x1)) = At(l1, t1, y, p1, c, x)
<1> DEFINE from == At(l1, t1, y1, p1, c1, x1)
<1>1. from.layer = l1 /\ from.tree = t1 /\ from.keypair = p1
  BY DEF At
<1> HIDE DEF from
<1>2. [At(l, t1, y, p, c, x) EXCEPT !.layer = l1] = At(l1, t1, y, p, c, x)
  BY DEF At
<1>3. CopySubtree(At(l, t, y, p, c, x), from) = At(l1, t1, y, p, c, x)
  BY <1>1, <1>2, Setters DEF CopySubtree
<1>4. CopyKeypair(At(l, t, y, p, c, x), from) = SetKeypair(At(l1, t1, y, p, c, x), p1)
  BY <1>1, <1>3 DEF CopyKeypair
<1> QED  BY <1>3, <1>4, Setters DEF from

LEMMA HashSetter ==
    ASSUME NEW l, NEW t, NEW y, NEW p, NEW c, NEW x, NEW v, x \in 0 .. 255, v \in 0 .. 255
    PROVE  SetHash(At(l, t, y, p, c, x), v) = At(l, t, y, p, c, v)
<1>1. x % 256 = x /\ v % 256 = v /\ (x - x) + v = v
  OBVIOUS
<1>2. At(l, t, y, p, c, x).index = x
  BY DEF At
<1>3. SetHash(At(l, t, y, p, c, x), v) = [At(l, t, y, p, c, x) EXCEPT !.index = (x - (x % 256)) + (v % 256)]
  BY <1>2 DEF SetHash
<1>4. SetHash(At(l, t, y, p, c, x), v) = [At(l, t, y, p, c, x) EXCEPT !.index = v]
  BY <1>1, <1>3
<1> QED  BY <1>4 DEF At

LEMMA AddressFields ==
    ASSUME NEW l, NEW t, NEW y, NEW p, NEW c, NEW x
    PROVE  /\ At(l, t, y, p, c, x).layer = l /\ At(l, t, y, p, c, x).tree = t
           /\ At(l, t, y, p, c, x).type = y /\ At(l, t, y, p, c, x).keypair = p
           /\ At(l, t, y, p, c, x).chain = c /\ At(l, t, y, p, c, x).index = x
BY DEF At

LEMMA QueryAddress ==
    ASSUME NEW a, NEW in PROVE Thash(a, in).addr = a /\ Prf(a).addr = a
BY DEF Thash, Prf

-----------------------------------------------------------------------------
(* What the recursive functions of the model satisfy. *)
IsChain(v, a, start, value, last) ==
    v = [k \in start .. last |-> IF k = start THEN value ELSE Thash(SetHash(a, k - 1), <<v[k - 1]>>)]

LEMMA ChainExists ==
    ASSUME NEW a, NEW s \in Nat, NEW value, NEW last \in Nat, s <= last
    PROVE  \E v : IsChain(v, a, s, value, last)
<1> DEFINE T == {n \in Nat : \E v : IsChain(v, a, s, value, s + n)}
<1>1. 0 \in T
  <2> DEFINE v == [k \in s .. s + 0 |-> value]
  <2>1. \A k \in s .. s + 0 : k = s
    OBVIOUS
  <2>2. IsChain(v, a, s, value, s + 0)
    BY <2>1 DEF IsChain
  <2> QED  BY <2>2
<1>2. ASSUME NEW n \in T PROVE n + 1 \in T
  <2>1. PICK v : IsChain(v, a, s, value, s + n)
    OBVIOUS
  <2> DEFINE m == s + n
             top == Thash(SetHash(a, m), <<v[m]>>)
             w == [k \in s .. m + 1 |-> IF k = m + 1 THEN top ELSE v[k]]
  <2>2. n \in Nat /\ m \in Nat /\ m >= s /\ s + (n + 1) = m + 1
    OBVIOUS
  <2>3. \A k \in s .. m : v[k] = IF k = s THEN value ELSE Thash(SetHash(a, k - 1), <<v[k - 1]>>)
    BY <2>1 DEF IsChain
  <2>4. w[m + 1] = top /\ \A k \in s .. m : w[k] = v[k]
    BY <2>2
  <2>5. ASSUME NEW k \in s .. m + 1
        PROVE  (IF k = m + 1 THEN top ELSE v[k])
                    = IF k = s THEN value ELSE Thash(SetHash(a, k - 1), <<w[k - 1]>>)
    <3> HIDE DEF w, m
    <3>1. CASE k = m + 1
      <4>1. k # s /\ k - 1 = m /\ m \in s .. m
        BY <2>2, <3>1
      <4> QED  BY <2>4, <3>1, <4>1
    <3>2. CASE k # m + 1
      <4>1. k \in s .. m
        BY <2>2, <3>2
      <4>2. k # s => k - 1 \in s .. m
        BY <2>2, <4>1
      <4> QED  BY <2>3, <2>4, <3>2, <4>1, <4>2
    <3> QED  BY <3>1, <3>2
  <2>6. IsChain(w, a, s, value, m + 1)
    BY <2>5 DEF IsChain
  <2> HIDE DEF w, m
  <2> QED  BY <2>2, <2>6
<1>3. T = Nat
  <2> HIDE DEF T
  <2>1. T \subseteq Nat
    BY DEF T
  <2> QED  BY <1>1, <1>2, <2>1, Induction
<1>4. last - s \in Nat /\ s + (last - s) = last
  OBVIOUS
<1>5. last - s \in T
  <2> HIDE DEF T
  <2> QED  BY <1>3, <1>4
<1> QED  BY <1>4, <1>5

LEMMA ChainIs ==
    ASSUME NEW a, NEW s, NEW value, s \in 0 .. W - 1
    PROVE  /\ DOMAIN Chain(a, s, value) = s .. W - 1
           /\ Chain(a, s, value)[s] = value
           /\ \A k \in s + 1 .. W - 1 :
                  Chain(a, s, value)[k] = Thash(SetHash(a, k - 1), <<Chain(a, s, value)[k - 1]>>)
<1> DEFINE c == CHOOSE v : IsChain(v, a, s, value, W - 1)
<1>1. Chain(a, s, value) = c
  BY DEF Chain, IsChain
<1>2. s \in Nat /\ W - 1 \in Nat /\ s <= W - 1
  BY WIs
<1>3. IsChain(c, a, s, value, W - 1)
  BY <1>2, ChainExists
<1> HIDE DEF c
<1>4. c = [k \in s .. W - 1 |-> IF k = s THEN value ELSE Thash(SetHash(a, k - 1), <<c[k - 1]>>)]
  BY <1>3 DEF IsChain
<1>5. \A k \in s + 1 .. W - 1 : k \in s .. W - 1 /\ k # s
  BY <1>2
<1>6. s \in s .. W - 1
  BY <1>2
<1>7. \A k \in s .. W - 1 : c[k] = IF k = s THEN value ELSE Thash(SetHash(a, k - 1), <<c[k - 1]>>)
  BY <1>4
<1>8. DOMAIN c = s .. W - 1
  BY <1>4
<1> HIDE DEF c
<1> QED  BY <1>1, <1>5, <1>6, <1>7, <1>8

IsNodes(v, a, leaves, last) ==
    v = [n \in 0 .. last |->
            IF n = 0 THEN leaves
            ELSE [x \in 0 .. 2^(Height - n) - 1 |->
                     Thash(SetNode(a, n, x), <<v[n - 1][2 * x], v[n - 1][2 * x + 1]>>)]]

LEMMA NodesExist ==
    ASSUME NEW a, NEW leaves, NEW last \in Nat
    PROVE  \E v : IsNodes(v, a, leaves, last)
<1> DEFINE T == {n \in Nat : \E v : IsNodes(v, a, leaves, n)}
<1>1. 0 \in T
  <2> DEFINE v == [k \in 0 .. 0 |-> leaves]
  <2>1. \A k \in 0 .. 0 : k = 0
    OBVIOUS
  <2>2. IsNodes(v, a, leaves, 0)
    BY <2>1 DEF IsNodes
  <2> QED  BY <2>2
<1>2. ASSUME NEW m \in T PROVE m + 1 \in T
  <2>1. PICK v : IsNodes(v, a, leaves, m)
    OBVIOUS
  <2> DEFINE above(n, u) == [x \in 0 .. 2^(Height - n) - 1 |->
                                Thash(SetNode(a, n, x), <<u[2 * x], u[2 * x + 1]>>)]
             w == [k \in 0 .. m + 1 |-> IF k = m + 1 THEN above(m + 1, v[m]) ELSE v[k]]
  <2>2. m \in Nat
    OBVIOUS
  <2>3. \A k \in 0 .. m : v[k] = IF k = 0 THEN leaves ELSE above(k, v[k - 1])
    BY <2>1 DEF IsNodes
  <2>4. w[m + 1] = above(m + 1, v[m]) /\ \A k \in 0 .. m : w[k] = v[k]
    BY <2>2
  <2>5. ASSUME NEW k \in 0 .. m + 1
        PROVE  (IF k = m + 1 THEN above(m + 1, v[m]) ELSE v[k])
                    = IF k = 0 THEN leaves ELSE above(k, w[k - 1])
    <3> HIDE DEF w, above
    <3>1. CASE k = m + 1
      <4>1. k # 0 /\ k - 1 = m /\ m \in 0 .. m
        BY <2>2, <3>1
      <4> QED  BY <2>4, <3>1, <4>1
    <3>2. CASE k # m + 1
      <4>1. k \in 0 .. m
        BY <2>2, <3>2
      <4>2. k # 0 => k - 1 \in 0 .. m
        BY <2>2, <4>1
      <4> QED  BY <2>3, <2>4, <3>2, <4>1, <4>2
    <3> QED  BY <3>1, <3>2
  <2>6. IsNodes(w, a, leaves, m + 1)
    BY <2>5 DEF IsNodes
  <2> HIDE DEF w
  <2> QED  BY <2>2, <2>6
<1>3. T = Nat
  <2> HIDE DEF T
  <2>1. T \subseteq Nat
    BY DEF T
  <2> QED  BY <1>1, <1>2, <2>1, Induction
<1> QED  BY <1>3

LEMMA NodesAre ==
    ASSUME NEW a, NEW leaves
    PROVE  /\ Nodes(a, leaves) = [n \in 0 .. Height |-> Nodes(a, leaves)[n]]
           /\ Nodes(a, leaves)[0] = leaves
           /\ \A n \in 1 .. Height :
                  Nodes(a, leaves)[n] =
                      [x \in 0 .. 2^(Height - n) - 1 |->
                          Thash(SetNode(a, n, x), <<Nodes(a, leaves)[n - 1][2 * x],
                                                    Nodes(a, leaves)[n - 1][2 * x + 1]>>)]
<1> DEFINE c == CHOOSE v : IsNodes(v, a, leaves, Height)
<1>1. Nodes(a, leaves) = c
  BY DEF Nodes, IsNodes
<1>2. Height \in Nat
  BY Exponents
<1>3. IsNodes(c, a, leaves, Height)
  BY <1>2, NodesExist
<1> HIDE DEF c
<1>4. c = [n \in 0 .. Height |-> c[n]]
  BY <1>3 DEF IsNodes
<1>5. \A n \in 0 .. Height :
          c[n] = IF n = 0 THEN leaves
                 ELSE [x \in 0 .. 2^(Height - n) - 1 |->
                          Thash(SetNode(a, n, x), <<c[n - 1][2 * x], c[n - 1][2 * x + 1]>>)]
  BY <1>3 DEF IsNodes
<1>6. 0 \in 0 .. Height /\ \A n \in 1 .. Height : n \in 0 .. Height /\ n # 0
  BY <1>2
<1> QED  BY <1>1, <1>4, <1>5, <1>6

-----------------------------------------------------------------------------
(* The tree at a place of the hypertree. *)
Keys(leafAddr, keyAddr) == [x \in Leaves |-> GenLeaf(leafAddr, keyAddr, x)]

LeavesOf(keys) == [x \in Leaves |-> keys[x].leaf]

QueriesOf(keys, nodes) ==
    {keys[x].chains[i][k] : x \in Leaves, i \in Chains, k \in 0 .. W - 1}
        \cup UNION {{nodes[h][x] : x \in DOMAIN nodes[h]} : h \in 0 .. Height}

Whole(keys, nodes) == [keys |-> keys, nodes |-> nodes, queries |-> QueriesOf(keys, nodes)]

KeysAt(l, t) == Keys(At(l, t, 0, 0, 0, 0), At(l, t, WOTSPK, 0, 0, 0))

NodesAt(l, t) == Nodes(At(l, t, HASHTREE, 0, 0, 0), LeavesOf(KeysAt(l, t)))

(* The nodes depend on the layer, the tree and the key pair of their address. *)
LEMMA NodesSame ==
    ASSUME NEW leaves, NEW l, NEW t, NEW y, NEW p, NEW c, NEW x, NEW c1, NEW x1
    PROVE  Nodes(At(l, t, y, p, c, x), leaves) = Nodes(At(l, t, y, p, c1, x1), leaves)
<1> DEFINE a == At(l, t, y, p, c, x)
           b == At(l, t, y, p, c1, x1)
           f == Nodes(a, leaves)
           g == Nodes(b, leaves)
           above(u, n) == [z \in 0 .. 2^(Height - n) - 1 |->
                              Thash(At(l, t, y, p, n % 256, z), <<u[2 * z], u[2 * z + 1]>>)]
<1>1. ASSUME NEW n, NEW z
      PROVE  /\ SetNode(a, n, z) = At(l, t, y, p, n % 256, z)
             /\ SetNode(b, n, z) = At(l, t, y, p, n % 256, z)
  BY NodeSetter
<1> HIDE DEF a, b
<1>2. /\ f[0] = leaves /\ g[0] = leaves
      /\ f = [n \in 0 .. Height |-> f[n]] /\ g = [n \in 0 .. Height |-> g[n]]
      /\ \A n \in 1 .. Height : f[n] = above(f[n - 1], n) /\ g[n] = above(g[n - 1], n)
  <2>1. ASSUME NEW n \in 1 .. Height PROVE f[n] = above(f[n - 1], n) /\ g[n] = above(g[n - 1], n)
    <3>1. f[n] = [z \in 0 .. 2^(Height - n) - 1 |->
                     Thash(SetNode(a, n, z), <<f[n - 1][2 * z], f[n - 1][2 * z + 1]>>)]
      BY NodesAre
    <3>2. g[n] = [z \in 0 .. 2^(Height - n) - 1 |->
                     Thash(SetNode(b, n, z), <<g[n - 1][2 * z], g[n - 1][2 * z + 1]>>)]
      BY NodesAre
    <3> HIDE DEF f, g
    <3> QED  BY <1>1, <3>1, <3>2
  <2> QED  BY <2>1, NodesAre
<1> HIDE DEF f, g, above
<1> DEFINE T == {n \in Nat : n <= Height => f[n] = g[n]}
<1>3. 0 \in T
  BY <1>2
<1>4. ASSUME NEW n \in T PROVE n + 1 \in T
  <2>1. n + 1 \in Nat
    OBVIOUS
  <2>2. ASSUME n + 1 <= Height PROVE f[n + 1] = g[n + 1]
    <3>1. n + 1 \in 1 .. Height /\ (n + 1) - 1 = n /\ f[n] = g[n]
      BY <2>2, Exponents
    <3>2. f[n + 1] = above(f[(n + 1) - 1], n + 1) /\ g[n + 1] = above(g[(n + 1) - 1], n + 1)
      BY <1>2, <3>1
    <3> QED  BY <3>1, <3>2
  <2> QED  BY <2>1, <2>2
<1>5. T = Nat
  <2> HIDE DEF T
  <2>1. T \subseteq Nat
    BY DEF T
  <2> QED  BY <1>3, <1>4, <2>1, Induction
<1>6. \A n \in 0 .. Height : f[n] = g[n]
  BY <1>5
<1> QED  BY <1>2, <1>6 DEF f, g, a, b

LEMMA SubtreeIs ==
    ASSUME NEW l, NEW t, NEW y, NEW p, NEW c, NEW x, NEW y1, NEW c1, NEW x1
    PROVE  Subtree(At(l, t, y, p, c, x), At(l, t, y1, 0, c1, x1)) = Whole(KeysAt(l, t), NodesAt(l, t))
<1> DEFINE wa == At(l, t, y, p, c, x)
           ta == At(l, t, y1, 0, c1, x1)
           la == CopySubtree(Zero, wa)
           pa == CopySubtree(SetType(Zero, WOTSPK), wa)
           na == SetType(ta, HASHTREE)
<1>1. la = At(l, t, 0, 0, 0, 0) /\ pa = At(l, t, WOTSPK, 0, 0, 0) /\ na = At(l, t, HASHTREE, 0, c1, x1)
  BY Setters, CopySetters
<1>2. Subtree(wa, ta) = Whole(Keys(la, pa), Nodes(na, LeavesOf(Keys(la, pa))))
  BY DEF Subtree, Whole, Keys, LeavesOf, QueriesOf
<1> HIDE DEF wa, ta, la, pa, na
<1>3. Nodes(na, LeavesOf(Keys(la, pa))) = NodesAt(l, t)
  BY <1>1, NodesSame DEF NodesAt, KeysAt
<1> QED  BY <1>1, <1>2, <1>3 DEF KeysAt, wa, ta

(* The chains and the leaf of a key pair. *)
LEMMA KeyIs ==
    ASSUME NEW l, NEW t, NEW x, x \in Leaves
    PROVE  /\ KeysAt(l, t)[x].leaf = Thash(At(l, t, WOTSPK, x, 0, 0), Tops(KeysAt(l, t)[x].chains))
           /\ DOMAIN KeysAt(l, t)[x].chains = Chains
           /\ \A i \in Chains : KeysAt(l, t)[x].chains[i]
                  = Chain(At(l, t, WOTS, x, i, 0), 0, Prf(At(l, t, WOTSPRF, x, i, 0)))
<1> DEFINE la == At(l, t, 0, 0, 0, 0)
           pa == At(l, t, WOTSPK, 0, 0, 0)
           a == SetKeypair(la, x)
           ca(i) == SetType(SetChain(a, i), WOTS)
           sa(i) == SecretAddress(a, i)
           g == GenLeaf(la, pa, x)
<1>1. a = At(l, t, 0, x, 0, 0) /\ SetKeypair(pa, x) = At(l, t, WOTSPK, x, 0, 0)
  BY Setters
<1>2. ASSUME NEW i, i \in Chains
      PROVE  ca(i) = At(l, t, WOTS, x, i, 0) /\ sa(i) = At(l, t, WOTSPRF, x, i, 0)
  <2>1. i % 256 = i
    BY WotsLenIs, <1>2 DEF Chains
  <2>2. SetChain(a, i) = At(l, t, 0, x, i, 0)
    BY <1>1, <2>1, Setters
  <2>3. 0 \in 0 .. 255
    OBVIOUS
  <2>4. SetHash(At(l, t, 0, x, i, 0), 0) = At(l, t, 0, x, i, 0)
    BY <2>3, HashSetter
  <2> QED  BY <2>2, <2>4, Setters DEF SecretAddress
<1>3. /\ g.chains = [i \in Chains |-> Chain(ca(i), 0, Prf(sa(i)))]
      /\ g.leaf = Thash(SetKeypair(pa, x), Tops(g.chains))
  BY DEF GenLeaf
<1>4. KeysAt(l, t)[x] = g
  BY DEF KeysAt, Keys
<1> HIDE DEF ca, sa, g, a, la
<1>5. /\ DOMAIN g.chains = Chains
      /\ \A i \in Chains : g.chains[i]
             = Chain(At(l, t, WOTS, x, i, 0), 0, Prf(At(l, t, WOTSPRF, x, i, 0)))
  BY <1>2, <1>3
<1> QED  BY <1>1, <1>3, <1>4, <1>5

LEMMA KeyChain ==
    ASSUME NEW l, NEW t, NEW x, NEW i, x \in Leaves, i \in Chains
    PROVE  /\ KeysAt(l, t)[x].chains[i][0] = Prf(At(l, t, WOTSPRF, x, i, 0))
           /\ \A k \in 1 .. W - 1 :
                  KeysAt(l, t)[x].chains[i][k]
                      = Thash(At(l, t, WOTS, x, i, k - 1), <<KeysAt(l, t)[x].chains[i][k - 1]>>)
<1> DEFINE c == KeysAt(l, t)[x].chains[i]
           a == At(l, t, WOTS, x, i, 0)
           value == Prf(At(l, t, WOTSPRF, x, i, 0))
<1>1. c = Chain(a, 0, value)
  BY KeyIs
<1>2. 0 \in 0 .. 255 /\ 0 \in 0 .. W - 1
      /\ \A k \in 1 .. W - 1 : k \in 0 + 1 .. W - 1 /\ k - 1 \in 0 .. 255
  BY WIs
<1>3. ASSUME NEW k \in 1 .. W - 1 PROVE SetHash(a, k - 1) = At(l, t, WOTS, x, i, k - 1)
  <2>1. k - 1 \in 0 .. 255
    BY <1>2
  <2> QED  BY <1>2, <2>1, HashSetter
<1> HIDE DEF a, value, c
<1>4. c[0] = value /\ \A k \in 0 + 1 .. W - 1 : c[k] = Thash(SetHash(a, k - 1), <<c[k - 1]>>)
  BY <1>1, <1>2, ChainIs
<1>5. ASSUME NEW k \in 1 .. W - 1 PROVE c[k] = Thash(At(l, t, WOTS, x, i, k - 1), <<c[k - 1]>>)
  BY <1>2, <1>3, <1>4
<1> QED  BY <1>4, <1>5 DEF value, c

(* The nodes of a tree. *)
LEMMA NodesAtAre ==
    ASSUME NEW l, NEW t, NEW v, v = NodesAt(l, t)
    PROVE  /\ \A x \in Leaves : v[0][x] = KeysAt(l, t)[x].leaf
           /\ \A n \in 0 .. Height : DOMAIN v[n] = 0 .. 2^(Height - n) - 1
           /\ \A n \in 1 .. Height : \A x \in 0 .. 2^(Height - n) - 1 :
                  v[n][x] = Thash(At(l, t, HASHTREE, 0, n, x), <<v[n - 1][2 * x], v[n - 1][2 * x + 1]>>)
<1> DEFINE a == At(l, t, HASHTREE, 0, 0, 0)
           leaves == LeavesOf(KeysAt(l, t))
<1>1. leaves = [x \in Leaves |-> KeysAt(l, t)[x].leaf]
  BY DEF LeavesOf
<1>2. v = Nodes(a, leaves)
  BY DEF NodesAt
<1> HIDE DEF leaves
<1>3. Height \in 1 .. 255
  BY HypertreeAssumption
<1>4. ASSUME NEW n \in 1 .. Height
      PROVE  v[n] = [x \in 0 .. 2^(Height - n) - 1 |->
                        Thash(At(l, t, HASHTREE, 0, n, x), <<v[n - 1][2 * x], v[n - 1][2 * x + 1]>>)]
  <2>1. v[n] = [x \in 0 .. 2^(Height - n) - 1 |->
                   Thash(SetNode(a, n, x), <<v[n - 1][2 * x], v[n - 1][2 * x + 1]>>)]
    BY <1>2, NodesAre
  <2>2. n % 256 = n
    BY <1>3
  <2>3. ASSUME NEW x PROVE SetNode(a, n, x) = At(l, t, HASHTREE, 0, n, x)
    BY <2>2, NodeSetter
  <2> HIDE DEF a
  <2> QED  BY <2>1, <2>3
<1>5. v[0] = leaves
  BY <1>2, NodesAre
<1>6. \A x \in Leaves : v[0][x] = KeysAt(l, t)[x].leaf
  BY <1>1, <1>5
<1>7. ASSUME NEW n \in 0 .. Height PROVE DOMAIN v[n] = 0 .. 2^(Height - n) - 1
  <2>1. CASE n = 0
    <3>1. DOMAIN leaves = Leaves /\ Height - n = Height
      BY <1>1, <1>3, <2>1
    <3> QED  BY <1>5, <2>1, <3>1 DEF Leaves
  <2>2. CASE n # 0
    <3>1. n \in 1 .. Height
      BY <2>2
    <3>2. v[n] = [x \in 0 .. 2^(Height - n) - 1 |->
                     Thash(At(l, t, HASHTREE, 0, n, x), <<v[n - 1][2 * x], v[n - 1][2 * x + 1]>>)]
      BY <1>4, <3>1
    <3> QED  BY <3>2
  <2> QED  BY <2>1, <2>2
<1>8. ASSUME NEW n \in 1 .. Height, NEW x \in 0 .. 2^(Height - n) - 1
      PROVE  v[n][x] = Thash(At(l, t, HASHTREE, 0, n, x), <<v[n - 1][2 * x], v[n - 1][2 * x + 1]>>)
  BY <1>4
<1> QED  BY <1>6, <1>7, <1>8

-----------------------------------------------------------------------------
(* What the verifier computes from a signature. *)

(* A chain the verifier takes up at any position goes on as it did in the key. *)
LEMMA VerifyChain ==
    ASSUME NEW l, NEW t, NEW x, x \in Leaves, NEW p, NEW y, y \in 0 .. 255,
           NEW i, i \in Chains, NEW s, s \in 0 .. W - 1, NEW v
    PROVE  v = KeysAt(l, t)[x].chains[i][s] =>
               \A k \in s .. W - 1 :
                   Chain(SetChain(At(l, t, WOTS, x, p, y), i), s, v)[k]
                       = KeysAt(l, t)[x].chains[i][k]
<1> DEFINE c == KeysAt(l, t)[x].chains[i]
           a == SetChain(At(l, t, WOTS, x, p, y), i)
           d == Chain(a, s, v)
<1>1. \A k \in 1 .. W - 1 : c[k] = Thash(At(l, t, WOTS, x, i, k - 1), <<c[k - 1]>>)
  BY KeyChain
<1>2. ASSUME NEW k \in s + 1 .. W - 1
      PROVE  k \in 1 .. W - 1 /\ SetHash(a, k - 1) = At(l, t, WOTS, x, i, k - 1)
  <2>1. k \in 1 .. W - 1 /\ k - 1 \in 0 .. 255
    BY WIs
  <2>2. i \in 0 .. 255
    BY WotsLenIs DEF Chains
  <2>3. i % 256 = i
    BY <2>2
  <2>4. a = At(l, t, WOTS, x, i, y)
    BY <2>3, Setters
  <2> QED  BY <2>1, <2>4, HashSetter
<1> HIDE DEF c, a
<1>3. d[s] = v /\ \A k \in s + 1 .. W - 1 : d[k] = Thash(SetHash(a, k - 1), <<d[k - 1]>>)
  BY ChainIs
<1> HIDE DEF d
<1>4. SUFFICES ASSUME v = c[s] PROVE \A k \in s .. W - 1 : d[k] = c[k]
  BY DEF d, a, c
<1> DEFINE T == {n \in Nat : s + n <= W - 1 => d[s + n] = c[s + n]}
<1>5. 0 \in T
  BY <1>3, <1>4
<1>6. ASSUME NEW n \in T PROVE n + 1 \in T
  <2>1. n + 1 \in Nat
    OBVIOUS
  <2>2. ASSUME s + (n + 1) <= W - 1 PROVE d[s + (n + 1)] = c[s + (n + 1)]
    <3>1. PICK k \in s + 1 .. W - 1 : k = s + (n + 1)
      BY <2>2
    <3>2. n \in Nat /\ s \in Nat /\ W \in Nat /\ k - 1 = s + n /\ s + n <= W - 1
      BY <2>2, <3>1, WIs
    <3>3. d[k] = Thash(SetHash(a, k - 1), <<d[k - 1]>>)
      BY <1>3
    <3>4. c[k] = Thash(SetHash(a, k - 1), <<c[k - 1]>>)
      BY <1>1, <1>2
    <3>5. d[s + n] = c[s + n]
      BY <3>2
    <3> QED  BY <3>1, <3>2, <3>3, <3>4, <3>5
  <2> QED  BY <2>1, <2>2
<1>7. T = Nat
  <2> HIDE DEF T
  <2>1. T \subseteq Nat
    BY DEF T
  <2> QED  BY <1>5, <1>6, <2>1, Induction
<1>8. ASSUME NEW k \in s .. W - 1 PROVE d[k] = c[k]
  <2>1. k - s \in Nat /\ s + (k - s) = k /\ k <= W - 1
    BY WIs
  <2>2. s + (k - s) <= W - 1 => d[s + (k - s)] = c[s + (k - s)]
    BY <1>7, <2>1
  <2> QED  BY <2>1, <2>2
<1> QED  BY <1>8

(* Where the way up from a leaf is at each height. *)
LEMMA Position ==
    ASSUME NEW x \in 0 .. 2^Height - 1, NEW n \in 0 .. Height
    PROVE  /\ x \div 2^n \in 0 .. 2^(Height - n) - 1
           /\ n > 0 => (x \div 2^(n - 1)) \div 2 = x \div 2^n
<1> DEFINE M == 2^n
           N == 2^(Height - n)
           q == x \div M
<1>1. M \in Nat \ {0} /\ N \in Nat \ {0} /\ 2^Height = M * N
  BY Levels
<1>2. x \in Nat /\ x < 2^Height
  BY LeavesAre
<1> HIDE DEF M, N
<1>3. q \in Nat /\ x % M \in 0 .. M - 1 /\ x = q * M + (x % M)
  BY <1>1, <1>2, Division
<1> HIDE DEF q
<1>4. q * M < N * M
  <2>1. PICK r \in 0 .. M - 1 : x = q * M + r
    BY <1>3
  <2>2. q * M \in Nat /\ N * M = M * N
    BY <1>1, <1>3
  <2> QED  BY <1>1, <1>2, <2>1, <2>2
<1>5. q < N
  BY <1>1, <1>3, <1>4, Cancel
<1>6. ASSUME n > 0 PROVE (x \div 2^(n - 1)) \div 2 = x \div 2^n
  <2> DEFINE K == 2^(n - 1)
  <2>1. K \in Nat \ {0} /\ 2^n = 2 * K
    BY <1>6, Levels
  <2> HIDE DEF K
  <2>2. (x \div K) \div 2 = x \div (K * 2) /\ K * 2 = 2 * K
    BY <1>2, <2>1, DivTwice
  <2> QED  BY <2>1, <2>2 DEF K
<1> QED  BY <1>1, <1>3, <1>5, <1>6 DEF q, M, N

(* With the path that was stored the climb goes through the tree's nodes. *)
LEMMA ClimbReaches ==
    ASSUME NEW l, NEW t, NEW c, NEW y, NEW x, NEW auth, x \in Leaves,
           \A n \in 0 .. Height - 1 : auth[n] = NodesAt(l, t)[n][Sibling(x \div 2^n)]
    PROVE  \A n \in 0 .. Height :
               Climb(At(l, t, HASHTREE, 0, c, y), NodesAt(l, t)[0][x], x, auth)[n]
                   = NodesAt(l, t)[n][x \div 2^n]
<1> DEFINE v == NodesAt(l, t)
           a == At(l, t, HASHTREE, 0, c, y)
           up == Climb(a, v[0][x], x, auth)
           join(n, w) == Thash(SetNode(a, n, (x \div 2^(n - 1)) \div 2),
                               IF (x \div 2^(n - 1)) % 2 = 0 THEN <<w, auth[n - 1]>>
                                                             ELSE <<auth[n - 1], w>>)
           Is(u) == u = [n \in 0 .. Height |-> IF n = 0 THEN v[0][x] ELSE join(n, u[n - 1])]
           g == [n \in 0 .. Height |-> v[n][x \div 2^n]]
<1>1. Height \in 1 .. 255 /\ 2^0 = 1 /\ x \in Nat /\ x \in 0 .. 2^Height - 1
  BY HypertreeAssumption, LeavesAre
<1>2. ASSUME NEW n \in 1 .. Height PROVE v[n][x \div 2^n] = join(n, v[n - 1][x \div 2^(n - 1)])
  <2> DEFINE z == x \div 2^(n - 1)
             p == z \div 2
  <2>1. n \in 0 .. Height /\ n - 1 \in 0 .. Height /\ n - 1 \in 0 .. Height - 1 /\ n > 0 /\ n % 256 = n
    BY <1>1
  <2>2. p = x \div 2^n /\ p \in 0 .. 2^(Height - n) - 1
    BY <1>1, <2>1, Position
  <2>3. z \in Nat
    BY <1>1, <2>1, Position, Levels
  <2>4. v[n][p] = Thash(At(l, t, HASHTREE, 0, n, p), <<v[n - 1][2 * p], v[n - 1][2 * p + 1]>>)
    BY <2>2, NodesAtAre
  <2>5. SetNode(a, n, p) = At(l, t, HASHTREE, 0, n, p)
    BY <2>1, NodeSetter
  <2>6. auth[n - 1] = v[n - 1][Sibling(z)]
    BY <2>1
  <2> HIDE DEF v, a
  <2>7. IF z % 2 = 0 THEN 2 * p = z /\ 2 * p + 1 = Sibling(z)
                     ELSE 2 * p = Sibling(z) /\ 2 * p + 1 = z
    <3> HIDE DEF z
    <3> QED  BY <2>3 DEF Sibling
  <2>8. join(n, v[n - 1][z]) = Thash(SetNode(a, n, p), IF z % 2 = 0 THEN <<v[n - 1][z], auth[n - 1]>>
                                                                 ELSE <<auth[n - 1], v[n - 1][z]>>)
    OBVIOUS
  <2> HIDE DEF z, p, join
  <2>9. CASE z % 2 = 0
    BY <2>2, <2>4, <2>5, <2>6, <2>7, <2>8, <2>9 DEF z
  <2>10. CASE z % 2 # 0
    BY <2>2, <2>4, <2>5, <2>6, <2>7, <2>8, <2>10 DEF z
  <2> QED  BY <2>9, <2>10
<1>3. Is(g)
  <2>1. \A n \in 0 .. Height : g[n] = v[n][x \div 2^n]
    OBVIOUS
  <2>2. ASSUME NEW n \in 0 .. Height
        PROVE  v[n][x \div 2^n] = IF n = 0 THEN v[0][x] ELSE join(n, g[n - 1])
    <3> HIDE DEF g, join, v
    <3>1. CASE n = 0
      <4>1. x \div 1 = x
        BY <1>1
      <4> QED  BY <1>1, <3>1, <4>1
    <3>2. CASE n # 0
      <4>1. n \in 1 .. Height /\ n - 1 \in 0 .. Height
        BY <1>1, <3>2
      <4>2. g[n - 1] = v[n - 1][x \div 2^(n - 1)]
        BY <2>1, <4>1
      <4> QED  BY <1>2, <3>2, <4>1, <4>2
    <3> QED  BY <3>1, <3>2
  <2> HIDE DEF join, v
  <2> QED  BY <2>2
<1>4. up = CHOOSE u : Is(u)
  BY DEF Climb
<1> HIDE DEF up
<1>5. Is(up)
  <2> HIDE DEF Is
  <2> QED  BY <1>3, <1>4
<1>6. /\ up[0] = g[0]
      /\ \A n \in 1 .. Height : up[n] = join(n, up[n - 1]) /\ g[n] = join(n, g[n - 1])
  <2> HIDE DEF join, v, g
  <2>1. 0 \in 0 .. Height /\ \A n \in 1 .. Height : n \in 0 .. Height /\ n # 0
    BY <1>1
  <2> QED  BY <1>3, <1>5, <2>1
<1>7. \A n \in 0 .. Height : g[n] = v[n][x \div 2^n]
  OBVIOUS
<1> HIDE DEF join, v, g, Is
<1> DEFINE T == {n \in Nat : n <= Height => up[n] = g[n]}
<1>8. 0 \in T
  BY <1>6
<1>9. ASSUME NEW n \in T PROVE n + 1 \in T
  <2>1. n + 1 \in Nat
    OBVIOUS
  <2>2. ASSUME n + 1 <= Height PROVE up[n + 1] = g[n + 1]
    <3>1. n + 1 \in 1 .. Height /\ (n + 1) - 1 = n /\ up[n] = g[n]
      BY <1>1, <2>2
    <3>2. up[n + 1] = join(n + 1, up[(n + 1) - 1]) /\ g[n + 1] = join(n + 1, g[(n + 1) - 1])
      BY <1>6, <3>1
    <3> QED  BY <3>1, <3>2
  <2> QED  BY <2>1, <2>2
<1>10. T = Nat
  <2> HIDE DEF T
  <2>1. T \subseteq Nat
    BY DEF T
  <2> QED  BY <1>8, <1>9, <2>1, Induction
<1>11. \A n \in 0 .. Height : up[n] = v[n][x \div 2^n]
  BY <1>1, <1>7, <1>10
<1> QED  BY <1>11 DEF up, v, a

-----------------------------------------------------------------------------
(* Every query is a function of its address. *)
ForsSecretAt(t, x) == Prf(At(0, t, FORSPRF, x, 0, 0))
ForsLeafAt(t, x) == Thash(At(0, t, FORSTREE, x, 0, 0), <<ForsSecretAt(t, x)>>)
ForsKeyAt(t, x) == Thash(At(0, t, FORSPK, x, 0, 0), <<ForsLeafAt(t, x)>>)

Query(a) ==
    IF a.type = WOTS THEN KeysAt(a.layer, a.tree)[a.keypair].chains[a.chain][a.index + 1]
    ELSE IF a.type = WOTSPK THEN KeysAt(a.layer, a.tree)[a.keypair].leaf
    ELSE IF a.type = HASHTREE THEN NodesAt(a.layer, a.tree)[a.chain][a.index]
    ELSE IF a.type = FORSTREE THEN ForsLeafAt(a.tree, a.keypair)
    ELSE IF a.type = FORSPK THEN ForsKeyAt(a.tree, a.keypair)
    ELSE Prf(a)

IsQuery(q) == q = Query(q.addr)

QueriesAt(l, t) == QueriesOf(KeysAt(l, t), NodesAt(l, t))

LEMMA Types ==
    /\ WOTS = 0 /\ WOTSPK = 1 /\ HASHTREE = 2 /\ FORSTREE = 3 /\ FORSPK = 4 /\ WOTSPRF = 5 /\ FORSPRF = 6
BY DEF WOTS, WOTSPK, HASHTREE, FORSTREE, FORSPK, WOTSPRF, FORSPRF

LEMMA ForsIs ==
    ASSUME NEW t, NEW x, NEW a, a = At(0, t, WOTS, x, 0, 0)
    PROVE  /\ ForsSecret(a) = ForsSecretAt(t, x)
           /\ ForsLeaf(a, ForsSecretAt(t, x)) = ForsLeafAt(t, x)
           /\ ForsKey(a, ForsSecretAt(t, x)) = ForsKeyAt(t, x)
<1>1. CopyKeypair(Zero, a) = At(0, t, 0, x, 0, 0)
  BY Setters, CopySetters
<1>2. /\ SetType(CopyKeypair(Zero, a), FORSPRF) = At(0, t, FORSPRF, x, 0, 0)
      /\ SetType(CopyKeypair(Zero, a), FORSTREE) = At(0, t, FORSTREE, x, 0, 0)
      /\ SetType(CopyKeypair(Zero, a), FORSPK) = At(0, t, FORSPK, x, 0, 0)
  BY <1>1, Setters
<1> QED  BY <1>2 DEF ForsSecret, ForsLeaf, ForsKey, ForsSecretAt, ForsLeafAt, ForsKeyAt

LEMMA ForsQueries ==
    ASSUME NEW t, NEW x
    PROVE  IsQuery(ForsSecretAt(t, x)) /\ IsQuery(ForsLeafAt(t, x)) /\ IsQuery(ForsKeyAt(t, x))
<1>1. IsQuery(ForsSecretAt(t, x))
  BY AddressFields, QueryAddress, Types DEF IsQuery, Query, ForsSecretAt
<1>2. IsQuery(ForsLeafAt(t, x))
  <2>1. ForsLeafAt(t, x).addr = At(0, t, FORSTREE, x, 0, 0)
    BY QueryAddress DEF ForsLeafAt
  <2> QED  BY <2>1, AddressFields, Types DEF IsQuery, Query
<1>3. IsQuery(ForsKeyAt(t, x))
  <2>1. ForsKeyAt(t, x).addr = At(0, t, FORSPK, x, 0, 0)
    BY QueryAddress DEF ForsKeyAt
  <2> QED  BY <2>1, AddressFields, Types DEF IsQuery, Query
<1> QED  BY <1>1, <1>2, <1>3

(* All queries of the tree at a place are such, and they are finitely many. *)
LEMMA ChainQuery ==
    ASSUME NEW l, NEW t, NEW x, NEW i, NEW k, x \in Leaves, i \in Chains, k \in 0 .. W - 1
    PROVE  IsQuery(KeysAt(l, t)[x].chains[i][k])
<1> DEFINE c == KeysAt(l, t)[x].chains[i]
<1>1. CASE k = 0
  <2>1. c[k] = Prf(At(l, t, WOTSPRF, x, i, 0))
    BY <1>1, KeyChain
  <2> HIDE DEF c
  <2>2. IsQuery(c[k])
    BY <2>1, AddressFields, QueryAddress, Types DEF IsQuery, Query
  <2> QED  BY <2>2 DEF c
<1>2. CASE k # 0
  <2>1. k \in 1 .. W - 1 /\ (k - 1) + 1 = k
    BY <1>2
  <2>2. c[k] = Thash(At(l, t, WOTS, x, i, k - 1), <<c[k - 1]>>)
    BY <2>1, KeyChain
  <2>3. c[k].addr = At(l, t, WOTS, x, i, k - 1)
    BY <2>2, QueryAddress
  <2>4. Query(At(l, t, WOTS, x, i, k - 1)) = c[(k - 1) + 1]
    BY AddressFields DEF Query
  <2> HIDE DEF c
  <2>5. IsQuery(c[k])
    BY <2>1, <2>3, <2>4 DEF IsQuery
  <2> QED  BY <2>5 DEF c
<1> QED  BY <1>1, <1>2

LEMMA NodeQuery ==
    ASSUME NEW l, NEW t, NEW n, NEW x, n \in 0 .. Height, x \in 0 .. 2^(Height - n) - 1
    PROVE  IsQuery(NodesAt(l, t)[n][x])
<1> DEFINE v == NodesAt(l, t)
<1>1. CASE n = 0
  <2>1. x \in Leaves
    BY <1>1, Exponents DEF Leaves
  <2>2. v[n][x] = KeysAt(l, t)[x].leaf
    BY <1>1, <2>1, NodesAtAre
  <2>3. v[n][x].addr = At(l, t, WOTSPK, x, 0, 0)
    BY <2>1, <2>2, KeyIs, QueryAddress
  <2>4. Query(At(l, t, WOTSPK, x, 0, 0)) = KeysAt(l, t)[x].leaf
    BY AddressFields, Types DEF Query
  <2> HIDE DEF v
  <2>5. IsQuery(v[n][x])
    BY <2>2, <2>3, <2>4 DEF IsQuery
  <2> QED  BY <2>5 DEF v
<1>2. CASE n # 0
  <2>1. n \in 1 .. Height
    BY <1>2
  <2>2. v[n][x] = Thash(At(l, t, HASHTREE, 0, n, x), <<v[n - 1][2 * x], v[n - 1][2 * x + 1]>>)
    BY <2>1, NodesAtAre
  <2>3. v[n][x].addr = At(l, t, HASHTREE, 0, n, x)
    BY <2>2, QueryAddress
  <2>4. Query(At(l, t, HASHTREE, 0, n, x)) = v[n][x]
    BY AddressFields, Types DEF Query
  <2> HIDE DEF v
  <2>5. IsQuery(v[n][x])
    BY <2>3, <2>4 DEF IsQuery
  <2> QED  BY <2>5 DEF v
<1> QED  BY <1>1, <1>2

LEMMA TreeQueries == ASSUME NEW l, NEW t, NEW q \in QueriesAt(l, t) PROVE IsQuery(q)
<1>1. CASE q \in {KeysAt(l, t)[x].chains[i][k] : x \in Leaves, i \in Chains, k \in 0 .. W - 1}
  <2>1. PICK x \in Leaves, i \in Chains, k \in 0 .. W - 1 : q = KeysAt(l, t)[x].chains[i][k]
    BY <1>1
  <2> QED  BY <2>1, ChainQuery
<1>2. CASE q \in UNION {{NodesAt(l, t)[n][x] : x \in DOMAIN NodesAt(l, t)[n]} : n \in 0 .. Height}
  <2>1. PICK n \in 0 .. Height : q \in {NodesAt(l, t)[n][x] : x \in DOMAIN NodesAt(l, t)[n]}
    BY <1>2
  <2>2. PICK x \in DOMAIN NodesAt(l, t)[n] : q = NodesAt(l, t)[n][x]
    BY <2>1
  <2>3. DOMAIN NodesAt(l, t)[n] = 0 .. 2^(Height - n) - 1
    BY NodesAtAre
  <2>4. x \in 0 .. 2^(Height - n) - 1
    BY <2>3
  <2> QED  BY <2>2, <2>4, NodeQuery
<1> QED  BY <1>1, <1>2 DEF QueriesAt, QueriesOf

LEMMA ImageFinite ==
    ASSUME NEW S, NEW f, IsFiniteSet(S) PROVE IsFiniteSet({f[x] : x \in S})
<1> DEFINE T == {f[x] : x \in S}
           g == [x \in S |-> f[x]]
<1>1. g \in [S -> T] /\ \A y \in T : \E x \in S : g[x] = y
  OBVIOUS
<1>2. g \in Surjection(S, T)
  BY <1>1 DEF Surjection
<1> HIDE DEF g, T
<1>3. IsFiniteSet(T)
  BY <1>2, FS_Surjection
<1> QED  BY <1>3 DEF T

LEMMA QueriesFinite == ASSUME NEW l, NEW t PROVE IsFiniteSet(QueriesAt(l, t))
<1> DEFINE v == NodesAt(l, t)
           u == KeysAt(l, t)
           C == {u[x].chains[i][k] : x \in Leaves, i \in Chains, k \in 0 .. W - 1}
           row(n) == {v[n][x] : x \in DOMAIN v[n]}
           R == {row(n) : n \in 0 .. Height}
<1>1. Height \in Nat /\ 2^Height \in Nat /\ WotsLen \in Nat /\ W \in Nat
  BY Exponents, LeavesAre, WotsLenIs, WIs
<1>2. IsFiniteSet(Leaves) /\ IsFiniteSet(Chains) /\ IsFiniteSet(0 .. W - 1) /\ IsFiniteSet(0 .. Height)
  BY <1>1, FS_Interval, LeavesAre DEF Chains
<1>3. IsFiniteSet(C)
  <2> DEFINE S == (Leaves \X Chains) \X (0 .. W - 1)
             f == [p \in S |-> u[p[1][1]].chains[p[1][2]][p[2]]]
  <2>1. IsFiniteSet(S)
    BY <1>2, FS_Product
  <2>2. ASSUME NEW x \in Leaves, NEW i \in Chains, NEW k \in 0 .. W - 1
        PROVE  \E p \in S : f[p] = u[x].chains[i][k]
    <3>1. <<<<x, i>>, k>> \in S /\ f[<<<<x, i>>, k>>] = u[x].chains[i][k]
      OBVIOUS
    <3> QED  BY <3>1
  <2> HIDE DEF S, f
  <2> DEFINE V == {f[p] : p \in S}
  <2>3. IsFiniteSet(V)
    BY <2>1, ImageFinite
  <2>4. ASSUME NEW q \in C PROVE q \in V
    <3>1. PICK x \in Leaves, i \in Chains, k \in 0 .. W - 1 : q = u[x].chains[i][k]
      OBVIOUS
    <3> QED  BY <2>2, <3>1
  <2> HIDE DEF C, V
  <2>5. C \subseteq V
    BY <2>4
  <2> QED  BY <2>3, <2>5, FS_Subset
<1>4. IsFiniteSet(R) /\ \A s \in R : IsFiniteSet(s)
  <2> DEFINE f == [n \in 0 .. Height |-> row(n)]
  <2>1. R = {f[n] : n \in 0 .. Height}
    OBVIOUS
  <2>2. IsFiniteSet({f[n] : n \in 0 .. Height})
    BY <1>2, ImageFinite
  <2>3. ASSUME NEW n \in 0 .. Height PROVE IsFiniteSet(row(n))
    <3>1. DOMAIN v[n] = 0 .. 2^(Height - n) - 1 /\ 2^(Height - n) \in Nat
      BY NodesAtAre, Levels
    <3>2. IsFiniteSet(DOMAIN v[n])
      BY <3>1, FS_Interval
    <3> QED  BY <3>2, ImageFinite
  <2> QED  BY <2>1, <2>2, <2>3
<1>5. QueriesAt(l, t) = C \cup UNION R
  BY DEF QueriesAt, QueriesOf
<1> HIDE DEF C, R
<1> QED  BY <1>3, <1>4, <1>5, FS_UNION, FS_Union

-----------------------------------------------------------------------------
(* The digits of a message and of its checksum. *)
Bytes(n) == [1 .. n -> 0 .. 255]

SumLen == (Len2 * LogW + 7) \div 8      \* the bytes of the checksum

LEMMA PowerPositive == ASSUME NEW n, n \in 0 .. MaxExponent PROVE 2^n \in Nat \ {0}
<1>1. n \in Nat /\ 0 \in Nat /\ n + 0 <= MaxExponent
  BY Exponents
<1> QED  BY <1>1, PowerSum

LEMMA DigitPlace ==
    ASSUME NEW d \in Nat, NEW n \in Nat, d * LogW <= 8 * n, NEW i \in 0 .. d - 1
    PROVE  /\ (i * LogW) \div 8 + 1 \in 1 .. n
           /\ 8 - LogW - ((i * LogW) % 8) \in 0 .. 7
<1>1. LogW = 1 \/ LogW = 2 \/ LogW = 4 \/ LogW = 8
  BY WIs
<1> DEFINE p == i * LogW
<1>2. p \in Nat /\ p + LogW <= 8 * n /\ (p % 8) + LogW <= 8
  <2>1. CASE LogW = 1
    BY <2>1
  <2>2. CASE LogW = 2
    BY <2>2
  <2>3. CASE LogW = 4
    BY <2>3
  <2>4. CASE LogW = 8
    BY <2>4
  <2> QED  BY <1>1, <2>1, <2>2, <2>3, <2>4
<1> HIDE DEF p
<1>3. p \div 8 + 1 \in 1 .. n /\ 8 - LogW - (p % 8) \in 0 .. 7
  BY <1>1, <1>2
<1> QED  BY <1>3 DEF p

LEMMA DigitsAre ==
    ASSUME NEW d \in Nat, NEW n \in Nat, d * LogW <= 8 * n, NEW b, b \in Bytes(n)
    PROVE  BaseW(b, d) \in [0 .. d - 1 -> 0 .. W - 1]
<1>1. ASSUME NEW i \in 0 .. d - 1
      PROVE  (b[(i * LogW) \div 8 + 1] \div 2^(8 - LogW - ((i * LogW) % 8))) % W \in 0 .. W - 1
  <2> DEFINE j == (i * LogW) \div 8 + 1
             e == 8 - LogW - ((i * LogW) % 8)
  <2>1. j \in 1 .. n /\ e \in 0 .. 7
    BY DigitPlace
  <2> HIDE DEF j, e
  <2>2. b[j] \in Nat
    <3>1. b \in [1 .. n -> 0 .. 255]
      BY DEF Bytes
    <3>2. b[j] \in 0 .. 255
      BY <2>1, <3>1
    <3> QED  BY <3>2
  <2>3. e \in 0 .. MaxExponent
    BY <2>1, Exponents
  <2>4. 2^e \in Nat \ {0}
    BY <2>3, PowerPositive
  <2>5. b[j] \div 2^e \in Nat
    BY <2>2, <2>4, Division
  <2>6. W \in Nat \ {0}
    BY WIs
  <2>7. (b[j] \div 2^e) % W \in 0 .. W - 1
    BY <2>5, <2>6, Division
  <2> QED  BY <2>7 DEF j, e
<1> QED  BY <1>1 DEF BaseW

LEMMA MessageLength ==
    /\ (Len1 * LogW) \div 8 \in Nat /\ Len1 * LogW <= 8 * ((Len1 * LogW) \div 8)
    /\ SumLen \in Nat /\ Len2 * LogW \in Nat /\ Len2 * LogW <= 8 * SumLen /\ SumLen <= Len2
    /\ 8 * SumLen - Len2 * LogW = (8 - ((Len2 * LogW) % 8)) % 8
    /\ 8 * SumLen <= MaxExponent
<1> DEFINE p == Len1 * LogW
           q == Len2 * LogW
<1>1. LogW = 1 \/ LogW = 2 \/ LogW = 4 \/ LogW = 8
  BY WIs
<1>2. Len1 \in Nat /\ Len2 \in Nat \ {0} /\ 8 * Len2 + 8 <= MaxExponent
  <2>1. MaxExponent = 8 * Len2 + Height * Depth + 8 /\ Height * Depth \in Nat
    BY Exponents DEF MaxExponent
  <2> QED  BY <2>1, WotsLenIs
<1>3. p \in Nat /\ p % 8 = 0
  BY <1>1, <1>2, HypertreeAssumption
<1>4. q \in Nat /\ q <= 8 * Len2
  BY <1>1, <1>2
<1> HIDE DEF p, q
<1>5. p \div 8 \in Nat /\ p <= 8 * (p \div 8)
  BY <1>3
<1> DEFINE n == (q + 7) \div 8
<1>6. n \in Nat /\ q <= 8 * n /\ n <= Len2 /\ 8 * n - q = (8 - (q % 8)) % 8
  BY <1>2, <1>4
<1>7. 8 * n <= MaxExponent
  BY <1>2, <1>6, Exponents
<1>8. SumLen = n
  BY DEF SumLen, q
<1> QED  BY <1>4, <1>5, <1>6, <1>7, <1>8 DEF p, q

LEMMA AlignedIs ==
    ASSUME NEW sum \in Nat
    PROVE  /\ 2^(8 * SumLen - Len2 * LogW) \in Nat \ {0}
           /\ AlignedChecksum(sum) = sum * 2^(8 * SumLen - Len2 * LogW)
           /\ AlignedChecksum(sum) \in Nat
<1> DEFINE e == 8 * SumLen - Len2 * LogW
<1>1. e \in 0 .. MaxExponent /\ e = (8 - ((Len2 * LogW) % 8)) % 8
  <2> DEFINE q == Len2 * LogW
  <2>1. /\ q \in Nat /\ q <= 8 * SumLen /\ SumLen \in Nat /\ 8 * SumLen <= MaxExponent
        /\ MaxExponent \in Nat /\ 8 * SumLen - q = (8 - (q % 8)) % 8
    BY MessageLength, Exponents
  <2> HIDE DEF q
  <2>2. 8 * SumLen - q \in 0 .. MaxExponent
    BY <2>1
  <2> QED  BY <2>1, <2>2 DEF q
<1> HIDE DEF e
<1>2. 2^e \in Nat \ {0}
  BY <1>1, PowerPositive
<1>3. AlignedChecksum(sum) = sum * 2^e
  BY <1>1 DEF AlignedChecksum
<1>4. sum * 2^e \in Nat
  BY <1>2
<1> QED  BY <1>2, <1>3, <1>4 DEF e

(* The bytes of the checksum, counted from zero. *)
LEMMA SumBytes ==
    ASSUME NEW sum \in Nat
    PROVE  /\ ChecksumBytes(sum) \in Bytes(SumLen)
           /\ \A j \in 1 .. SumLen :
                  /\ 8 * (SumLen - j) \in 0 .. MaxExponent
                  /\ ChecksumBytes(sum)[j] = (AlignedChecksum(sum) \div 2^(8 * (SumLen - j))) % 256
<1> DEFINE A == AlignedChecksum(sum)
<1>1. A \in Nat
  BY AlignedIs
<1> HIDE DEF A
<1>2. ChecksumBytes(sum) = [i \in 1 .. SumLen |-> (A \div 256^(SumLen - i)) % 256]
  BY DEF ChecksumBytes, SumLen, A
<1>3. ASSUME NEW j \in 1 .. SumLen
      PROVE  /\ 8 * (SumLen - j) \in 0 .. MaxExponent
             /\ 256^(SumLen - j) = 2^(8 * (SumLen - j))
             /\ (A \div 2^(8 * (SumLen - j))) % 256 \in 0 .. 255
  <2>1. SumLen - j \in 0 .. Len2 /\ 8 * (SumLen - j) \in 0 .. MaxExponent
    <3>1. SumLen \in Nat /\ SumLen <= Len2 /\ Len2 \in Nat /\ 8 * SumLen <= MaxExponent
          /\ MaxExponent \in Nat
      BY MessageLength, WotsLenIs, Exponents
    <3> QED  BY <3>1
  <2> DEFINE m == SumLen - j
             e == 8 * m
  <2>2. 256^m = 2^e
    BY <2>1, PowerAssumption
  <2> HIDE DEF e
  <2>3. 2^e \in Nat \ {0}
    BY <2>1, PowerPositive DEF e
  <2>4. A \div 2^e \in Nat
    BY <1>1, <2>3, Division
  <2>5. (A \div 2^e) % 256 \in 0 .. 255
    BY <2>4
  <2> QED  BY <2>1, <2>2, <2>5 DEF e
<1>4. \A j \in 1 .. SumLen : ChecksumBytes(sum)[j] = (A \div 2^(8 * (SumLen - j))) % 256
  BY <1>2, <1>3
<1>5. ChecksumBytes(sum) \in Bytes(SumLen)
  <2>1. \A i \in 1 .. SumLen : (A \div 256^(SumLen - i)) % 256 \in 0 .. 255
    BY <1>3
  <2> QED  BY <1>2, <2>1 DEF Bytes
<1> QED  BY <1>3, <1>4, <1>5 DEF A

(* A digit that lies in one byte is the digit of the whole number. *)
LEMMA ByteDigit ==
    ASSUME NEW X \in Nat, NEW e \in 0 .. 7, e + LogW <= 8
    PROVE  ((X % 256) \div 2^e) % W = (X \div 2^e) % W
<1> DEFINE u == 8 - e - LogW
           E == 2^e
           U == 2^u
           q == X \div 256
           r == X % 256
<1>1. LogW \in Nat /\ W = 2^LogW /\ W \in Nat \ {0} /\ u \in Nat /\ e \in Nat
  BY WIs
<1>2. E \in Nat \ {0} /\ U \in Nat \ {0} /\ 256 = E * (W * U)
  <2>1. 8 <= MaxExponent /\ MaxExponent \in Nat
    BY Exponents
  <2>2. LogW + u = 8 - e /\ e + (8 - e) = 8 /\ 8 - e \in Nat
    BY <1>1
  <2>3. LogW + u <= MaxExponent /\ e + (8 - e) <= MaxExponent
    BY <2>1, <2>2
  <2> HIDE DEF u
  <2>4. 2^u \in Nat \ {0} /\ 2^(LogW + u) = 2^LogW * 2^u
    BY <1>1, <2>3, PowerSum
  <2> DEFINE v == 8 - e
  <2>5. v \in Nat /\ e + v <= MaxExponent /\ e + v = 8 /\ LogW + u = v
    BY <2>2, <2>3
  <2> HIDE DEF v
  <2>6. 2^e \in Nat \ {0} /\ 2^(e + v) = 2^e * 2^v
    BY <1>1, <2>5, PowerSum
  <2>7. 2^v = W * U
    BY <1>1, <2>4, <2>5
  <2>8. 256 = E * 2^v
    <3>1. 2^(e + v) = 2^8
      BY <2>5
    <3> QED  BY <2>6, <3>1, SmallPowers
  <2> QED  BY <2>4, <2>6, <2>7, <2>8
<1> HIDE DEF u, E, U
<1>3. q \in Nat /\ r \in Nat /\ X = q * 256 + r
  OBVIOUS
<1> HIDE DEF q, r
<1> DEFINE r1 == r \div E
           r0 == r % E
           r2 == r1 \div W
           r3 == r1 % W
<1>4. r1 \in Nat /\ r0 \in 0 .. E - 1 /\ r = r1 * E + r0
  BY <1>2, <1>3, Division
<1> HIDE DEF r0
<1> HIDE DEF r1
<1>5. r2 \in Nat /\ r3 \in 0 .. W - 1 /\ r1 = r2 * W + r3
  BY <1>1, <1>4, Division
<1> HIDE DEF r2, r3
<1> DEFINE z == q * U + r2
           y == z * W + r3
<1>6. z \in Nat /\ y \in Nat
  BY <1>1, <1>2, <1>3, <1>5
<1>7. X = y * E + r0
  <2>1. q * 256 = (q * U * W) * E
    <3>1. q * 256 = q * (E * (W * U))
      BY <1>2
    <3>2. q * (E * (W * U)) = (q * U * W) * E
      BY <1>1, <1>2, <1>3
    <3> QED  BY <3>1, <3>2
  <2>2. y = q * U * W + r1
    <3>1. z * W = q * U * W + r2 * W
      BY <1>1, <1>2, <1>3, <1>5
    <3>2. q * U * W \in Int /\ r2 * W \in Int
      BY <1>1, <1>2, <1>3, <1>5
    <3> QED  BY <1>5, <3>1, <3>2
  <2>3. y * E = (q * U * W) * E + r1 * E
    <3> DEFINE c == q * U * W
    <3>1. c \in Int /\ y = c + r1
      BY <1>1, <1>2, <1>3, <2>2
    <3> HIDE DEF c, y
    <3>2. (c + r1) * E = c * E + r1 * E
      BY <1>2, <1>4, <3>1
    <3> QED  BY <3>1, <3>2 DEF c
  <2> DEFINE m == (q * U * W) * E
             n == r1 * E
             o == y * E
  <2>4. m \in Int /\ n \in Int /\ o = m + n /\ X = m + r /\ r = n + r0 /\ r0 \in Int
    BY <1>1, <1>2, <1>3, <1>4, <2>1, <2>3
  <2> HIDE DEF m, n, o
  <2>5. X = o + r0
    BY <2>4
  <2> QED  BY <2>5 DEF o
<1> HIDE DEF y
<1>8. X \div E = y
  BY <1>2, <1>4, <1>6, <1>7, Quotient
<1>9. y % W = r3
  <2> HIDE DEF z
  <2>1. y \in Nat /\ z \in Int /\ y = z * W + r3
    BY <1>6 DEF y
  <2> QED  BY <1>1, <1>5, <2>1, Quotient
<1> QED  BY <1>8, <1>9 DEF r3, r1, r, E

Prefix(sum, i) == AlignedChecksum(sum) \div 2^(8 * SumLen - LogW * i)

Digit(sum, i) == BaseW(ChecksumBytes(sum), Len2)[i]

LEMMA PrefixExponent ==
    ASSUME NEW i, i \in 0 .. Len2
    PROVE  8 * SumLen - LogW * i \in 0 .. MaxExponent
<1>1. LogW = 1 \/ LogW = 2 \/ LogW = 4 \/ LogW = 8
  BY WIs
<1>2. Len2 \in Nat /\ SumLen \in Nat /\ 8 * SumLen <= MaxExponent /\ MaxExponent \in Nat
      /\ Len2 * LogW <= 8 * SumLen
  BY MessageLength, WotsLenIs, Exponents
<1> QED  BY <1>1, <1>2

LEMMA DigitIs ==
    ASSUME NEW sum \in Nat, NEW i, i \in 0 .. Len2 - 1
    PROVE  Digit(sum, i) = Prefix(sum, i + 1) % W
<1> DEFINE A == AlignedChecksum(sum)
           p == i * LogW
           j == p \div 8 + 1
           e == 8 - LogW - (p % 8)
           m == 8 * (SumLen - j)
           X == A \div 2^m
<1>1. /\ Len2 \in Nat /\ SumLen \in Nat /\ LogW \in Nat \ {0} /\ Len2 * LogW <= 8 * SumLen
      /\ MaxExponent \in Nat /\ 8 * SumLen <= MaxExponent
  BY MessageLength, WotsLenIs, WIs, Exponents
<1>2. j \in 1 .. SumLen /\ e \in 0 .. 7 /\ e + LogW <= 8
  <2>1. j \in 1 .. SumLen /\ e \in 0 .. 7
    BY <1>1, DigitPlace
  <2>2. p \in Nat
    BY <1>1
  <2> HIDE DEF p
  <2>3. p % 8 \in 0 .. 7
    BY <2>2
  <2>4. e + LogW <= 8
    BY <1>1, <2>3
  <2> HIDE DEF j, e
  <2> QED  BY <2>1, <2>4
<1>3. Digit(sum, i) = (ChecksumBytes(sum)[j] \div 2^e) % W
  BY DEF Digit, BaseW
<1>4. ChecksumBytes(sum)[j] = X % 256 /\ m \in 0 .. MaxExponent
  BY <1>2, SumBytes
<1>5. m + e = 8 * SumLen - LogW * (i + 1) /\ m + e <= MaxExponent
  <2>1. p \in Nat /\ LogW * (i + 1) = p + LogW
    BY <1>1
  <2> HIDE DEF p
  <2>2. m + e = 8 * SumLen - (p + LogW)
    BY <1>1, <2>1
  <2>3. m + e <= 8 * SumLen
    BY <1>1, <2>1, <2>2
  <2> QED  BY <1>1, <2>1, <2>2, <2>3
<1> HIDE DEF m, e, j
<1>6. A \in Nat /\ m \in Nat /\ e \in Nat
  BY <1>2, <1>4, AlignedIs
<1> HIDE DEF A
<1>7. 2^m \in Nat \ {0} /\ 2^e \in Nat \ {0} /\ 2^(m + e) = 2^m * 2^e
  BY <1>5, <1>6, PowerSum
<1>8. X \in Nat /\ X \div 2^e = A \div 2^(m + e)
  <2> DEFINE M == 2^m
             N == 2^e
             P == 2^(m + e)
  <2>1. A \in Nat /\ M \in Nat \ {0} /\ N \in Nat \ {0} /\ P = M * N
    BY <1>6, <1>7
  <2> HIDE DEF M, N, P
  <2>2. A \div M \in Nat
    BY <2>1, Division
  <2>3. (A \div M) \div N = A \div P
    BY <2>1, DivProduct
  <2> QED  BY <2>2, <2>3 DEF M, N, P
<1> HIDE DEF X
<1>9. ((X % 256) \div 2^e) % W = (X \div 2^e) % W
  BY <1>2, <1>8, ByteDigit
<1> QED  BY <1>3, <1>4, <1>5, <1>8, <1>9 DEF Prefix, A

LEMMA Prefixes ==
    ASSUME NEW sum \in Nat
    PROVE  /\ \A i \in 0 .. Len2 : Prefix(sum, i) \in Nat
           /\ \A i \in 0 .. Len2 - 1 : Prefix(sum, i + 1) = Prefix(sum, i) * W + Digit(sum, i)
           /\ Prefix(sum, Len2) = sum
           /\ sum < 2^(LogW * Len2) => Prefix(sum, 0) = 0
<1> DEFINE A == AlignedChecksum(sum)
<1>1. A \in Nat /\ W \in Nat \ {0} /\ W = 2^LogW /\ LogW \in Nat /\ MaxExponent \in Nat
      /\ Len2 \in Nat /\ SumLen \in Nat
  BY AlignedIs, WIs, Exponents, WotsLenIs, MessageLength
<1>2. ASSUME NEW i, i \in 0 .. Len2
      PROVE  2^(8 * SumLen - LogW * i) \in Nat \ {0} /\ Prefix(sum, i) \in Nat
  <2> DEFINE e == 8 * SumLen - LogW * i
  <2>1. e \in 0 .. MaxExponent
    BY <1>2, PrefixExponent
  <2> HIDE DEF e
  <2>2. 2^e \in Nat \ {0}
    BY <2>1, PowerPositive
  <2>3. A \div 2^e \in Nat
    BY <1>1, <2>2, Division
  <2> QED  BY <2>2, <2>3 DEF e, Prefix
<1>3. ASSUME NEW i \in 0 .. Len2 - 1
      PROVE  Prefix(sum, i + 1) = Prefix(sum, i) * W + Digit(sum, i)
  <2> DEFINE f == 8 * SumLen - LogW * (i + 1)
             e == 8 * SumLen - LogW * i
  <2>1. i + 1 \in 0 .. Len2 /\ i \in 0 .. Len2 /\ i \in Nat
    BY <1>1
  <2>2. e = f + LogW
    <3>1. LogW * (i + 1) = LogW * i + LogW /\ LogW * i \in Int
      BY <1>1, <2>1
    <3> QED  BY <1>1, <3>1
  <2>3. f \in 0 .. MaxExponent /\ e \in 0 .. MaxExponent
    BY <2>1, PrefixExponent
  <2> HIDE DEF e, f
  <2>4. f \in Nat /\ f + LogW <= MaxExponent
    BY <2>2, <2>3
  <2>5. 2^f \in Nat \ {0} /\ 2^(f + LogW) = 2^f * 2^LogW
    BY <1>1, <2>4, PowerSum
  <2> DEFINE F == 2^f
             B == A \div F
  <2>6. F \in Nat \ {0} /\ 2^e = F * W
    BY <1>1, <2>2, <2>5
  <2> HIDE DEF A, F
  <2>7. B \in Nat /\ B \div W = A \div (F * W)
    <3>1. A \div F \in Nat
      BY <1>1, <2>6, Division
    <3>2. (A \div F) \div W = A \div (F * W)
      BY <1>1, <2>6, DivTwice
    <3> QED  BY <3>1, <3>2
  <2>8. Prefix(sum, i + 1) = B /\ Prefix(sum, i) = B \div W
    BY <2>6, <2>7 DEF Prefix, A, F, e, f
  <2>9. Digit(sum, i) = B % W
    BY <2>8, DigitIs
  <2> HIDE DEF B
  <2>10. B = (B \div W) * W + (B % W)
    BY <1>1, <2>7, Division
  <2> QED  BY <2>8, <2>9, <2>10
<1>4. Prefix(sum, Len2) = sum
  <2> DEFINE e == 8 * SumLen - Len2 * LogW
             E == 2^e
  <2>1. E \in Nat \ {0} /\ A = sum * E
    BY AlignedIs
  <2>2. LogW * Len2 = Len2 * LogW
    BY <1>1
  <2>3. Prefix(sum, Len2) = A \div E
    BY <2>2 DEF Prefix
  <2> HIDE DEF A, E
  <2>4. A = sum * E + 0 /\ 0 \in 0 .. E - 1
    BY <1>1, <2>1
  <2>5. A \div E = sum
    BY <1>1, <2>1, <2>4, Quotient
  <2> QED  BY <2>3, <2>5
<1>5. ASSUME sum < 2^(LogW * Len2) PROVE Prefix(sum, 0) = 0
  <2> DEFINE p == LogW * Len2
             e == 8 * SumLen - Len2 * LogW
             E == 2^e
             P == 2^p
             T == 2^(8 * SumLen)
  <2>1. E \in Nat \ {0} /\ A = sum * E
    BY AlignedIs
  <2>2. p \in Nat /\ e \in Nat /\ p + e = 8 * SumLen /\ p + e <= MaxExponent
    BY <1>1, MessageLength
  <2> HIDE DEF p, e
  <2>3. 2^p \in Nat \ {0} /\ 2^(p + e) = 2^p * 2^e
    BY <2>2, PowerSum
  <2>4. P \in Nat \ {0} /\ T = P * E /\ sum < P
    BY <1>5, <2>2, <2>3 DEF p
  <2> HIDE DEF E, P, T, A
  <2>5. sum * E < P * E
    <3>1. (P - sum) * E >= E
      <4>1. (P - sum - 1) * E >= 0
        BY <2>1, <2>4
      <4>2. (P - sum - 1) * E = (P - sum) * E - E
        BY <2>1, <2>4
      <4>3. (P - sum) * E \in Int
        BY <2>1, <2>4
      <4> QED  BY <2>1, <4>1, <4>2, <4>3
    <3>2. (P - sum) * E = P * E - sum * E
      BY <2>1, <2>4
    <3>3. P * E \in Int /\ sum * E \in Int
      BY <2>1, <2>4
    <3> QED  BY <2>1, <3>1, <3>2, <3>3
  <2>6. T \in Nat \ {0} /\ A < T
    BY <1>1, <2>1, <2>4, <2>5
  <2>7. A \div T = 0
    <3>1. A = 0 * T + A /\ A \in 0 .. T - 1
      BY <1>1, <2>6
    <3> QED  BY <1>1, <2>6, <3>1, Quotient
  <2>8. 8 * SumLen - LogW * 0 = 8 * SumLen
    BY <1>1
  <2> QED  BY <2>7, <2>8 DEF Prefix, A, T
<1> QED  BY <1>2, <1>3, <1>4, <1>5

(* The sums of what the digits leave to the highest one. *)
IsLeft(f, d, n) == f = [i \in 0 .. n |-> IF i = 0 THEN 0 ELSE f[i - 1] + W - 1 - d[i - 1]]

LEMMA LeftExists ==
    ASSUME NEW d, NEW n \in Nat PROVE \E f : IsLeft(f, d, n)
<1> DEFINE T == {m \in Nat : \E f : IsLeft(f, d, m)}
<1>1. 0 \in T
  <2> DEFINE f == [i \in 0 .. 0 |-> 0]
  <2>1. \A i \in 0 .. 0 : i = 0
    OBVIOUS
  <2>2. IsLeft(f, d, 0)
    BY <2>1 DEF IsLeft
  <2> QED  BY <2>2
<1>2. ASSUME NEW m \in T PROVE m + 1 \in T
  <2>1. PICK f : IsLeft(f, d, m)
    OBVIOUS
  <2> DEFINE next(i, u) == u[i - 1] + W - 1 - d[i - 1]
             last == f[m] + W - 1 - d[m]
             g == [i \in 0 .. m + 1 |-> IF i = m + 1 THEN last ELSE f[i]]
  <2>2. m \in Nat
    OBVIOUS
  <2>3. \A i \in 0 .. m : f[i] = IF i = 0 THEN 0 ELSE next(i, f)
    BY <2>1 DEF IsLeft
  <2>4. g[m + 1] = last /\ \A i \in 0 .. m : g[i] = f[i]
    BY <2>2
  <2>5. ASSUME NEW i \in 0 .. m + 1
        PROVE  (IF i = m + 1 THEN last ELSE f[i]) = IF i = 0 THEN 0 ELSE g[i - 1] + W - 1 - d[i - 1]
    <3> HIDE DEF g
    <3>1. CASE i = m + 1
      <4>1. i # 0 /\ i - 1 = m /\ m \in 0 .. m
        BY <2>2, <3>1
      <4>2. g[i - 1] = f[m] /\ d[i - 1] = d[m]
        BY <2>4, <4>1
      <4> QED  BY <3>1, <4>1, <4>2
    <3>2. CASE i # m + 1
      <4>1. i \in 0 .. m
        BY <2>2, <3>2
      <4>2. i # 0 => i - 1 \in 0 .. m
        BY <2>2, <4>1
      <4>3. i # 0 => g[i - 1] = f[i - 1]
        BY <2>4, <4>2
      <4> QED  BY <2>3, <3>2, <4>1, <4>3
    <3> QED  BY <3>1, <3>2
  <2>6. IsLeft(g, d, m + 1)
    BY <2>5 DEF IsLeft
  <2> HIDE DEF g
  <2> QED  BY <2>2, <2>6
<1>3. T = Nat
  <2> HIDE DEF T
  <2>1. T \subseteq Nat
    BY DEF T
  <2> QED  BY <1>1, <1>2, <2>1, Induction
<1> QED  BY <1>3

LEMMA LeftBounds ==
    ASSUME NEW d \in [0 .. Len1 - 1 -> 0 .. W - 1], NEW f, IsLeft(f, d, Len1)
    PROVE  /\ f[0] = 0
           /\ \A i \in 0 .. Len1 - 1 : f[i + 1] = f[i] + (W - 1 - d[i])
           /\ \A i \in 0 .. Len1 : f[i] \in Nat
           /\ f[Len1] < 2^(LogW * Len2)
<1>1. W \in Nat \ {0} /\ Len1 \in Nat \ {0}
  BY WIs, WotsLenIs
<1>2. \A i \in 0 .. Len1 : f[i] = IF i = 0 THEN 0 ELSE f[i - 1] + W - 1 - d[i - 1]
  BY DEF IsLeft
<1>3. f[0] = 0
  BY <1>1, <1>2
<1> DEFINE T == {n \in Nat : n <= Len1 => f[n] \in Nat /\ f[n] <= n * (W - 1)}
<1>4. 0 \in T
  <2>1. 0 <= 0 * (W - 1)
    BY <1>1
  <2> QED  BY <1>3, <2>1
<1>5. ASSUME NEW n \in T PROVE n + 1 \in T /\ (n + 1 <= Len1 => f[n + 1] = f[n] + (W - 1 - d[n]))
  <2>1. n \in Nat /\ n + 1 \in Nat
    OBVIOUS
  <2>2. ASSUME n + 1 <= Len1
        PROVE  f[n + 1] \in Nat /\ f[n + 1] <= (n + 1) * (W - 1) /\ f[n + 1] = f[n] + (W - 1 - d[n])
    <3>1. f[n] \in Nat /\ f[n] <= n * (W - 1) /\ d[n] \in 0 .. W - 1
      BY <1>1, <2>1, <2>2
    <3>2. (n + 1) \in 0 .. Len1 /\ n + 1 # 0 /\ (n + 1) - 1 = n
      BY <1>1, <2>1, <2>2
    <3>3. f[n + 1] = f[n] + W - 1 - d[n]
      BY <1>2, <3>2
    <3>4. (n + 1) * (W - 1) = n * (W - 1) + (W - 1) /\ n * (W - 1) \in Int
      BY <1>1, <2>1
    <3> QED  BY <1>1, <3>1, <3>3, <3>4
  <2> QED  BY <2>1, <2>2
<1>6. T = Nat
  <2> HIDE DEF T
  <2>1. T \subseteq Nat
    BY DEF T
  <2> QED  BY <1>4, <1>5, <2>1, Induction
<1>7. \A i \in 0 .. Len1 - 1 : f[i + 1] = f[i] + (W - 1 - d[i])
  <2>1. ASSUME NEW i \in 0 .. Len1 - 1 PROVE f[i + 1] = f[i] + (W - 1 - d[i])
    <3>1. i \in T /\ i + 1 <= Len1
      BY <1>1, <1>6
    <3> HIDE DEF T
    <3> QED  BY <1>5, <3>1
  <2> QED  BY <2>1
<1>8. \A i \in 0 .. Len1 : f[i] \in Nat
  BY <1>1, <1>6
<1>9. f[Len1] <= Len1 * (W - 1)
  BY <1>1, <1>6
<1>10. f[Len1] < 2^(LogW * Len2)
  <2> DEFINE P == 2^(LogW * Len2)
             q == Len1 * (W - 1)
  <2>1. q < P /\ q \in Int
    BY <1>1, HypertreeAssumption
  <2>2. P \in Nat \ {0}
    <3>1. Prefix(0, 0) \in Nat /\ LogW * Len2 \in 0 .. MaxExponent
      <4>1. LogW * Len2 = Len2 * LogW /\ SumLen \in Nat
        BY WIs, WotsLenIs, MessageLength
      <4>2. Len2 * LogW \in Nat /\ Len2 * LogW <= 8 * SumLen /\ 8 * SumLen <= MaxExponent
            /\ MaxExponent \in Nat
        BY MessageLength, Exponents
      <4>3. 0 \in 0 .. Len2 /\ 0 \in Nat
        BY WotsLenIs
      <4>4. Prefix(0, 0) \in Nat
        BY <4>3, Prefixes
      <4> DEFINE z == Len2 * LogW
                 w == 8 * SumLen
      <4>5. z \in Nat /\ z <= w /\ w <= MaxExponent /\ w \in Nat
        BY <4>1, <4>2
      <4> HIDE DEF z, w
      <4>6. z \in 0 .. MaxExponent
        BY <4>2, <4>5
      <4> QED  BY <4>1, <4>4, <4>6 DEF z
    <3> QED  BY <3>1, PowerPositive
  <2>3. f[Len1] \in Nat
    BY <1>1, <1>8
  <2> HIDE DEF P, q
  <2>4. f[Len1] < P
    BY <1>9, <2>1, <2>2, <2>3 DEF q
  <2> QED  BY <2>4 DEF P
<1> QED  BY <1>3, <1>7, <1>8, <1>10

(* What chain_lengths gives. *)
LEMMA LengthsAre ==
    ASSUME NEW m, m \in Bytes((Len1 * LogW) \div 8)
    PROVE  \E f :
               /\ BaseW(m, Len1) \in [0 .. Len1 - 1 -> 0 .. W - 1]
               /\ IsLeft(f, BaseW(m, Len1), Len1)
               /\ f[Len1] \in Nat
               /\ ChainLengths(m) = [i \in Chains |-> IF i < Len1 THEN BaseW(m, Len1)[i]
                                                                 ELSE Digit(f[Len1], i - Len1)]
               /\ BaseW(ChecksumBytes(f[Len1]), Len2) \in [0 .. Len2 - 1 -> 0 .. W - 1]
<1> DEFINE d == BaseW(m, Len1)
           f == CHOOSE g : IsLeft(g, d, Len1)
<1>1. Len1 \in Nat /\ Len2 \in Nat
  BY WotsLenIs
<1>2. d \in [0 .. Len1 - 1 -> 0 .. W - 1]
  <2> DEFINE n == (Len1 * LogW) \div 8
  <2>1. n \in Nat /\ Len1 * LogW <= 8 * n
    BY MessageLength
  <2> HIDE DEF n
  <2> QED  BY <1>1, <2>1, DigitsAre DEF n
<1>3. IsLeft(f, d, Len1)
  <2> HIDE DEF d
  <2> QED  BY <1>1, LeftExists
<1>4. ChainLengths(m) = [i \in Chains |-> IF i < Len1 THEN d[i] ELSE Digit(f[Len1], i - Len1)]
  BY DEF ChainLengths, IsLeft, Digit
<1> HIDE DEF d, f
<1>5. f[Len1] \in Nat
  BY <1>1, <1>2, <1>3, LeftBounds
<1>6. BaseW(ChecksumBytes(f[Len1]), Len2) \in [0 .. Len2 - 1 -> 0 .. W - 1]
  <2>1. ChecksumBytes(f[Len1]) \in Bytes(SumLen)
    BY <1>5, SumBytes
  <2> QED  BY <1>1, <2>1, MessageLength, DigitsAre
<1> QED  BY <1>2, <1>3, <1>4, <1>5, <1>6 DEF d

LEMMA LengthsInRange ==
    ASSUME NEW m, m \in Bytes((Len1 * LogW) \div 8), NEW i, i \in Chains
    PROVE  ChainLengths(m)[i] \in 0 .. W - 1
<1>1. PICK f : /\ BaseW(m, Len1) \in [0 .. Len1 - 1 -> 0 .. W - 1]
               /\ ChainLengths(m) = [j \in Chains |-> IF j < Len1 THEN BaseW(m, Len1)[j]
                                                                 ELSE Digit(f[Len1], j - Len1)]
               /\ BaseW(ChecksumBytes(f[Len1]), Len2) \in [0 .. Len2 - 1 -> 0 .. W - 1]
  BY LengthsAre
<1>2. i \in 0 .. Len1 + Len2 - 1 /\ Len1 \in Nat /\ Len2 \in Nat
  BY WotsLenIs DEF Chains
<1>3. CASE i < Len1
  <2>1. ChainLengths(m)[i] = BaseW(m, Len1)[i] /\ i \in 0 .. Len1 - 1
    BY <1>1, <1>2, <1>3
  <2> QED  BY <1>1, <2>1
<1>4. CASE ~(i < Len1)
  <2>1. ChainLengths(m)[i] = Digit(f[Len1], i - Len1) /\ i - Len1 \in 0 .. Len2 - 1
    BY <1>1, <1>2, <1>4
  <2> QED  BY <1>1, <2>1 DEF Digit
<1> QED  BY <1>3, <1>4

(* Digits that are nowhere less make a number that is not less. *)
LEMMA NoLess ==
    ASSUME NEW a \in Nat, NEW b \in Nat, a < 2^(LogW * Len2), b < 2^(LogW * Len2),
           \A i \in 0 .. Len2 - 1 : Digit(a, i) \in 0 .. W - 1 /\ Digit(b, i) \in 0 .. W - 1
                                       /\ Digit(a, i) >= Digit(b, i)
    PROVE  a >= b
<1>1. W \in Nat /\ Len2 \in Nat
  BY WIs, WotsLenIs
<1> DEFINE T == {n \in Nat : n <= Len2 => Prefix(a, n) >= Prefix(b, n)}
<1>2. 0 \in T
  BY Prefixes
<1>3. ASSUME NEW n \in T PROVE n + 1 \in T
  <2>1. n + 1 \in Nat
    OBVIOUS
  <2>2. ASSUME n + 1 <= Len2 PROVE Prefix(a, n + 1) >= Prefix(b, n + 1)
    <3>1. PICK i \in 0 .. Len2 - 1 : i = n
      BY <1>1, <2>2
    <3> DEFINE p == Prefix(a, i)
               q == Prefix(b, i)
               x == Digit(a, i)
               y == Digit(b, i)
    <3>2. i \in 0 .. Len2
      BY <1>1
    <3>3. p \in Nat /\ q \in Nat
      BY <3>2, Prefixes
    <3>4. p >= q
      BY <1>1, <2>2, <3>1
    <3>5. Prefix(a, i + 1) = p * W + x /\ Prefix(b, i + 1) = q * W + y
      BY Prefixes
    <3>6. x \in Nat /\ y \in Nat /\ x >= y
      BY <1>1
    <3> HIDE DEF p, q, x, y
    <3>7. p * W >= q * W
      <4>1. (p - q) * W >= 0
        BY <1>1, <3>3, <3>4
      <4>2. (p - q) * W = p * W - q * W /\ p * W \in Int /\ q * W \in Int
        BY <1>1, <3>3
      <4> QED  BY <4>1, <4>2
    <3>8. p * W \in Int /\ q * W \in Int
      BY <1>1, <3>3
    <3>9. p * W + x >= q * W + y
      BY <3>6, <3>7, <3>8
    <3> QED  BY <3>1, <3>5, <3>9
  <2> QED  BY <2>1, <2>2
<1>4. T = Nat
  <2> HIDE DEF T
  <2>1. T \subseteq Nat
    BY DEF T
  <2> QED  BY <1>2, <1>3, <2>1, Induction
<1>5. Prefix(a, Len2) >= Prefix(b, Len2)
  BY <1>1, <1>4
<1> QED  BY <1>5, Prefixes

(* Chains that are all followed at least as far belong to the same lengths. *)
LEMMA NoCover ==
    ASSUME NEW m1, NEW m2, m1 \in Bytes((Len1 * LogW) \div 8), m2 \in Bytes((Len1 * LogW) \div 8),
           \A i \in Chains : ChainLengths(m1)[i] >= ChainLengths(m2)[i]
    PROVE  ChainLengths(m1) = ChainLengths(m2)
<1> DEFINE d == BaseW(m1, Len1)
           e == BaseW(m2, Len1)
<1>1. PICK f : /\ d \in [0 .. Len1 - 1 -> 0 .. W - 1]
               /\ IsLeft(f, d, Len1) /\ f[Len1] \in Nat
               /\ ChainLengths(m1) = [i \in Chains |-> IF i < Len1 THEN d[i]
                                                                  ELSE Digit(f[Len1], i - Len1)]
               /\ BaseW(ChecksumBytes(f[Len1]), Len2) \in [0 .. Len2 - 1 -> 0 .. W - 1]
  BY LengthsAre
<1>2. PICK g : /\ e \in [0 .. Len1 - 1 -> 0 .. W - 1]
               /\ IsLeft(g, e, Len1) /\ g[Len1] \in Nat
               /\ ChainLengths(m2) = [i \in Chains |-> IF i < Len1 THEN e[i]
                                                                  ELSE Digit(g[Len1], i - Len1)]
               /\ BaseW(ChecksumBytes(g[Len1]), Len2) \in [0 .. Len2 - 1 -> 0 .. W - 1]
  BY LengthsAre
<1> HIDE DEF d, e
<1>3. W \in Nat /\ Len1 \in Nat \ {0} /\ Len2 \in Nat \ {0} /\ Chains = 0 .. Len1 + Len2 - 1
  BY WIs, WotsLenIs DEF Chains
<1>4. \A i \in 0 .. Len1 - 1 : d[i] \in Nat /\ e[i] \in Nat /\ d[i] >= e[i]
  <2>1. ASSUME NEW i \in 0 .. Len1 - 1 PROVE d[i] \in Nat /\ e[i] \in Nat /\ d[i] >= e[i]
    <3>1. i \in Chains /\ i < Len1
      BY <1>3
    <3>2. ChainLengths(m1)[i] = d[i] /\ ChainLengths(m2)[i] = e[i]
      BY <1>1, <1>2, <3>1
    <3>3. d[i] \in 0 .. W - 1 /\ e[i] \in 0 .. W - 1
      BY <1>1, <1>2
    <3> QED  BY <1>3, <3>1, <3>2, <3>3
  <2> QED  BY <2>1
<1>5. /\ f[0] = 0 /\ g[0] = 0
      /\ \A i \in 0 .. Len1 - 1 : f[i + 1] = f[i] + (W - 1 - d[i]) /\ g[i + 1] = g[i] + (W - 1 - e[i])
      /\ \A i \in 0 .. Len1 : f[i] \in Nat /\ g[i] \in Nat
      /\ f[Len1] < 2^(LogW * Len2) /\ g[Len1] < 2^(LogW * Len2)
  BY <1>1, <1>2, LeftBounds
<1> DEFINE T == {n \in Nat : n <= Len1 => /\ f[n] <= g[n]
                                          /\ f[n] = g[n] => \A j \in 0 .. n - 1 : d[j] = e[j]}
<1>6. 0 \in T
  BY <1>5
<1>7. ASSUME NEW n \in T PROVE n + 1 \in T
  <2>1. n \in Nat /\ n + 1 \in Nat
    OBVIOUS
  <2>2. ASSUME n + 1 <= Len1
        PROVE  /\ f[n + 1] <= g[n + 1]
               /\ f[n + 1] = g[n + 1] => \A j \in 0 .. (n + 1) - 1 : d[j] = e[j]
    <3>1. PICK i \in 0 .. Len1 - 1 : i = n
      BY <1>3, <2>1, <2>2
    <3> DEFINE p == f[i]
               q == g[i]
               x == d[i]
               y == e[i]
    <3>2. p \in Nat /\ q \in Nat
      <4>1. i \in 0 .. Len1
        BY <1>3
      <4> QED  BY <1>5, <4>1
    <3>3. p <= q /\ (p = q => \A j \in 0 .. i - 1 : d[j] = e[j])
      BY <1>3, <2>2, <3>1
    <3>4. x \in Nat /\ y \in Nat /\ x >= y
      BY <1>4
    <3>5. f[i + 1] = p + (W - 1 - x) /\ g[i + 1] = q + (W - 1 - y)
      BY <1>5
    <3>6. x = y => d[i] = e[i]
      OBVIOUS
    <3> HIDE DEF p, q, x, y
    <3>7. f[i + 1] <= g[i + 1] /\ (f[i + 1] = g[i + 1] => p = q /\ x = y)
      BY <1>3, <3>2, <3>3, <3>4, <3>5
    <3>8. \A j \in 0 .. (i + 1) - 1 : j \in 0 .. i - 1 \/ j = i
      OBVIOUS
    <3>9. f[i + 1] = g[i + 1] => \A j \in 0 .. (i + 1) - 1 : d[j] = e[j]
      BY <3>3, <3>6, <3>7, <3>8
    <3> QED  BY <3>1, <3>7, <3>9
  <2> QED  BY <2>1, <2>2
<1>8. T = Nat
  <2> HIDE DEF T
  <2>1. T \subseteq Nat
    BY DEF T
  <2> QED  BY <1>6, <1>7, <2>1, Induction
<1>9. f[Len1] <= g[Len1] /\ (f[Len1] = g[Len1] => \A j \in 0 .. Len1 - 1 : d[j] = e[j])
  BY <1>3, <1>8
<1> HIDE DEF T
<1> DEFINE a == f[Len1]
           b == g[Len1]
<1>10. \A i \in 0 .. Len2 - 1 : Digit(a, i) \in 0 .. W - 1 /\ Digit(b, i) \in 0 .. W - 1
                                   /\ Digit(a, i) >= Digit(b, i)
  <2>1. ASSUME NEW i \in 0 .. Len2 - 1
        PROVE  Digit(a, i) \in 0 .. W - 1 /\ Digit(b, i) \in 0 .. W - 1 /\ Digit(a, i) >= Digit(b, i)
    <3>1. PICK j \in Chains : j = Len1 + i
      BY <1>3
    <3>2. ~(j < Len1) /\ j - Len1 = i
      BY <1>3, <3>1
    <3>3. ChainLengths(m1)[j] = Digit(a, i) /\ ChainLengths(m2)[j] = Digit(b, i)
      BY <1>1, <1>2, <3>2
    <3>4. ChainLengths(m1)[j] >= ChainLengths(m2)[j]
      OBVIOUS
    <3>5. Digit(a, i) \in 0 .. W - 1 /\ Digit(b, i) \in 0 .. W - 1
      BY <1>1, <1>2 DEF Digit
    <3> QED  BY <3>3, <3>4, <3>5
  <2> QED  BY <2>1
<1>11. a = b
  <2>1. a \in Nat /\ b \in Nat /\ a < 2^(LogW * Len2) /\ b < 2^(LogW * Len2) /\ a <= b
    BY <1>1, <1>2, <1>5, <1>9
  <2> HIDE DEF a, b
  <2>2. a >= b
    BY <1>10, <2>1, NoLess
  <2> QED  BY <2>1, <2>2
<1>12. ASSUME NEW i \in Chains
       PROVE  (IF i < Len1 THEN d[i] ELSE Digit(f[Len1], i - Len1))
                  = IF i < Len1 THEN e[i] ELSE Digit(g[Len1], i - Len1)
  <2>1. i < Len1 => i \in 0 .. Len1 - 1
    BY <1>3
  <2> QED  BY <1>9, <1>11, <2>1
<1> QED  BY <1>1, <1>2, <1>12

-----------------------------------------------------------------------------
(* The invariant.  At every layer the loops hold the tree and the leaf that *)
(* the index leads to and the root below them, whatever the structures of   *)
(* addresses still hold; what the signature stores is of that tree.         *)
IndexSet == [tree : 0 .. 2^(Height * (Depth - 1)) - 1, leaf : Leaves]

TreeOf(i, l) == i.tree \div 2^(Height * l)
LeafOf(i, l) == IF l = 0 THEN i.leaf ELSE TreeOf(i, l - 1) % 2^Height

RootAt(l, t) == NodesAt(l, t)[Height][0]

(* What the key pair at a place signs. *)
MessageAt(l, t, x) == IF l = 0 THEN ForsKeyAt(t, x) ELSE RootAt(l - 1, t * 2^Height + x)

MessageOf(a) == MessageAt(a.layer, a.tree, a.keypair)

MessageOn(i, l) == MessageAt(l, TreeOf(i, l), LeafOf(i, l))

(* The part of a signature that belongs to a layer. *)
IsPart(part, l, t, x, lengths) ==
    /\ \A i \in Chains : part.chains[i] = KeysAt(l, t)[x].chains[i][lengths[i]]
    /\ \A n \in 0 .. Height - 1 : part.auth[n] = NodesAt(l, t)[n][Sibling(x \div 2^n)]

Stored(l) ==
    /\ l \in DOMAIN sig
    /\ MessageOn(index, l) \in DOMAIN bytes
    /\ IsPart(sig[l], l, TreeOf(index, l), LeafOf(index, l),
              ChainLengths(bytes[MessageOn(index, l)]))

Running == pc \in {"sign", "signed", "verify", "verified"}

WotsShape(a) == a = At(a.layer, a.tree, WOTS, a.keypair, a.chain, a.index) /\ a.index \in 0 .. 255
TreeShape(a) == a = At(a.layer, a.tree, HASHTREE, 0, a.chain, a.index)
KeyShape(a) == a = At(a.layer, a.tree, WOTSPK, a.keypair, 0, 0)

ValuesInv ==
    /\ index \in IndexSet
    /\ \A v \in DOMAIN bytes : bytes[v] \in Messages
    /\ pc \in {"new", "ready"} \/ Running

PublicInv == pc # "new" => pubRoot = RootAt(Depth - 1, 0)

LoopInv ==
    Running =>
        /\ layer \in 0 .. Depth /\ (pc \in {"sign", "verify"} <=> layer # Depth)
        /\ tree = TreeOf(index, layer) /\ leaf = LeafOf(index, layer)
        /\ root = MessageOn(index, layer)
        /\ forsSig = ForsSecretAt(index.tree, index.leaf)
        /\ WotsShape(wotsAddr) /\ TreeShape(treeAddr) /\ KeyShape(pkAddr)

SignatureInv == Running => \A l \in 0 .. Depth - 1 : (pc = "sign" => l < layer) => Stored(l)

QueriesInv == IsFiniteSet(hashed) /\ \A q \in hashed : IsQuery(q)

RevealedInv ==
    \A r \in revealed :
        r.message = MessageOf(r.key.addr) /\ \E m \in Messages : r.steps = ChainLengths(m)

IInv == ValuesInv /\ PublicInv /\ LoopInv /\ SignatureInv /\ QueriesInv /\ RevealedInv

-----------------------------------------------------------------------------
(* Going up the layers. *)
LEMMA IndexIs ==
    ASSUME NEW i, i \in IndexSet
    PROVE  /\ i.tree \in Nat /\ i.leaf \in Leaves
           /\ i.tree < 2^(Height * (Depth - 1)) /\ Height * (Depth - 1) \in 0 .. MaxExponent
           /\ TreeOf(i, 0) = i.tree /\ LeafOf(i, 0) = i.leaf
<1>1. i.tree \in 0 .. 2^(Height * (Depth - 1)) - 1 /\ i.leaf \in Leaves
  BY DEF IndexSet
<1>2. Height * (Depth - 1) \in 0 .. MaxExponent
  <2>1. Height * (Depth - 1) = Height * Depth - Height /\ Height * Depth \in Nat
        /\ Height * (Depth - 1) >= 0
    BY Exponents
  <2> DEFINE p == Height * (Depth - 1)
             q == Height * Depth
  <2>2. p = q - Height /\ q \in Nat /\ p >= 0 /\ Height \in Nat /\ q <= MaxExponent
        /\ MaxExponent \in Nat
    BY <2>1, Exponents
  <2> HIDE DEF p, q
  <2>3. p \in 0 .. MaxExponent
    BY <2>2
  <2> QED  BY <2>3 DEF p
<1> DEFINE P == 2^(Height * (Depth - 1))
<1>3. P \in Nat \ {0}
  BY <1>2, PowerPositive
<1>4. i.tree \in Nat /\ i.tree < P
  <2> HIDE DEF P
  <2>1. i.tree \in 0 .. P - 1
    BY <1>1 DEF P
  <2> QED  BY <1>3, <2>1
<1>5. TreeOf(i, 0) = i.tree
  <2>1. Height * 0 = 0
    BY Exponents
  <2>2. TreeOf(i, 0) = i.tree \div 1
    BY <2>1, SmallPowers DEF TreeOf
  <2> QED  BY <1>4, <2>2
<1> QED  BY <1>1, <1>2, <1>4, <1>5 DEF LeafOf

LEMMA LayerExponent ==
    ASSUME NEW l \in 0 .. Depth
    PROVE  Height * l \in 0 .. MaxExponent /\ 2^(Height * l) \in Nat \ {0}
<1> DEFINE p == Height * l
<1>1. p \in 0 .. MaxExponent
  <2>1. Height * (Depth - l) >= 0 /\ Height * (Depth - l) = Height * Depth - p /\ p \in Nat
    BY Exponents
  <2> DEFINE q == Height * Depth
  <2>2. q - p >= 0 /\ q \in Nat /\ p \in Nat /\ q <= MaxExponent /\ MaxExponent \in Nat
    BY <2>1, Exponents
  <2> HIDE DEF p, q
  <2> QED  BY <2>2
<1> HIDE DEF p
<1>2. 2^p \in Nat \ {0}
  BY <1>1, PowerPositive
<1> QED  BY <1>1, <1>2 DEF p

LEMMA NextLayer ==
    ASSUME NEW i, i \in IndexSet, NEW l \in 0 .. Depth - 1
    PROVE  /\ TreeOf(i, l) \in Nat
           /\ TreeOf(i, l + 1) = TreeOf(i, l) \div 2^Height
           /\ LeafOf(i, l + 1) = TreeOf(i, l) % 2^Height
           /\ TreeOf(i, l) = TreeOf(i, l + 1) * 2^Height + LeafOf(i, l + 1)
           /\ LeafOf(i, l + 1) \in Leaves
<1>1. l \in 0 .. Depth /\ l + 1 \in 0 .. Depth /\ l + 1 # 0 /\ (l + 1) - 1 = l
  BY Exponents
<1> DEFINE a == i.tree
           M == 2^(Height * l)
           N == 2^Height
           P == 2^(Height * (l + 1))
<1>2. a \in Nat /\ M \in Nat \ {0} /\ N \in Nat \ {0} /\ P = M * N
  <2> DEFINE p == Height * l
             q == Height * (l + 1)
  <2>1. p \in Nat /\ q = p + Height /\ q <= MaxExponent /\ Height \in Nat
    <3>1. p \in 0 .. MaxExponent
      BY <1>1, LayerExponent
    <3>2. l + 1 \in 0 .. Depth
      BY <1>1
    <3>3. q \in 0 .. MaxExponent
      BY <3>2, LayerExponent
    <3>4. q = p + Height
      BY Exponents
    <3> HIDE DEF p, q
    <3> QED  BY <3>1, <3>3, <3>4, Exponents
  <2> HIDE DEF p, q
  <2>2. 2^p \in Nat \ {0} /\ 2^Height \in Nat \ {0} /\ 2^(p + Height) = 2^p * 2^Height
    BY <2>1, PowerSum
  <2> QED  BY <2>1, <2>2, IndexIs DEF p, q
<1>3. TreeOf(i, l) = a \div M /\ TreeOf(i, l + 1) = a \div P
  BY DEF TreeOf
<1>4. LeafOf(i, l + 1) = TreeOf(i, l) % N
  BY <1>1 DEF LeafOf
<1> HIDE DEF a, M, P
<1>5. TreeOf(i, l) \in Nat
  BY <1>2, <1>3, Division
<1>6. TreeOf(i, l + 1) = TreeOf(i, l) \div N
  <2> HIDE DEF N
  <2>1. (a \div M) \div N = a \div P
    BY <1>2, DivProduct
  <2> QED  BY <1>3, <2>1
<1> DEFINE t == TreeOf(i, l)
<1>7. t % N \in 0 .. N - 1 /\ t = (t \div N) * N + (t % N)
  <2> HIDE DEF N, t
  <2>1. t \in Nat
    BY <1>5 DEF t
  <2> QED  BY <1>2, <2>1, Division
<1> QED  BY <1>4, <1>5, <1>6, <1>7 DEF Leaves

LEMMA LeafInTree == ASSUME NEW i, i \in IndexSet, NEW l \in 0 .. Depth PROVE LeafOf(i, l) \in Leaves
<1>1. CASE l = 0
  BY <1>1, IndexIs
<1>2. CASE l # 0
  <2>1. PICK m \in 0 .. Depth - 1 : m + 1 = l
    <3>1. l - 1 \in 0 .. Depth - 1 /\ (l - 1) + 1 = l
      BY <1>2, Exponents
    <3> QED  BY <3>1
  <2>2. LeafOf(i, m + 1) \in Leaves
    BY NextLayer
  <2> QED  BY <2>1, <2>2
<1> QED  BY <1>1, <1>2

(* At the highest layer there is one tree. *)
LEMMA TopTree == ASSUME NEW i, i \in IndexSet PROVE TreeOf(i, Depth - 1) = 0
<1> DEFINE a == i.tree
           P == 2^(Height * (Depth - 1))
<1>1. a \in Nat /\ a < P /\ Height * (Depth - 1) \in 0 .. MaxExponent
  BY IndexIs
<1>2. P \in Nat \ {0}
  BY <1>1, PowerPositive
<1>3. TreeOf(i, Depth - 1) = a \div P
  BY DEF TreeOf
<1> HIDE DEF a, P
<1>4. a = 0 * P + a /\ a \in 0 .. P - 1
  BY <1>1, <1>2
<1>5. a \div P = 0
  BY <1>1, <1>2, <1>4, Quotient
<1> QED  BY <1>3, <1>5

(* The root of a layer's tree is what the next layer signs. *)
LEMMA RootBelow ==
    ASSUME NEW i, i \in IndexSet, NEW l \in 0 .. Depth - 1
    PROVE  MessageOn(i, l + 1) = RootAt(l, TreeOf(i, l))
<1>1. l + 1 # 0 /\ (l + 1) - 1 = l
  OBVIOUS
<1>2. MessageOn(i, l + 1) = RootAt((l + 1) - 1, TreeOf(i, l + 1) * 2^Height + LeafOf(i, l + 1))
  BY <1>1 DEF MessageOn, MessageAt
<1> QED  BY <1>1, <1>2, NextLayer

-----------------------------------------------------------------------------
(* The steps. *)
LEMMA InitInv == ASSUME Init PROVE IInv
<1>1. ValuesInv
  <2> DEFINE P == 2^(Height * (Depth - 1))
  <2>1. 0 \in Leaves
    BY LeavesAre
  <2>2. P \in Nat \ {0}
    <3>1. Depth - 1 \in 0 .. Depth
      BY Exponents
    <3> QED  BY <3>1, LayerExponent
  <2> HIDE DEF P
  <2>3. [tree |-> 0, leaf |-> 0] \in IndexSet
    <3>1. 0 \in 0 .. P - 1
      BY <2>2
    <3> QED  BY <2>1, <3>1 DEF IndexSet, P
  <2> QED  BY <2>3 DEF Init, ValuesInv
<1>2. PublicInv /\ LoopInv /\ SignatureInv
  BY DEF Init, PublicInv, LoopInv, SignatureInv, Running
<1>3. QueriesInv /\ RevealedInv
  BY FS_EmptySet DEF Init, QueriesInv, RevealedInv
<1> QED  BY <1>1, <1>2, <1>3 DEF IInv

LEMMA KeyPairInv == ASSUME IInv, KeyPair PROVE IInv'
<1> DEFINE top == SetLayer(Zero, Depth - 1)
           t == Subtree(top, top)
<1>1. top = At(Depth - 1, 0, 0, 0, 0, 0)
  <2>1. (Depth - 1) % 256 = Depth - 1
    BY HypertreeAssumption
  <2> QED  BY <2>1, Setters
<1>2. t = Whole(KeysAt(Depth - 1, 0), NodesAt(Depth - 1, 0))
  <2> HIDE DEF top
  <2> QED  BY <1>1, SubtreeIs
<1>3. pc' = "ready" /\ pubRoot' = t.nodes[Height][0] /\ hashed' = t.queries
      /\ index' = index /\ bytes' = bytes
      /\ \E msg \in Messages : revealed' = Shown(t.keys, NoLeaf, root, ChainLengths(msg))
  BY DEF KeyPair
<1> HIDE DEF t
<1>4. revealed' = {}
  BY <1>3, NoLeafAssumption DEF Shown
<1>5. t.nodes = NodesAt(Depth - 1, 0) /\ t.queries = QueriesAt(Depth - 1, 0)
  BY <1>2 DEF Whole, QueriesAt
<1>6. ValuesInv' /\ RevealedInv'
  BY <1>3, <1>4 DEF IInv, ValuesInv, RevealedInv
<1>7. PublicInv' /\ LoopInv' /\ SignatureInv'
  BY <1>3, <1>5 DEF PublicInv, RootAt, LoopInv, SignatureInv, Running
<1>8. QueriesInv'
  BY <1>3, <1>5, QueriesFinite, TreeQueries DEF QueriesInv
<1> QED  BY <1>6, <1>7, <1>8 DEF IInv

LEMMA Shapes ==
    ASSUME NEW l, NEW t, NEW p, NEW c, NEW x
    PROVE  /\ x \in 0 .. 255 => WotsShape(At(l, t, WOTS, p, c, x))
           /\ TreeShape(At(l, t, HASHTREE, 0, c, x))
           /\ KeyShape(At(l, t, WOTSPK, p, 0, 0))
BY AddressFields DEF WotsShape, TreeShape, KeyShape

LEMMA LoopStarts ==
    ASSUME StartLoop
    PROVE  /\ layer' = 0 /\ tree' = index'.tree /\ leaf' = index'.leaf
           /\ wotsAddr' = At(0, tree', WOTS, leaf', 0, 0)
           /\ WotsShape(wotsAddr)' /\ TreeShape(treeAddr)' /\ KeyShape(pkAddr)'
<1>1. /\ wotsAddr' = SetKeypair(SetTree(SetType(Zero, WOTS), tree'), leaf')
      /\ treeAddr' = SetType(Zero, HASHTREE) /\ pkAddr' = SetType(Zero, WOTSPK)
      /\ layer' = 0 /\ tree' = index'.tree /\ leaf' = index'.leaf
  BY DEF StartLoop
<1>2. PICK t, x : t = tree' /\ x = leaf'
  OBVIOUS
<1>3. SetKeypair(SetTree(SetType(Zero, WOTS), t), x) = At(0, t, WOTS, x, 0, 0)
  BY Setters
<1>4. SetType(Zero, HASHTREE) = At(0, 0, HASHTREE, 0, 0, 0)
      /\ SetType(Zero, WOTSPK) = At(0, 0, WOTSPK, 0, 0, 0)
  BY Setters
<1>5. wotsAddr' = At(0, tree', WOTS, leaf', 0, 0)
  BY <1>1, <1>2, <1>3
<1>6. 0 \in 0 .. 255
  OBVIOUS
<1>7. WotsShape(wotsAddr')
  BY <1>5, <1>6, Shapes
<1>8. TreeShape(treeAddr') /\ KeyShape(pkAddr')
  BY <1>1, <1>4, Shapes
<1> QED  BY <1>1, <1>5, <1>7, <1>8

LEMMA StartSignInv == ASSUME IInv, StartSign PROVE IInv'
<1>1. /\ pc \in {"ready", "verified"} /\ pc' = "sign" /\ index' \in Indices /\ StartLoop
      /\ forsSig' = ForsSecret(wotsAddr') /\ root' = ForsKey(wotsAddr', forsSig')
      /\ hashed' = hashed \cup {forsSig', ForsLeaf(wotsAddr', forsSig'), root'}
      /\ pubRoot' = pubRoot /\ bytes' = bytes /\ revealed' = revealed
  BY DEF StartSign
<1>2. PICK i : i = index'
  OBVIOUS
<1>3. i \in IndexSet
  BY <1>1, <1>2, HypertreeAssumption DEF IndexSet
<1>4. /\ layer' = 0 /\ tree' = i.tree /\ leaf' = i.leaf
      /\ wotsAddr' = At(0, i.tree, WOTS, i.leaf, 0, 0)
      /\ WotsShape(wotsAddr)' /\ TreeShape(treeAddr)' /\ KeyShape(pkAddr)'
  BY <1>1, <1>2, LoopStarts
<1>5. PICK a : a = At(0, i.tree, WOTS, i.leaf, 0, 0)
  OBVIOUS
<1>6. /\ ForsSecret(a) = ForsSecretAt(i.tree, i.leaf)
      /\ ForsLeaf(a, ForsSecretAt(i.tree, i.leaf)) = ForsLeafAt(i.tree, i.leaf)
      /\ ForsKey(a, ForsSecretAt(i.tree, i.leaf)) = ForsKeyAt(i.tree, i.leaf)
  BY <1>5, ForsIs
<1>7. /\ forsSig' = ForsSecretAt(i.tree, i.leaf) /\ root' = ForsKeyAt(i.tree, i.leaf)
      /\ hashed' = hashed \cup {ForsSecretAt(i.tree, i.leaf), ForsLeafAt(i.tree, i.leaf),
                                ForsKeyAt(i.tree, i.leaf)}
  BY <1>1, <1>4, <1>5, <1>6
<1>8. ValuesInv'
  BY <1>1, <1>2, <1>3 DEF IInv, ValuesInv, Running
<1>9. PublicInv' /\ RevealedInv'
  BY <1>1 DEF IInv, PublicInv, RevealedInv
<1>10. LoopInv'
  <2>1. MessageOn(i, 0) = ForsKeyAt(i.tree, i.leaf) /\ TreeOf(i, 0) = i.tree /\ LeafOf(i, 0) = i.leaf
    BY <1>3, IndexIs DEF MessageOn, MessageAt
  <2>2. 0 \in 0 .. Depth /\ 0 # Depth
    BY Exponents
  <2> QED  BY <1>1, <1>2, <1>4, <1>7, <2>1, <2>2 DEF LoopInv
<1>11. SignatureInv'
  BY <1>1, <1>4 DEF SignatureInv
<1>12. QueriesInv'
  <2>1. IsFiniteSet(hashed) /\ \A q \in hashed : IsQuery(q)
    BY DEF IInv, QueriesInv
  <2> DEFINE new == {ForsSecretAt(i.tree, i.leaf), ForsLeafAt(i.tree, i.leaf), ForsKeyAt(i.tree, i.leaf)}
  <2>2. IsFiniteSet(new)
    <3>1. IsFiniteSet({ForsSecretAt(i.tree, i.leaf)}) /\ IsFiniteSet({ForsLeafAt(i.tree, i.leaf)})
          /\ IsFiniteSet({ForsKeyAt(i.tree, i.leaf)})
      BY FS_Singleton
    <3>2. new = ({ForsSecretAt(i.tree, i.leaf)} \cup {ForsLeafAt(i.tree, i.leaf)})
                    \cup {ForsKeyAt(i.tree, i.leaf)}
      OBVIOUS
    <3>3. IsFiniteSet({ForsSecretAt(i.tree, i.leaf)} \cup {ForsLeafAt(i.tree, i.leaf)})
      BY <3>1, FS_Union
    <3> HIDE DEF new
    <3> QED  BY <3>1, <3>2, <3>3, FS_Union
  <2>3. \A q \in new : IsQuery(q)
    BY ForsQueries
  <2> HIDE DEF new
  <2>4. hashed' = hashed \cup new
    BY <1>7 DEF new
  <2>5. IsFiniteSet(hashed \cup new)
    BY <2>1, <2>2, FS_Union
  <2> QED  BY <2>1, <2>3, <2>4, <2>5 DEF QueriesInv
<1> QED  BY <1>8, <1>9, <1>10, <1>11, <1>12 DEF IInv

LEMMA StartVerifyInv == ASSUME IInv, StartVerify PROVE IInv'
<1>1. /\ pc = "signed" /\ pc' = "verify" /\ index' = index /\ StartLoop
      /\ root' = ForsKey(wotsAddr', forsSig) /\ forsSig' = forsSig
      /\ hashed' = hashed \cup {ForsLeaf(wotsAddr', forsSig), root'}
      /\ pubRoot' = pubRoot /\ bytes' = bytes /\ revealed' = revealed /\ sig' = sig
  BY DEF StartVerify
<1>2. PICK i : i = index
  OBVIOUS
<1>3. i \in IndexSet
  BY <1>2 DEF IInv, ValuesInv
<1>4. /\ layer' = 0 /\ tree' = i.tree /\ leaf' = i.leaf
      /\ wotsAddr' = At(0, i.tree, WOTS, i.leaf, 0, 0)
      /\ WotsShape(wotsAddr)' /\ TreeShape(treeAddr)' /\ KeyShape(pkAddr)'
  BY <1>1, <1>2, LoopStarts
<1>5. PICK a : a = At(0, i.tree, WOTS, i.leaf, 0, 0)
  OBVIOUS
<1>6. forsSig = ForsSecretAt(i.tree, i.leaf)
  BY <1>1, <1>2 DEF IInv, LoopInv, Running
<1>7. /\ ForsLeaf(a, ForsSecretAt(i.tree, i.leaf)) = ForsLeafAt(i.tree, i.leaf)
      /\ ForsKey(a, ForsSecretAt(i.tree, i.leaf)) = ForsKeyAt(i.tree, i.leaf)
  BY <1>5, ForsIs
<1>8. /\ root' = ForsKeyAt(i.tree, i.leaf)
      /\ hashed' = hashed \cup {ForsLeafAt(i.tree, i.leaf), ForsKeyAt(i.tree, i.leaf)}
  BY <1>1, <1>4, <1>5, <1>6, <1>7
<1>9. ValuesInv' /\ PublicInv' /\ RevealedInv'
  BY <1>1 DEF IInv, ValuesInv, Running, PublicInv, RevealedInv
<1>10. LoopInv'
  <2>1. MessageOn(i, 0) = ForsKeyAt(i.tree, i.leaf) /\ TreeOf(i, 0) = i.tree /\ LeafOf(i, 0) = i.leaf
    BY <1>3, IndexIs DEF MessageOn, MessageAt
  <2>2. 0 \in 0 .. Depth /\ 0 # Depth
    BY Exponents
  <2> QED  BY <1>1, <1>2, <1>4, <1>6, <1>8, <2>1, <2>2 DEF LoopInv
<1>11. SignatureInv'
  <2>1. ASSUME NEW l \in 0 .. Depth - 1 PROVE Stored(l)'
    <3>1. Stored(l)
      BY <1>1 DEF IInv, SignatureInv, Running
    <3> QED  BY <1>1, <3>1 DEF Stored
  <2> QED  BY <2>1 DEF SignatureInv
<1>12. QueriesInv'
  <2>1. IsFiniteSet(hashed) /\ \A q \in hashed : IsQuery(q)
    BY DEF IInv, QueriesInv
  <2> DEFINE u == {ForsLeafAt(i.tree, i.leaf)}
             v == {ForsKeyAt(i.tree, i.leaf)}
  <2>2. IsFiniteSet(u) /\ IsFiniteSet(v)
    BY FS_Singleton
  <2>3. \A q \in u \cup v : IsQuery(q)
    BY ForsQueries
  <2>4. hashed' = (hashed \cup u) \cup v
    BY <1>8
  <2> HIDE DEF u, v
  <2>5. IsFiniteSet(hashed \cup u)
    BY <2>1, <2>2, FS_Union
  <2>6. IsFiniteSet((hashed \cup u) \cup v)
    BY <2>2, <2>5, FS_Union
  <2> QED  BY <2>1, <2>3, <2>4, <2>6 DEF QueriesInv
<1> QED  BY <1>9, <1>10, <1>11, <1>12 DEF IInv

(* What was read of a value is read again. *)
LEMMA ReadKeeps ==
    ASSUME NEW value, NEW msg, Read(value, msg), \A v \in DOMAIN bytes : bytes[v] \in Messages
    PROVE  /\ msg \in Messages /\ value \in DOMAIN bytes' /\ bytes'[value] = msg
           /\ \A v \in DOMAIN bytes : v \in DOMAIN bytes' /\ bytes'[v] = bytes[v]
           /\ \A v \in DOMAIN bytes' : bytes'[v] \in Messages
<1>1. msg \in IF value \in DOMAIN bytes THEN {bytes[value]} ELSE Messages
  BY DEF Read
<1>2. bytes' = [v \in {value} \cup DOMAIN bytes |-> IF v = value THEN msg ELSE bytes[v]]
  BY DEF Read, Put
<1>3. msg \in Messages
  BY <1>1
<1> QED  BY <1>1, <1>2, <1>3

(* The addresses and the tree of an iteration. *)
LEMMA LayerIs ==
    ASSUME IInv, pc \in {"sign", "verify"}
    PROVE  /\ layer \in 0 .. Depth - 1 /\ layer # Depth
           /\ tree = TreeOf(index, layer) /\ leaf = LeafOf(index, layer) /\ leaf \in Leaves
           /\ root = MessageOn(index, layer) /\ index \in IndexSet
           /\ KeyAddress(wotsAddr) = At(layer, tree, WOTS, leaf, wotsAddr.chain, wotsAddr.index)
           /\ wotsAddr.index \in 0 .. 255
           /\ LayerAddress(treeAddr) = At(layer, tree, HASHTREE, 0, treeAddr.chain, treeAddr.index)
           /\ Subtree(KeyAddress(wotsAddr), LayerAddress(treeAddr))
                  = Whole(KeysAt(layer, tree), NodesAt(layer, tree))
           /\ CopyKeypair(pkAddr, KeyAddress(wotsAddr)) = At(layer, tree, WOTSPK, leaf, 0, 0)
           /\ TreeShape(AtRoot(LayerAddress(treeAddr)))
<1>1. /\ layer \in 0 .. Depth /\ layer # Depth
      /\ tree = TreeOf(index, layer) /\ leaf = LeafOf(index, layer)
      /\ root = MessageOn(index, layer)
      /\ WotsShape(wotsAddr) /\ TreeShape(treeAddr) /\ KeyShape(pkAddr)
  BY DEF IInv, LoopInv, Running
<1>2. layer \in 0 .. Depth - 1 /\ layer % 256 = layer
  BY <1>1, HypertreeAssumption
<1>3. index \in IndexSet
  BY DEF IInv, ValuesInv
<1>4. leaf \in Leaves
  BY <1>1, <1>3, LeafInTree
<1>5. PICK w, u, p : w = wotsAddr /\ u = treeAddr /\ p = pkAddr
  OBVIOUS
<1>6. /\ w = At(w.layer, w.tree, WOTS, w.keypair, w.chain, w.index) /\ w.index \in 0 .. 255
      /\ u = At(u.layer, u.tree, HASHTREE, 0, u.chain, u.index)
      /\ p = At(p.layer, p.tree, WOTSPK, p.keypair, 0, 0)
  BY <1>1, <1>5 DEF WotsShape, TreeShape, KeyShape
<1>7. LayerAddress(u) = At(layer, tree, HASHTREE, 0, u.chain, u.index)
  <2>1. SetLayer(u, layer) = At(layer, u.tree, HASHTREE, 0, u.chain, u.index)
    BY <1>2, <1>6, Setters
  <2> QED  BY <2>1, Setters DEF LayerAddress
<1>8. KeyAddress(w) = At(layer, tree, WOTS, leaf, w.chain, w.index)
  <2>1. CopySubtree(w, LayerAddress(u)) = At(layer, tree, WOTS, w.keypair, w.chain, w.index)
    BY <1>6, <1>7, CopySetters
  <2>2. KeyAddress(w) = SetKeypair(CopySubtree(w, LayerAddress(u)), leaf)
    BY <1>5 DEF KeyAddress
  <2> QED  BY <2>1, <2>2, Setters
<1>9. Subtree(KeyAddress(w), LayerAddress(u)) = Whole(KeysAt(layer, tree), NodesAt(layer, tree))
  BY <1>7, <1>8, SubtreeIs
<1>10. CopyKeypair(p, KeyAddress(w)) = At(layer, tree, WOTSPK, leaf, 0, 0)
  BY <1>6, <1>8, CopySetters
<1>11. TreeShape(AtRoot(LayerAddress(u)))
  <2>1. SetType(LayerAddress(u), HASHTREE) = At(layer, tree, HASHTREE, 0, u.chain, u.index)
    BY <1>7, Setters
  <2>2. AtRoot(LayerAddress(u)) = At(layer, tree, HASHTREE, 0, Height % 256, 0)
    BY <2>1, NodeSetter DEF AtRoot
  <2> QED  BY <2>2, Shapes
<1> QED  BY <1>1, <1>2, <1>3, <1>4, <1>5, <1>6, <1>7, <1>8, <1>9, <1>10, <1>11

(* The next iteration finds its tree, its leaf and its root. *)
LEMMA LayerDone ==
    ASSUME IInv, pc \in {"sign", "verify"}, NextIndices, layer' = layer + 1, index' = index,
           root' = RootAt(layer, tree)
    PROVE  /\ layer' \in 0 .. Depth
           /\ tree' = TreeOf(index', layer') /\ leaf' = LeafOf(index', layer')
           /\ root' = MessageOn(index', layer')
<1>1. PICK i, l : i = index /\ l = layer
  OBVIOUS
<1>2. i \in IndexSet /\ l \in 0 .. Depth - 1 /\ tree = TreeOf(i, l)
  BY <1>1, LayerIs
<1>3. /\ TreeOf(i, l + 1) = TreeOf(i, l) \div 2^Height
      /\ LeafOf(i, l + 1) = TreeOf(i, l) % 2^Height
      /\ MessageOn(i, l + 1) = RootAt(l, TreeOf(i, l))
  BY <1>2, NextLayer, RootBelow
<1>4. tree' = TreeOf(i, l + 1) /\ leaf' = LeafOf(i, l + 1)
  BY <1>2, <1>3 DEF NextIndices
<1>5. l + 1 \in 0 .. Depth
  BY <1>2, Exponents
<1> QED  BY <1>1, <1>2, <1>3, <1>4, <1>5

(* The signature of a layer: one part of it, and what its key pair signed. *)
LEMMA SignLayerInv == ASSUME IInv, SignLayer PROVE IInv'
<1> DEFINE t == Subtree(KeyAddress(wotsAddr), LayerAddress(treeAddr))
           key == t.keys[leaf].chains
           part(lengths) == [chains |-> [i \in Chains |-> key[i][lengths[i]]],
                             auth |-> [h \in 0 .. Height - 1 |-> t.nodes[h][Sibling(leaf \div 2^h)]]]
<1>1. PICK msg \in Messages :
          /\ Read(root, msg) /\ sig' = Put(sig, layer, part(ChainLengths(msg)))
          /\ revealed' = revealed \cup Shown(t.keys, leaf, root, ChainLengths(msg))
  BY DEF SignLayer
<1>2. /\ pc = "sign" /\ pc' = IF layer' = Depth THEN "signed" ELSE pc
      /\ layer' = layer + 1 /\ NextIndices
      /\ root' = t.nodes[Height][0] /\ hashed' = hashed \cup t.queries
      /\ wotsAddr' = KeyAddress(wotsAddr) /\ treeAddr' = AtRoot(LayerAddress(treeAddr))
      /\ pubRoot' = pubRoot /\ index' = index /\ pkAddr' = pkAddr /\ forsSig' = forsSig
  BY DEF SignLayer
<1>3. /\ layer \in 0 .. Depth - 1 /\ layer # Depth
      /\ tree = TreeOf(index, layer) /\ leaf = LeafOf(index, layer) /\ leaf \in Leaves
      /\ root = MessageOn(index, layer) /\ index \in IndexSet
      /\ KeyAddress(wotsAddr) = At(layer, tree, WOTS, leaf, wotsAddr.chain, wotsAddr.index)
      /\ wotsAddr.index \in 0 .. 255
      /\ t = Whole(KeysAt(layer, tree), NodesAt(layer, tree))
      /\ TreeShape(AtRoot(LayerAddress(treeAddr)))
  BY <1>2, LayerIs
<1>4. t.keys = KeysAt(layer, tree) /\ t.nodes = NodesAt(layer, tree) /\ t.queries = QueriesAt(layer, tree)
  BY <1>3 DEF Whole, QueriesAt
<1> HIDE DEF t
<1>5. /\ \A v \in DOMAIN bytes : bytes[v] \in Messages
      /\ pubRoot = RootAt(Depth - 1, 0) /\ forsSig = ForsSecretAt(index.tree, index.leaf)
      /\ KeyShape(pkAddr)
      /\ \A l \in 0 .. Depth - 1 : l < layer => Stored(l)
  BY <1>2 DEF IInv, ValuesInv, PublicInv, LoopInv, SignatureInv, Running
<1>6. /\ root \in DOMAIN bytes' /\ bytes'[root] = msg
      /\ \A v \in DOMAIN bytes : v \in DOMAIN bytes' /\ bytes'[v] = bytes[v]
      /\ \A v \in DOMAIN bytes' : bytes'[v] \in Messages
  BY <1>1, <1>5, ReadKeeps
<1>7. root' = RootAt(layer, tree)
  BY <1>2, <1>4 DEF RootAt
<1>8. /\ layer' \in 0 .. Depth
      /\ tree' = TreeOf(index', layer') /\ leaf' = LeafOf(index', layer')
      /\ root' = MessageOn(index', layer')
  BY <1>2, <1>7, LayerDone
<1>9. pc' \in {"sign", "signed"} /\ (pc' = "sign" <=> layer' # Depth)
  BY <1>2
<1>10. ValuesInv'
  BY <1>2, <1>3, <1>6, <1>9 DEF ValuesInv, Running
<1>11. PublicInv'
  BY <1>2, <1>5 DEF PublicInv
<1>12. LoopInv'
  <2>1. WotsShape(wotsAddr')
    BY <1>2, <1>3, Shapes
  <2>2. TreeShape(treeAddr') /\ KeyShape(pkAddr')
    BY <1>2, <1>3, <1>5
  <2>3. forsSig' = ForsSecretAt(index'.tree, index'.leaf)
    BY <1>2, <1>5
  <2> QED  BY <1>8, <1>9, <2>1, <2>2, <2>3 DEF LoopInv
<1>13. SignatureInv'
  <2>1. ASSUME NEW l \in 0 .. Depth - 1, l = layer PROVE Stored(l)'
    <3>1. sig'[l] = part(ChainLengths(msg)) /\ l \in DOMAIN sig'
      BY <1>1, <2>1 DEF Put
    <3>2. \A i \in Chains : sig'[l].chains[i] = KeysAt(layer, tree)[leaf].chains[i][ChainLengths(msg)[i]]
      BY <1>4, <3>1
    <3>3. \A n \in 0 .. Height - 1 : sig'[l].auth[n] = NodesAt(layer, tree)[n][Sibling(leaf \div 2^n)]
      BY <1>4, <3>1
    <3>4. IsPart(sig'[l], layer, tree, leaf, ChainLengths(msg))
      BY <3>2, <3>3 DEF IsPart
    <3>5. MessageOn(index', l) = root /\ TreeOf(index', l) = tree /\ LeafOf(index', l) = leaf
      BY <1>2, <1>3, <2>1
    <3> QED  BY <1>6, <3>1, <3>4, <3>5, <2>1 DEF Stored
  <2>2. ASSUME NEW l \in 0 .. Depth - 1, l < layer PROVE Stored(l)'
    <3>1. Stored(l)
      BY <1>5, <2>2
    <3>2. l # layer
      BY <1>3, <2>2
    <3>3. MessageOn(index, l) \in DOMAIN bytes /\ l \in DOMAIN sig
      BY <3>1 DEF Stored
    <3>4. sig'[l] = sig[l] /\ l \in DOMAIN sig'
      BY <1>1, <3>2, <3>3 DEF Put
    <3>5. PICK m : m = MessageOn(index, l)
      OBVIOUS
    <3>6. m \in DOMAIN bytes' /\ bytes'[m] = bytes[m]
      BY <1>6, <3>3, <3>5
    <3>7. IsPart(sig[l], l, TreeOf(index, l), LeafOf(index, l), ChainLengths(bytes[m]))
      BY <3>1, <3>5 DEF Stored
    <3> QED  BY <1>2, <3>4, <3>5, <3>6, <3>7 DEF Stored
  <2>3. ASSUME NEW l \in 0 .. Depth - 1, pc' = "sign" => l < layer' PROVE l < layer \/ l = layer
    <3>1. l < layer'
      BY <1>2, <1>3, <2>3, Exponents
    <3> QED  BY <1>2, <1>3, <3>1, Exponents
  <2> QED  BY <2>1, <2>2, <2>3 DEF SignatureInv
<1>14. QueriesInv'
  <2>1. IsFiniteSet(hashed) /\ \A q \in hashed : IsQuery(q)
    BY DEF IInv, QueriesInv
  <2>2. IsFiniteSet(QueriesAt(layer, tree)) /\ \A q \in QueriesAt(layer, tree) : IsQuery(q)
    BY QueriesFinite, TreeQueries
  <2>3. IsFiniteSet(hashed \cup QueriesAt(layer, tree))
    BY <2>1, <2>2, FS_Union
  <2> QED  BY <1>2, <1>4, <2>1, <2>2, <2>3 DEF QueriesInv
<1>15. RevealedInv'
  <2>1. ASSUME NEW r \in revealed' PROVE r.message = MessageOf(r.key.addr) /\ \E m \in Messages : r.steps = ChainLengths(m)
    <3>1. CASE r \in revealed
      BY <3>1 DEF IInv, RevealedInv
    <3>2. CASE r = [key |-> key[0][0], message |-> root, steps |-> ChainLengths(msg)]
      <4>1. 0 \in Chains
        BY WotsLenIs DEF Chains
      <4>2. key[0][0] = Prf(At(layer, tree, WOTSPRF, leaf, 0, 0))
        BY <1>3, <1>4, <4>1, KeyChain
      <4>3. r.key.addr = At(layer, tree, WOTSPRF, leaf, 0, 0)
        BY <3>2, <4>2, QueryAddress
      <4>4. MessageOf(r.key.addr) = MessageAt(layer, tree, leaf)
        BY <4>3, AddressFields DEF MessageOf
      <4>5. MessageAt(layer, tree, leaf) = root
        BY <1>3 DEF MessageOn
      <4> QED  BY <3>2, <4>4, <4>5
    <3>3. Shown(t.keys, leaf, root, ChainLengths(msg))
              = {[key |-> key[0][0], message |-> root, steps |-> ChainLengths(msg)]}
      BY <1>3 DEF Shown
    <3> QED  BY <1>1, <3>1, <3>2, <3>3
  <2> QED  BY <2>1 DEF RevealedInv
<1> QED  BY <1>10, <1>11, <1>12, <1>13, <1>14, <1>15 DEF IInv

(* The verifier recomputes what the signer's tree holds. *)
LEMMA VerifyLayerInv == ASSUME IInv, VerifyLayer PROVE IInv'
<1> DEFINE wa == KeyAddress(wotsAddr)
           pa == CopyKeypair(pkAddr, wa)
           ta == LayerAddress(treeAddr)
           chains(steps) == [i \in Chains |-> Chain(SetChain(wa, i), steps[i], sig[layer].chains[i])]
           node(steps) == Thash(pa, Tops(chains(steps)))
           up(steps) == Climb(ta, node(steps), leaf, sig[layer].auth)
<1>1. PICK msg \in Messages :
          LET steps == ChainLengths(msg)
          IN  /\ Read(root, msg) /\ root' = up(steps)[Height]
              /\ hashed' = hashed \cup {up(steps)[h] : h \in 0 .. Height}
                            \cup UNION {{chains(steps)[i][k] : k \in steps[i] .. W - 1} : i \in Chains}
              /\ wotsAddr' = SetHash(SetChain(wa, WotsLen - 1), W - 2)
              /\ pkAddr' = pa /\ treeAddr' = AtRoot(ta)
  BY DEF VerifyLayer
<1>2. /\ pc = "verify" /\ pc' = IF layer' = Depth THEN "verified" ELSE pc
      /\ layer' = layer + 1 /\ NextIndices
      /\ pubRoot' = pubRoot /\ index' = index /\ forsSig' = forsSig /\ sig' = sig /\ revealed' = revealed
  BY DEF VerifyLayer
<1>3. /\ layer \in 0 .. Depth - 1 /\ layer # Depth
      /\ tree = TreeOf(index, layer) /\ leaf = LeafOf(index, layer) /\ leaf \in Leaves
      /\ root = MessageOn(index, layer) /\ index \in IndexSet
      /\ wa = At(layer, tree, WOTS, leaf, wotsAddr.chain, wotsAddr.index)
      /\ wotsAddr.index \in 0 .. 255
      /\ ta = At(layer, tree, HASHTREE, 0, treeAddr.chain, treeAddr.index)
      /\ pa = At(layer, tree, WOTSPK, leaf, 0, 0)
      /\ TreeShape(AtRoot(ta))
  BY <1>2, LayerIs
<1> HIDE DEF wa, pa, ta
<1>4. /\ \A v \in DOMAIN bytes : bytes[v] \in Messages
      /\ pubRoot = RootAt(Depth - 1, 0) /\ forsSig = ForsSecretAt(index.tree, index.leaf)
      /\ \A l \in 0 .. Depth - 1 : Stored(l)
  BY <1>2 DEF IInv, ValuesInv, PublicInv, LoopInv, SignatureInv, Running
<1>5. /\ root \in DOMAIN bytes' /\ bytes'[root] = msg
      /\ \A v \in DOMAIN bytes : v \in DOMAIN bytes' /\ bytes'[v] = bytes[v]
      /\ \A v \in DOMAIN bytes' : bytes'[v] \in Messages
  BY <1>1, <1>4, ReadKeeps
<1> DEFINE steps == ChainLengths(msg)
           key == KeysAt(layer, tree)[leaf].chains
<1>6. /\ \A i \in Chains : sig[layer].chains[i] = key[i][steps[i]]
      /\ \A n \in 0 .. Height - 1 : sig[layer].auth[n] = NodesAt(layer, tree)[n][Sibling(leaf \div 2^n)]
  <2>1. Stored(layer)
    BY <1>3, <1>4
  <2>2. bytes[root] = msg
    BY <1>3, <1>5, <2>1 DEF Stored
  <2> QED  BY <1>3, <2>1, <2>2 DEF Stored, IsPart
<1>7. ASSUME NEW i \in Chains
      PROVE  steps[i] \in 0 .. W - 1 /\ \A k \in steps[i] .. W - 1 : chains(steps)[i][k] = key[i][k]
  <2>1. msg \in Bytes((Len1 * LogW) \div 8)
    BY HypertreeAssumption DEF Bytes
  <2>2. steps[i] \in 0 .. W - 1
    BY <2>1, LengthsInRange
  <2> HIDE DEF steps
  <2>3. sig[layer].chains[i] = key[i][steps[i]]
    BY <1>6
  <2>4. chains(steps)[i] = Chain(SetChain(wa, i), steps[i], sig[layer].chains[i])
    OBVIOUS
  <2> QED  BY <1>3, <2>2, <2>3, <2>4, VerifyChain
<1>8. node(steps) = NodesAt(layer, tree)[0][leaf]
  <2>1. Tops(chains(steps)) = Tops(key)
    <3>1. ASSUME NEW i \in 1 .. WotsLen PROVE chains(steps)[i - 1][W - 1] = key[i - 1][W - 1]
      <4>1. i - 1 \in Chains
        BY WotsLenIs DEF Chains
      <4>2. W - 1 \in steps[i - 1] .. W - 1
        BY <1>7, <4>1, WIs
      <4> HIDE DEF steps, chains, key
      <4> QED  BY <1>7, <4>1, <4>2
    <3> HIDE DEF steps, chains, key
    <3> QED  BY <3>1 DEF Tops
  <2>2. KeysAt(layer, tree)[leaf].leaf = Thash(pa, Tops(key))
    BY <1>3, KeyIs
  <2> HIDE DEF steps, chains, key
  <2> QED  BY <1>3, <2>1, <2>2, NodesAtAre
<1> HIDE DEF chains, key, node
<1>9. \A n \in 0 .. Height : up(steps)[n] = NodesAt(layer, tree)[n][leaf \div 2^n]
  <2>1. up(steps) = Climb(ta, NodesAt(layer, tree)[0][leaf], leaf, sig[layer].auth)
    BY <1>8
  <2>2. PICK x, l, t, c, y, auth : x = leaf /\ l = layer /\ t = tree /\ c = treeAddr.chain
                                     /\ y = treeAddr.index /\ auth = sig[layer].auth
    OBVIOUS
  <2>3. \A n \in 0 .. Height - 1 : auth[n] = NodesAt(l, t)[n][Sibling(x \div 2^n)]
    BY <1>6, <2>2
  <2>4. \A n \in 0 .. Height : Climb(At(l, t, HASHTREE, 0, c, y), NodesAt(l, t)[0][x], x, auth)[n]
                                = NodesAt(l, t)[n][x \div 2^n]
    <3>1. x \in Leaves
      BY <1>3, <2>2
    <3> QED  BY <2>3, <3>1, ClimbReaches
  <2> QED  BY <1>3, <2>1, <2>2, <2>4
<1> HIDE DEF up, steps
<1>10. /\ Height \in 0 .. Height /\ leaf \in 0 .. 2^Height - 1
       /\ \A n \in 0 .. Height : leaf \div 2^n \in 0 .. 2^(Height - n) - 1
  <2>1. PICK x \in 0 .. 2^Height - 1 : x = leaf
    BY <1>3, LeavesAre
  <2>2. \A n \in 0 .. Height : x \div 2^n \in 0 .. 2^(Height - n) - 1
    BY Position
  <2> QED  BY <2>1, <2>2, Exponents
<1>11. root' = RootAt(layer, tree)
  <2>1. Height - Height = 0 /\ leaf \div 2^Height \in 0 .. 2^(Height - Height) - 1
    BY <1>10, Exponents
  <2> DEFINE q == leaf \div 2^Height
  <2>2. q \in 0 .. 2^0 - 1
    BY <2>1
  <2>3. q \in 0 .. 0
    BY <2>2, SmallPowers
  <2> HIDE DEF q
  <2>4. q = 0
    BY <2>3
  <2> QED  BY <1>1, <1>9, <1>10, <2>4 DEF RootAt, steps, q
<1>12. /\ layer' \in 0 .. Depth
       /\ tree' = TreeOf(index', layer') /\ leaf' = LeafOf(index', layer')
       /\ root' = MessageOn(index', layer')
  BY <1>2, <1>11, LayerDone
<1>13. pc' \in {"verify", "verified"} /\ (pc' = "verify" <=> layer' # Depth)
  BY <1>2
<1>14. ValuesInv'
  BY <1>2, <1>3, <1>5, <1>13 DEF ValuesInv, Running
<1>15. PublicInv' /\ RevealedInv'
  BY <1>2, <1>4 DEF IInv, PublicInv, RevealedInv
<1>16. LoopInv'
  <2>1. WotsShape(wotsAddr')
    <3>1. SetChain(wa, WotsLen - 1) = At(layer, tree, WOTS, leaf, (WotsLen - 1) % 256, wotsAddr.index)
      BY <1>3, Setters
    <3>2. W - 2 \in 0 .. 255
      BY WIs
    <3>3. wotsAddr' = At(layer, tree, WOTS, leaf, (WotsLen - 1) % 256, W - 2)
      BY <1>1, <1>3, <3>1, <3>2, HashSetter
    <3> QED  BY <3>2, <3>3, Shapes
  <2>2. TreeShape(treeAddr') /\ KeyShape(pkAddr')
    BY <1>1, <1>3, Shapes
  <2>3. forsSig' = ForsSecretAt(index'.tree, index'.leaf)
    BY <1>2, <1>4
  <2> QED  BY <1>12, <1>13, <2>1, <2>2, <2>3 DEF LoopInv
<1>17. SignatureInv'
  <2>1. ASSUME NEW l \in 0 .. Depth - 1 PROVE Stored(l)'
    <3>1. Stored(l)
      BY <1>4
    <3>2. PICK m : m = MessageOn(index, l)
      OBVIOUS
    <3>3. m \in DOMAIN bytes' /\ bytes'[m] = bytes[m]
      BY <1>5, <3>1, <3>2 DEF Stored
    <3> QED  BY <1>2, <3>1, <3>2, <3>3 DEF Stored
  <2> QED  BY <2>1 DEF SignatureInv
<1>18. QueriesInv'
  <2> DEFINE new == {up(steps)[h] : h \in 0 .. Height}
                       \cup UNION {{chains(steps)[i][k] : k \in steps[i] .. W - 1} : i \in Chains}
  <2>1. new \subseteq QueriesAt(layer, tree)
    <3>1. ASSUME NEW h \in 0 .. Height PROVE up(steps)[h] \in QueriesAt(layer, tree)
      <4>1. leaf \div 2^h \in DOMAIN NodesAt(layer, tree)[h]
        BY <1>10, NodesAtAre
      <4> QED  BY <1>9, <4>1 DEF QueriesAt, QueriesOf
    <3>2. ASSUME NEW i \in Chains, NEW k \in steps[i] .. W - 1 PROVE chains(steps)[i][k] \in QueriesAt(layer, tree)
      <4>1. k \in 0 .. W - 1
        BY <1>7, WIs
      <4>2. chains(steps)[i][k] = key[i][k]
        BY <1>7
      <4> QED  BY <1>3, <4>1, <4>2 DEF QueriesAt, QueriesOf, key
    <3> QED  BY <3>1, <3>2
  <2>2. hashed' = hashed \cup new
    BY <1>1 DEF steps
  <2> HIDE DEF new
  <2>3. IsFiniteSet(hashed) /\ \A q \in hashed : IsQuery(q)
    BY DEF IInv, QueriesInv
  <2>4. IsFiniteSet(new) /\ \A q \in new : IsQuery(q)
    BY <2>1, QueriesFinite, TreeQueries, FS_Subset
  <2>5. IsFiniteSet(hashed \cup new)
    BY <2>3, <2>4, FS_Union
  <2> QED  BY <2>2, <2>3, <2>4, <2>5 DEF QueriesInv
<1> QED  BY <1>14, <1>15, <1>16, <1>17, <1>18 DEF IInv

-----------------------------------------------------------------------------
(* What the invariant says of the properties. *)
LEMMA RootReached == ASSUME IInv PROVE VerifierReachesRoot
<1> SUFFICES ASSUME pc = "verified" PROVE root = pubRoot
  BY DEF VerifierReachesRoot
<1>1. /\ layer \in 0 .. Depth /\ ~(pc \in {"sign", "verify"}) /\ index \in IndexSet
      /\ root = MessageOn(index, layer) /\ layer = Depth
      /\ pubRoot = RootAt(Depth - 1, 0)
  BY DEF IInv, ValuesInv, LoopInv, PublicInv, Running
<1>2. PICK l \in 0 .. Depth - 1 : l = Depth - 1 /\ l + 1 = Depth
  <2>1. Depth - 1 \in 0 .. Depth - 1 /\ (Depth - 1) + 1 = Depth
    BY Exponents
  <2> QED  BY <2>1
<1>3. MessageOn(index, l + 1) = RootAt(l, TreeOf(index, l))
  BY <1>1, RootBelow
<1>4. TreeOf(index, l) = 0
  BY <1>1, <1>2, TopTree
<1> QED  BY <1>1, <1>2, <1>3, <1>4

LEMMA OneInput == ASSUME IInv PROVE OneInputPerAddress
<1> DEFINE addrs == {q.addr : q \in hashed}
           f == [q \in hashed |-> q.addr]
<1>1. IsFiniteSet(hashed) /\ \A q \in hashed : IsQuery(q)
  BY DEF IInv, QueriesInv
<1>2. f \in Surjection(hashed, addrs)
  BY DEF Surjection
<1>3. f \in Injection(hashed, addrs)
  <2>1. ASSUME NEW q \in hashed, NEW r \in hashed, q.addr = r.addr PROVE q = r
    BY <1>1, <2>1 DEF IsQuery
  <2> QED  BY <2>1 DEF Injection, IsInjective
<1>4. Cardinality(addrs) = Cardinality(hashed)
  <2> HIDE DEF addrs, f
  <2> QED  BY <1>1, <1>2, <1>3, FS_Surjection
<1> QED  BY <1>4 DEF OneInputPerAddress

LEMMA OneMessage == ASSUME IInv PROVE OneMessagePerKey
<1>1. \A r \in revealed : r.message = MessageOf(r.key.addr) /\ \E m \in Messages : r.steps = ChainLengths(m)
  BY DEF IInv, RevealedInv
<1>2. ASSUME NEW r \in revealed, NEW s \in revealed, r.key = s.key PROVE r.message = s.message
  BY <1>1, <1>2
<1>3. ASSUME NEW r \in revealed, NEW lengths \in AllLengths, \A i \in Chains : lengths[i] >= r.steps[i]
      PROVE  lengths = r.steps
  <2>1. PICK m1 \in Bytes((Len1 * LogW) \div 8) : lengths = ChainLengths(m1)
    BY DEF AllLengths, Bytes
  <2>2. PICK m2 \in Messages : r.steps = ChainLengths(m2)
    BY <1>1
  <2>3. m2 \in Bytes((Len1 * LogW) \div 8)
    BY HypertreeAssumption DEF Bytes
  <2>4. \A i \in Chains : ChainLengths(m1)[i] >= ChainLengths(m2)[i]
    BY <1>3, <2>1, <2>2
  <2>5. ChainLengths(m1) = ChainLengths(m2)
    BY <2>1, <2>3, <2>4, NoCover
  <2> QED  BY <2>1, <2>2, <2>5
<1> QED  BY <1>2, <1>3 DEF OneMessagePerKey

LEMMA NextInv == ASSUME IInv, [Next]_vars PROVE IInv'
<1>1. CASE KeyPair
  BY <1>1, KeyPairInv
<1>2. CASE StartSign
  BY <1>2, StartSignInv
<1>3. CASE SignLayer
  BY <1>3, SignLayerInv
<1>4. CASE StartVerify
  BY <1>4, StartVerifyInv
<1>5. CASE VerifyLayer
  BY <1>5, VerifyLayerInv
<1>6. CASE UNCHANGED vars
  BY <1>6 DEF vars, IInv, ValuesInv, PublicInv, LoopInv, SignatureInv, QueriesInv, RevealedInv,
              Running, Stored
<1> QED  BY <1>1, <1>2, <1>3, <1>4, <1>5, <1>6 DEF Next

LEMMA HypertreeInv == MCSpec => []IInv
<1>1. MCInit => IInv
  BY InitInv DEF MCInit
<1>2. IInv /\ [MCNext]_<<walk, vars, treeVars>> => IInv'
  <2>1. [MCNext]_<<walk, vars, treeVars>> => [Next]_vars
    BY DEF MCNext
  <2> QED  BY <2>1, NextInv
<1> QED  BY <1>1, <1>2, PTL DEF MCSpec

(* Over all signatures, a one-time key signs one message, and what it      *)
(* reveals of its chains reaches no other one: the checksum outweighs what *)
(* the digits leave (wots.c).                                              *)
THEOREM NoKeyTwice == MCSpec => []OneMessagePerKey
<1>1. IInv => OneMessagePerKey
  BY OneMessage
<1> QED  BY <1>1, HypertreeInv, PTL

-----------------------------------------------------------------------------
(* The tree that is built: how many of its nodes at a height exist, and how *)
(* many of them have been compared with the path that is wanted.           *)
Reached(n) == Single!Shift(IF phase = "climb" /\ n <= height THEN idx + 1 ELSE idx, n)

Passed(n) == Single!Shift(IF phase = "climb" /\ n < height THEN idx + 1 ELSE idx, n)

Building == phase \in {"leaf", "climb"}

TreeAt(t) == Single!Tree(t * 2^TreeHeight)

Above(t, n) == Single!Shift(t * 2^TreeHeight, n)

Neighbour(t, n) == Single!Sibling(Single!Shift(indices[t], n))

Heights == 0 .. TreeHeight - 1

IsPath(f) == f = [n \in Heights |-> f[n]]

TypeInv ==
    /\ phase \in {"leaf", "climb", "verify", "root", "done"}
    /\ number \in Single!TreeSet /\ idx \in Single!Leaves /\ height \in 0 .. TreeHeight
    /\ indices \in [Single!TreeSet -> Single!Leaves \cup {NoLeaf}]
    /\ DOMAIN stack = Heights /\ Len(buffer) = 2
    /\ DOMAIN paths = Single!TreeSet /\ (\A t \in Single!TreeSet : IsPath(paths[t]))
    /\ DOMAIN roots = Single!TreeSet /\ DOMAIN recovered = Single!TreeSet
    /\ phase = "root" => height < TreeHeight

StackInv ==
    Building =>
        /\ \A n \in Heights :
               (phase = "climb" => n >= height) /\ Single!Shift(idx, n) % 2 = 1 =>
                   stack[n] = TreeAt(number)[n][Single!Shift(idx, n) - 1]
        /\ phase = "climb" =>
               /\ current = TreeAt(number)[height][Single!Shift(idx, height)]
               /\ \E c \in Single!Leaves : idx + 1 = (c + 1) * 2^height

Written(t, n) == t < number \/ (t = number /\ Neighbour(t, n) < Passed(n))

PathInv ==
    Building =>
        \A t \in Single!TreeSet : \A n \in Heights :
            paths[t][n] = IF indices[t] # NoLeaf /\ Written(t, n)
                          THEN TreeAt(t)[n][Neighbour(t, n)] ELSE None

Finished(t) ==
    /\ roots[t] = Single!Root(t * 2^TreeHeight)
    /\ \A n \in Heights : paths[t][n] = IF indices[t] = NoLeaf THEN None
                                        ELSE TreeAt(t)[n][Neighbour(t, n)]

RootsInv ==
    \A t \in Single!TreeSet :
        /\ roots[t] # None => Finished(t) /\ (Building => t < number)
        /\ Building /\ t < number => Finished(t)
        /\ phase \in {"verify", "root"} => Finished(t)
        /\ recovered[t] # None => phase \in {"verify", "root", "done"} /\ recovered[t] = roots[t]

ClimbInv ==
    phase = "root" =>
        /\ indices[number] # NoLeaf
        /\ buffer = Single!Beside(TreeAt(number)[height][Single!Shift(indices[number], height)],
                                  Single!Shift(indices[number], height), paths[number][height])

Counted(address) ==
    \E n \in 0 .. TreeHeight : \E x \in 0 .. (Reached(n) + Above(number, n)) - 1 : address = <<n, x>>

AddressInv ==
    /\ addresses \in Seq(Nat \X Nat)
    /\ \A a, b \in DOMAIN addresses : addresses[a] = addresses[b] => a = b
    /\ Building => \A a \in DOMAIN addresses : Counted(addresses[a])

TreesInv == TypeInv /\ StackInv /\ PathInv /\ RootsInv /\ ClimbInv /\ AddressInv

-----------------------------------------------------------------------------
(* The trees that treehashx1 builds on its stack, one after the other.     *)
LEMMA TreePowers ==
    /\ TreeHeight \in Nat \ {0} /\ Trees \in Nat \ {0} /\ NoLeaf \in Nat /\ 2^0 = 1
    /\ 2^TreeHeight \in Nat \ {0} /\ NoLeaf >= 2 * 2^TreeHeight
    /\ \A n \in 0 .. TreeHeight :
           /\ 2^n \in Nat \ {0} /\ 2^(n + 1) \in Nat \ {0} /\ 2^(n + 1) = 2^n * 2
           /\ 2^(TreeHeight - n) \in Nat \ {0} /\ 2^TreeHeight = 2^(TreeHeight - n) * 2^n
<1>1. /\ TreeHeight \in Nat \ {0} /\ Trees \in Nat \ {0} /\ NoLeaf \in Nat
      /\ NoLeaf >= 2^(TreeHeight + 1) /\ 2^0 = 1 /\ 2^1 = 2
      /\ \A a \in 0 .. TreeHeight + 1 : \A b \in 0 .. TreeHeight + 1 - a :
             2^a \in Nat \ {0} /\ 2^(a + b) = 2^a * 2^b
  BY TreesAssumption DEF Single!HeightAssumption, Single!TreesAssumption, Single!PowerAssumption
<1>2. ASSUME NEW n \in 0 .. TreeHeight
      PROVE  /\ 2^n \in Nat \ {0} /\ 2^(n + 1) \in Nat \ {0} /\ 2^(n + 1) = 2^n * 2
             /\ 2^(TreeHeight - n) \in Nat \ {0} /\ 2^TreeHeight = 2^(TreeHeight - n) * 2^n
  <2> DEFINE m == TreeHeight - n
  <2>1. /\ n \in 0 .. TreeHeight + 1 /\ 1 \in 0 .. TreeHeight + 1 - n
        /\ n + 1 \in 0 .. TreeHeight + 1 /\ 0 \in 0 .. TreeHeight + 1 - (n + 1)
        /\ m \in 0 .. TreeHeight + 1 /\ n \in 0 .. TreeHeight + 1 - m /\ m + n = TreeHeight
    BY <1>1
  <2> HIDE DEF m
  <2>2. 2^n \in Nat \ {0} /\ 2^(n + 1) = 2^n * 2^1 /\ 2^(n + 1) \in Nat \ {0}
    BY <1>1, <2>1
  <2>3. 2^m \in Nat \ {0} /\ 2^(m + n) = 2^m * 2^n
    BY <1>1, <2>1
  <2> QED  BY <1>1, <2>1, <2>2, <2>3 DEF m
<1>3. TreeHeight \in 0 .. TreeHeight
  BY <1>1
<1>4. 2^TreeHeight \in Nat \ {0} /\ 2^(TreeHeight + 1) = 2^TreeHeight * 2
  BY <1>2, <1>3
<1>5. NoLeaf >= 2 * 2^TreeHeight
  BY <1>1, <1>4
<1> QED  BY <1>1, <1>2, <1>4, <1>5

LEMMA ShiftIs ==
    ASSUME NEW x, NEW n, x \in Nat, n \in 0 .. TreeHeight
    PROVE  /\ Single!Shift(x, n) \in Nat /\ Single!Shift(x, 0) = x
           /\ Single!Shift(x, n + 1) = Single!Shift(x, n) \div 2
           /\ Single!Shift(x, n + 1) \in Nat
<1>1. 2^n \in Nat \ {0} /\ 2^(n + 1) \in Nat \ {0} /\ 2^(n + 1) = 2^n * 2 /\ 2^0 = 1
  BY TreePowers
<1> DEFINE M == 2^n
           P == 2^(n + 1)
<1>2. M \in Nat \ {0} /\ P \in Nat \ {0} /\ P = M * 2 /\ 2 \in Nat \ {0}
  BY <1>1
<1> HIDE DEF M, P
<1>3. (x \div M) \div 2 = x \div P /\ x \div M \in Nat /\ x \div P \in Nat
  <2>1. x \div M \in Nat
    BY <1>2, Division
  <2>2. x \div P \in Nat
    BY <1>2, Division
  <2>3. (x \div M) \div 2 = x \div P
    BY <1>2, DivProduct
  <2> QED  BY <2>1, <2>2, <2>3
<1>4. x \div 1 = x
  OBVIOUS
<1> QED  BY <1>1, <1>3, <1>4 DEF Single!Shift, M, P

(* A leaf's ancestors, and the first ones of a tree among all trees. *)
LEMMA Within ==
    ASSUME NEW x, NEW n, x \in Single!Leaves, n \in 0 .. TreeHeight
    PROVE  x \in Nat /\ Single!Shift(x, n) \in 0 .. 2^(TreeHeight - n) - 1
<1> DEFINE M == 2^n
           N == 2^(TreeHeight - n)
           K == 2^TreeHeight
           q == x \div M
<1>1. M \in Nat \ {0} /\ N \in Nat \ {0} /\ K = N * M /\ K \in Nat \ {0}
  BY TreePowers
<1>2. x \in 0 .. K - 1
  BY DEF Single!Leaves
<1> HIDE DEF M, N, K
<1>3. x \in Nat /\ x < K
  BY <1>1, <1>2
<1>4. q \in Nat /\ x % M \in 0 .. M - 1 /\ x = q * M + (x % M)
  BY <1>1, <1>3, Division
<1>5. PICK r \in 0 .. M - 1 : x = q * M + r
  BY <1>4
<1> HIDE DEF q
<1>6. q * M < N * M
  <2>1. q * M \in Nat
    BY <1>1, <1>4
  <2> QED  BY <1>1, <1>3, <1>5, <2>1
<1>7. q < N
  BY <1>1, <1>4, <1>6, Cancel
<1>8. q \in 0 .. N - 1
  BY <1>1, <1>4, <1>7
<1> QED  BY <1>3, <1>8 DEF Single!Shift, q, M, N

LEMMA FirstAt ==
    ASSUME NEW t, NEW n, t \in Nat, n \in 0 .. TreeHeight
    PROVE  /\ Above(t, n) = t * 2^(TreeHeight - n) /\ Above(t, n) \in Nat
           /\ Above(t + 1, n) = Above(t, n) + 2^(TreeHeight - n)
           /\ t * 2^TreeHeight \in Nat
<1> DEFINE M == 2^n
           N == 2^(TreeHeight - n)
           K == 2^TreeHeight
<1>1. M \in Nat \ {0} /\ N \in Nat \ {0} /\ K = N * M /\ K \in Nat \ {0}
  BY TreePowers
<1>2. ASSUME NEW s, s \in Nat PROVE Above(s, n) = s * N /\ s * K \in Nat /\ s * N \in Nat
  <2>1. s * N \in Nat /\ s * K \in Nat /\ s * K = (s * N) * M + 0 /\ 0 \in 0 .. M - 1
    <3> HIDE DEF M, N, K
    <3>1. s * (N * M) = (s * N) * M
      BY <1>1, <1>2
    <3> QED  BY <1>1, <1>2, <3>1
  <2> DEFINE a == s * K
             q == s * N
  <2>2. a \in Nat /\ q \in Int /\ a = q * M + 0 /\ 0 \in 0 .. M - 1
    BY <2>1
  <2> HIDE DEF a, q, M
  <2>3. a \div M = q
    BY <1>1, <2>2, Quotient
  <2> QED  BY <2>1, <2>3 DEF Above, Single!Shift, a, q, M
<1>3. t + 1 \in Nat
  OBVIOUS
<1>4. (t + 1) * N = t * N + N
  BY <1>1
<1> QED  BY <1>2, <1>3, <1>4

(* Where a leaf is the last one below a node, the next leaf begins the     *)
(* neighbour: an even one leaves the heights above as they are, an odd one *)
(* completes its parent.                                                   *)
EndsAt(x, c, n) == x \in Nat /\ c \in Nat /\ x + 1 = (c + 1) * 2^n

LEMMA Ends ==
    ASSUME NEW x, NEW c, NEW n, n \in 0 .. TreeHeight, EndsAt(x, c, n)
    PROVE  Single!Shift(x, n) = c /\ Single!Shift(x + 1, n) = c + 1
<1> DEFINE M == 2^n
           y == x + 1
<1>1. M \in Nat \ {0}
  BY TreePowers
<1>2. x \in Nat /\ c \in Nat /\ y \in Nat /\ y = (c + 1) * M /\ y = x + 1
  BY DEF EndsAt
<1> HIDE DEF M, y
<1>3. c * M \in Int /\ (c + 1) * M = c * M + M
  BY <1>1, <1>2
<1>4. x = c * M + (M - 1) /\ y = (c + 1) * M + 0 /\ M - 1 \in 0 .. M - 1 /\ 0 \in 0 .. M - 1
      /\ c \in Int /\ c + 1 \in Int
  BY <1>1, <1>2, <1>3
<1>5. x \div M = c
  BY <1>1, <1>2, <1>4, Quotient
<1>6. y \div M = c + 1
  BY <1>1, <1>2, <1>4, Quotient
<1> QED  BY <1>5, <1>6 DEF Single!Shift, M, y

LEMMA Below ==
    ASSUME NEW x, NEW c, NEW n, n \in 0 .. TreeHeight, EndsAt(x, c, n), NEW k, k \in 0 .. n - 1
    PROVE  Single!Shift(x + 1, k) % 2 = 0
<1> DEFINE m == n - k
<1>1. k \in 0 .. TreeHeight /\ k + 1 \in 0 .. TreeHeight
  BY TreePowers
<1> DEFINE T == {j \in Nat : j <= n => \E d \in Nat : x + 1 = d * 2^(n - j)}
<1>2. 0 \in T
  <2>1. x + 1 = (c + 1) * 2^n /\ c + 1 \in Nat /\ n - 0 = n
    BY DEF EndsAt
  <2> QED  BY <2>1
<1>3. ASSUME NEW j \in T PROVE j + 1 \in T
  <2>1. j + 1 \in Nat /\ j \in Nat
    OBVIOUS
  <2>2. ASSUME j + 1 <= n PROVE \E d \in Nat : x + 1 = d * 2^(n - (j + 1))
    <3>1. PICK d \in Nat : x + 1 = d * 2^(n - j)
      BY <2>1, <2>2
    <3>2. PICK i : i = n - (j + 1)
      OBVIOUS
    <3>3. i \in 0 .. TreeHeight /\ n - j = i + 1
      BY <2>1, <2>2, <3>2, TreePowers
    <3>4. 2^(i + 1) = 2^i * 2 /\ 2^i \in Nat
      BY <3>3, TreePowers
    <3>5. d * (2^i * 2) = (d * 2) * 2^i /\ d * 2 \in Nat
      BY <3>4
    <3> QED  BY <3>1, <3>2, <3>3, <3>4, <3>5
  <2> QED  BY <2>1, <2>2
<1>4. T = Nat
  <2> HIDE DEF T
  <2>1. T \subseteq Nat
    BY DEF T
  <2> QED  BY <1>2, <1>3, <2>1, Induction
<1>5. PICK d \in Nat : x + 1 = d * 2^(k + 1)
  <2>1. m - 1 \in Nat /\ m - 1 <= n /\ n - (m - 1) = k + 1
    BY <1>1
  <2>2. PICK j : j = m - 1
    OBVIOUS
  <2>3. j \in T
    <3> HIDE DEF T
    <3> QED  BY <1>4, <2>1, <2>2
  <2> QED  BY <2>1, <2>2, <2>3
<1> DEFINE M == 2^k
           y == x + 1
<1>6. M \in Nat \ {0} /\ 2^(k + 1) = M * 2 /\ y \in Nat
  BY <1>1, TreePowers DEF EndsAt
<1>7. y = d * (M * 2)
  BY <1>5, <1>6
<1> HIDE DEF M, y
<1>8. y = (d * 2) * M + 0 /\ 0 \in 0 .. M - 1 /\ d * 2 \in Int
  BY <1>6, <1>7
<1>9. y \div M = d * 2
  BY <1>6, <1>8, Quotient
<1>10. (d * 2) % 2 = 0
  OBVIOUS
<1> QED  BY <1>9, <1>10 DEF Single!Shift, M, y

LEMMA Odd ==
    ASSUME NEW x, NEW c, NEW n, n \in 0 .. TreeHeight - 1, EndsAt(x, c, n), c % 2 = 1
    PROVE  \E d \in Nat : c = 2 * d + 1 /\ EndsAt(x, d, n + 1) /\ Single!Shift(x, n + 1) = d
<1>1. n \in 0 .. TreeHeight /\ n + 1 \in 0 .. TreeHeight /\ x \in Nat /\ c \in Nat
  BY TreePowers DEF EndsAt
<1>2. PICK d \in Nat : c = 2 * d + 1
  BY <1>1
<1> DEFINE M == 2^n
<1>3. M \in Nat /\ 2^(n + 1) = M * 2 /\ x + 1 = (c + 1) * M
  BY <1>1, TreePowers DEF EndsAt
<1> HIDE DEF M
<1>4. (2 * d + 1 + 1) * M = (d + 1) * (M * 2)
  BY <1>3
<1>5. EndsAt(x, d, n + 1)
  BY <1>1, <1>2, <1>3, <1>4 DEF EndsAt
<1>6. Single!Shift(x, n + 1) = d
  BY <1>1, <1>5, Ends
<1> QED  BY <1>2, <1>5, <1>6

LEMMA Even ==
    ASSUME NEW x, NEW c, NEW n, n \in 0 .. TreeHeight - 1, EndsAt(x, c, n), c % 2 = 0
    PROVE  \A k \in n + 1 .. TreeHeight : Single!Shift(x + 1, k) = Single!Shift(x, k)
<1>1. n \in 0 .. TreeHeight /\ x \in Nat /\ x + 1 \in Nat /\ c \in Nat /\ TreeHeight \in Nat
  BY TreePowers DEF EndsAt
<1> DEFINE S(k) == Single!Shift(x + 1, k) = Single!Shift(x, k)
           T == {j \in Nat : n + 1 + j <= TreeHeight => S(n + 1 + j)}
<1>2. S(n + 1)
  <2>1. Single!Shift(x, n) = c /\ Single!Shift(x + 1, n) = c + 1
    BY <1>1, Ends
  <2>2. Single!Shift(x, n + 1) = c \div 2
    BY <1>1, <2>1, ShiftIs
  <2>3. Single!Shift(x + 1, n + 1) = (c + 1) \div 2
    BY <1>1, <2>1, ShiftIs
  <2>4. (c + 1) \div 2 = c \div 2
    BY <1>1
  <2> QED  BY <2>2, <2>3, <2>4
<1>3. 0 \in T
  <2>1. n + 1 + 0 = n + 1
    BY <1>1
  <2> QED  BY <1>2, <2>1
<1>4. ASSUME NEW j \in T PROVE j + 1 \in T
  <2>1. j \in Nat /\ j + 1 \in Nat
    OBVIOUS
  <2>2. ASSUME n + 1 + (j + 1) <= TreeHeight PROVE S(n + 1 + (j + 1))
    <3>1. PICK k : k = n + 1 + j
      OBVIOUS
    <3>2. k \in 0 .. TreeHeight /\ n + 1 + (j + 1) = k + 1
      BY <1>1, <2>1, <2>2, <3>1
    <3>3. Single!Shift(x + 1, k) = Single!Shift(x, k)
      BY <1>1, <2>1, <2>2, <3>1
    <3>4. Single!Shift(x, k + 1) = Single!Shift(x, k) \div 2
      BY <1>1, <3>2, ShiftIs
    <3>5. Single!Shift(x + 1, k + 1) = Single!Shift(x + 1, k) \div 2
      BY <1>1, <3>2, ShiftIs
    <3> QED  BY <3>2, <3>3, <3>4, <3>5
  <2> QED  BY <2>1, <2>2
<1>5. T = Nat
  <2> HIDE DEF T
  <2>1. T \subseteq Nat
    BY DEF T
  <2> QED  BY <1>3, <1>4, <2>1, Induction
<1>6. ASSUME NEW k \in n + 1 .. TreeHeight PROVE S(k)
  <2>1. k - (n + 1) \in Nat /\ n + 1 + (k - (n + 1)) = k /\ k <= TreeHeight
    BY <1>1
  <2>2. k - (n + 1) \in T
    BY <1>5, <2>1
  <2> QED  BY <2>1, <2>2
<1> QED  BY <1>6

(* What the recursive function of the definition satisfies. *)
IsTree(v, offset, last) ==
    v = [n \in 0 .. last |->
            [x \in 0 .. 2^(TreeHeight - n) - 1 |->
                IF n = 0 THEN Single!Leaf(offset + x)
                ELSE Single!Hash(Single!Address(n, x + Single!Shift(offset, n)),
                                 v[n - 1][2 * x], v[n - 1][2 * x + 1])]]

LEMMA TreeExists ==
    ASSUME NEW offset, NEW last \in Nat PROVE \E v : IsTree(v, offset, last)
<1> DEFINE T == {n \in Nat : \E v : IsTree(v, offset, n)}
           level(n, u) == [x \in 0 .. 2^(TreeHeight - n) - 1 |->
                              IF n = 0 THEN Single!Leaf(offset + x)
                              ELSE Single!Hash(Single!Address(n, x + Single!Shift(offset, n)),
                                               u[2 * x], u[2 * x + 1])]
<1>1. 0 \in T
  <2> DEFINE v == [k \in 0 .. 0 |-> [x \in 0 .. 2^(TreeHeight - 0) - 1 |-> Single!Leaf(offset + x)]]
  <2>1. \A k \in 0 .. 0 : k = 0
    OBVIOUS
  <2>2. IsTree(v, offset, 0)
    BY <2>1 DEF IsTree
  <2> QED  BY <2>2
<1>2. ASSUME NEW m \in T PROVE m + 1 \in T
  <2>1. PICK v : IsTree(v, offset, m)
    OBVIOUS
  <2> DEFINE w == [k \in 0 .. m + 1 |-> IF k = m + 1 THEN level(m + 1, v[m]) ELSE v[k]]
  <2>2. m \in Nat
    OBVIOUS
  <2>3. \A k \in 0 .. m : v[k] = level(k, v[k - 1])
    BY <2>1 DEF IsTree
  <2>4. w[m + 1] = level(m + 1, v[m]) /\ \A k \in 0 .. m : w[k] = v[k]
    BY <2>2
  <2>5. \A u1, u2 : level(0, u1) = level(0, u2)
    OBVIOUS
  <2>6. ASSUME NEW k \in 0 .. m + 1
        PROVE  (IF k = m + 1 THEN level(m + 1, v[m]) ELSE v[k]) = level(k, w[k - 1])
    <3> HIDE DEF w, level
    <3>1. CASE k = m + 1
      <4>1. k - 1 = m /\ m \in 0 .. m
        BY <2>2, <3>1
      <4> QED  BY <2>4, <3>1, <4>1
    <3>2. CASE k # m + 1
      <4>1. k \in 0 .. m /\ (k # 0 => k - 1 \in 0 .. m)
        BY <2>2, <3>2
      <4>2. v[k] = level(k, v[k - 1])
        BY <2>3, <4>1
      <4>3. CASE k = 0
        BY <2>5, <3>2, <4>2, <4>3
      <4>4. CASE k # 0
        BY <2>4, <3>2, <4>1, <4>2, <4>4
      <4> QED  BY <4>3, <4>4
    <3> QED  BY <3>1, <3>2
  <2>7. IsTree(w, offset, m + 1)
    <3>1. w = [k \in 0 .. m + 1 |-> level(k, w[k - 1])]
      BY <2>6
    <3> HIDE DEF w
    <3> QED  BY <3>1 DEF IsTree
  <2> HIDE DEF w
  <2> QED  BY <2>2, <2>7
<1>3. T = Nat
  <2> HIDE DEF T
  <2>1. T \subseteq Nat
    BY DEF T
  <2> QED  BY <1>1, <1>2, <2>1, Induction
<1> QED  BY <1>3

LEMMA TreeIs ==
    ASSUME NEW t, NEW v, v = TreeAt(t)
    PROVE  /\ \A x \in Single!Leaves : v[0][x] = Single!Leaf(t * 2^TreeHeight + x)
           /\ \A n \in 1 .. TreeHeight : \A x \in 0 .. 2^(TreeHeight - n) - 1 :
                  v[n][x] = Single!Hash(Single!Address(n, x + Above(t, n)),
                                        v[n - 1][2 * x], v[n - 1][2 * x + 1])
<1> DEFINE offset == t * 2^TreeHeight
           c == CHOOSE u : IsTree(u, offset, TreeHeight)
<1>1. v = c
  BY DEF TreeAt, Single!Tree, IsTree
<1>2. TreeHeight \in Nat
  BY TreePowers
<1>3. IsTree(c, offset, TreeHeight)
  <2> HIDE DEF offset
  <2> QED  BY <1>2, TreeExists
<1> HIDE DEF c, offset
<1> DEFINE value(n, x) == IF n = 0 THEN Single!Leaf(offset + x)
                          ELSE Single!Hash(Single!Address(n, x + Single!Shift(offset, n)),
                                           c[n - 1][2 * x], c[n - 1][2 * x + 1])
           level(n) == [x \in 0 .. 2^(TreeHeight - n) - 1 |-> value(n, x)]
<1>4. c = [n \in 0 .. TreeHeight |-> level(n)]
  BY <1>3 DEF IsTree
<1>5. ASSUME NEW n \in 0 .. TreeHeight, NEW x \in 0 .. 2^(TreeHeight - n) - 1 PROVE c[n][x] = value(n, x)
  <2>1. c[n] = level(n)
    <3> HIDE DEF level
    <3> QED  BY <1>4
  <2> HIDE DEF value
  <2> QED  BY <2>1
<1>6. ASSUME NEW x \in Single!Leaves PROVE c[0][x] = Single!Leaf(offset + x)
  <2>1. TreeHeight - 0 = TreeHeight /\ 0 \in 0 .. TreeHeight
    BY <1>2
  <2>2. x \in 0 .. 2^(TreeHeight - 0) - 1
    BY <2>1 DEF Single!Leaves
  <2> QED  BY <1>5, <2>1, <2>2
<1>7. ASSUME NEW n \in 1 .. TreeHeight, NEW x \in 0 .. 2^(TreeHeight - n) - 1
      PROVE  c[n][x] = Single!Hash(Single!Address(n, x + Single!Shift(offset, n)),
                                   c[n - 1][2 * x], c[n - 1][2 * x + 1])
  <2>1. n \in 0 .. TreeHeight /\ n # 0
    BY <1>2
  <2> QED  BY <1>5, <2>1
<1> QED  BY <1>1, <1>6, <1>7 DEF Above, offset

(* Neighbours on the way up. *)
LEMMA SiblingIs ==
    ASSUME NEW a, NEW b, a \in Nat, b \in Nat
    PROVE  /\ Single!Siblings(a, b) <=> a = Single!Sibling(b)
           /\ Single!Sibling(b) \in Nat
           /\ b % 2 = 0 => b = 2 * (b \div 2) /\ Single!Sibling(b) = 2 * (b \div 2) + 1
           /\ b % 2 = 1 => b = 2 * (b \div 2) + 1 /\ Single!Sibling(b) = 2 * (b \div 2)
           /\ b % 2 = 0 \/ b % 2 = 1
BY DEF Single!Siblings, Single!Sibling

LEMMA NeighbourWithin ==
    ASSUME NEW i, NEW n, i \in Single!Leaves, n \in 0 .. TreeHeight - 1
    PROVE  Single!Sibling(Single!Shift(i, n)) \in 0 .. 2^(TreeHeight - n) - 1
<1> DEFINE p == Single!Shift(i, n)
           K == 2^(TreeHeight - n)
<1>1. TreeHeight \in Nat
  BY TreePowers
<1>2. PICK m : m = TreeHeight - n - 1
  OBVIOUS
<1>3. m \in 0 .. TreeHeight /\ m + 1 = TreeHeight - n /\ n \in 0 .. TreeHeight
  BY <1>1, <1>2
<1>4. K = 2^m * 2 /\ 2^m \in Nat
  BY <1>3, TreePowers
<1>5. p \in 0 .. K - 1
  BY <1>3, Within
<1> HIDE DEF p, K
<1>6. PICK M \in Nat : K = M * 2
  BY <1>4
<1> QED  BY <1>5, <1>6 DEF Single!Sibling, p, K

LEMMA NeverOnPath ==
    ASSUME NEW x, NEW n, n \in 0 .. TreeHeight - 1, x \in 0 .. 2^(TreeHeight - n) - 1
    PROVE  ~Single!Siblings(x, Single!Shift(NoLeaf, n))
<1> DEFINE M == 2^n
           N == 2^(TreeHeight - n)
           K == 2^TreeHeight
           q == NoLeaf \div M
<1>1. /\ M \in Nat \ {0} /\ N \in Nat \ {0} /\ K = N * M /\ K \in Nat
      /\ NoLeaf \in Nat /\ NoLeaf >= 2 * K
  <2>1. n \in 0 .. TreeHeight
    BY TreePowers
  <2> QED  BY <2>1, TreePowers
<1>2. x \in Nat /\ x < N
  <2> HIDE DEF N
  <2>1. x \in 0 .. N - 1
    BY DEF N
  <2> QED  BY <1>1, <2>1
<1>3. q \in Nat /\ NoLeaf % M \in 0 .. M - 1 /\ NoLeaf = q * M + (NoLeaf % M)
  BY <1>1, Division
<1>4. PICK r \in 0 .. M - 1 : NoLeaf = q * M + r
  BY <1>3
<1> HIDE DEF M, N, K, q
<1>5. (2 * N) * M < (q + 1) * M
  <2>1. (q + 1) * M = q * M + M /\ q * M \in Nat /\ (2 * N) * M = 2 * (N * M)
    BY <1>1, <1>3
  <2> QED  BY <1>1, <1>4, <2>1
<1>6. 2 * N < q + 1
  <2>1. 2 * N \in Int /\ q + 1 \in Int
    BY <1>1, <1>3
  <2> QED  BY <1>1, <1>5, <2>1, Cancel
<1>7. x \div 2 < N /\ q \div 2 >= N
  BY <1>1, <1>2, <1>3, <1>6
<1> QED  BY <1>1, <1>2, <1>3, <1>7 DEF Single!Siblings, Single!Shift, q, M

(* What the running climb knows of its leaf and its node. *)
LEMMA Climbing ==
    ASSUME TreesInv, phase = "climb"
    PROVE  \E c \in Nat :
               /\ EndsAt(idx, c, height) /\ Single!Shift(idx, height) = c
               /\ Single!Shift(idx + 1, height) = c + 1 /\ c \in 0 .. 2^(TreeHeight - height) - 1
               /\ current = TreeAt(number)[height][c]
               /\ idx \in Single!Leaves /\ idx \in Nat /\ height \in 0 .. TreeHeight
               /\ number \in Single!TreeSet /\ number \in Nat
<1>1. /\ idx \in Single!Leaves /\ height \in 0 .. TreeHeight /\ number \in Single!TreeSet
      /\ current = TreeAt(number)[height][Single!Shift(idx, height)]
  BY DEF TreesInv, TypeInv, StackInv, Building
<1>2. PICK c \in Single!Leaves : idx + 1 = (c + 1) * 2^height
  BY DEF TreesInv, StackInv, Building
<1>3. idx \in Nat /\ Single!Shift(idx, height) \in 0 .. 2^(TreeHeight - height) - 1 /\ number \in Nat
  <2>1. idx \in Nat /\ Single!Shift(idx, height) \in 0 .. 2^(TreeHeight - height) - 1
    BY <1>1, Within
  <2>2. number \in Nat
    BY <1>1, TreePowers DEF Single!TreeSet
  <2> QED  BY <2>1, <2>2
<1>4. c \in Nat
  <2>1. 0 \in 0 .. TreeHeight
    BY TreePowers
  <2> QED  BY <2>1, Within
<1>5. EndsAt(idx, c, height)
  BY <1>2, <1>3, <1>4 DEF EndsAt
<1>6. Single!Shift(idx, height) = c /\ Single!Shift(idx + 1, height) = c + 1
  BY <1>1, <1>5, Ends
<1> QED  BY <1>1, <1>3, <1>4, <1>5, <1>6

(* A node is compared with the path of its tree's leaf. *)
LEMMA PathStep ==
    ASSUME TreesInv, phase = "climb", NEW k, k = height, k \in Heights, Building',
           paths' = Single!PathAfter, indices' = indices, number' = number,
           Passed(k)' = Single!Shift(idx, k) + 1,
           \A n \in Heights : n # k => Passed(n)' = Passed(n)
    PROVE  /\ PathInv'
           /\ DOMAIN paths' = Single!TreeSet /\ \A t \in Single!TreeSet : IsPath(paths'[t])
           /\ \A t \in Single!TreeSet : t # number => paths'[t] = paths[t]
<1>1. PICK c \in Nat : /\ Single!Shift(idx, height) = c /\ c \in 0 .. 2^(TreeHeight - height) - 1
                       /\ current = TreeAt(number)[height][c] /\ number \in Single!TreeSet
  BY Climbing
<1>2. /\ indices \in [Single!TreeSet -> Single!Leaves \cup {NoLeaf}]
      /\ DOMAIN paths = Single!TreeSet /\ \A t \in Single!TreeSet : IsPath(paths[t])
  BY DEF TreesInv, TypeInv
<1>3. \A t \in Single!TreeSet : \A n \in Heights :
          paths[t][n] = IF indices[t] # NoLeaf /\ Written(t, n)
                        THEN TreeAt(t)[n][Neighbour(t, n)] ELSE None
  BY DEF TreesInv, PathInv, Building
<1> DEFINE hit == Single!OnPath(c, Single!Shift(indices[number], height))
<1>4. paths' = IF hit THEN [paths EXCEPT ![number][height] = current] ELSE paths
  BY <1>1 DEF Single!PathAfter
<1>5. Passed(height) = c
  BY <1>1 DEF Passed, Heights
<1>6. hit <=> indices[number] # NoLeaf /\ Neighbour(number, height) = c
  <2>1. CASE indices[number] = NoLeaf
    BY <1>1, <2>1, NeverOnPath DEF Single!OnPath, Heights
  <2>2. CASE indices[number] # NoLeaf
    <3>1. PICK i \in Single!Leaves : i = indices[number]
      BY <1>1, <1>2, <2>2
    <3>2. Single!Shift(i, height) \in Nat
      <4>1. height \in 0 .. TreeHeight
        BY TreePowers DEF Heights
      <4>2. i \in Nat
        BY <4>1, Within
      <4> QED  BY <4>1, <4>2, ShiftIs
    <3>3. Single!Siblings(c, Single!Shift(i, height)) <=> c = Single!Sibling(Single!Shift(i, height))
      BY <3>2, SiblingIs
    <3> QED  BY <2>2, <3>1, <3>3 DEF Single!OnPath, Neighbour
  <2> QED  BY <2>1, <2>2
<1> HIDE DEF hit
<1>7. /\ DOMAIN paths' = Single!TreeSet /\ \A t \in Single!TreeSet : IsPath(paths'[t])
      /\ \A t \in Single!TreeSet : t # number => paths'[t] = paths[t]
      /\ \A n \in Heights : n # height => paths'[number][n] = paths[number][n]
      /\ paths'[number][height] = IF hit THEN current ELSE paths[number][height]
  <2>1. /\ height \in Heights /\ number \in Single!TreeSet /\ DOMAIN paths = Single!TreeSet
        /\ \A t \in Single!TreeSet : paths[t] = [n \in Heights |-> paths[t][n]]
    BY <1>1, <1>2 DEF IsPath
  <2>2. CASE ~hit
    BY <1>2, <1>4, <2>2
  <2>3. CASE hit
    <3>1. DOMAIN paths' = Single!TreeSet
      BY <1>4, <2>1, <2>3
    <3>2. \A t \in Single!TreeSet :
              paths'[t] = IF t = number THEN [paths[number] EXCEPT ![height] = current] ELSE paths[t]
      BY <1>4, <2>1, <2>3
    <3>3. paths'[number] = [n \in Heights |-> IF n = height THEN current ELSE paths[number][n]]
      BY <2>1, <3>2
    <3>4. IsPath(paths'[number])
      BY <3>3 DEF IsPath
    <3> QED  BY <1>2, <2>1, <2>3, <3>1, <3>2, <3>3, <3>4
  <2> QED  BY <2>2, <2>3
<1>8. ASSUME NEW t \in Single!TreeSet, NEW n \in Heights
      PROVE  paths'[t][n] = IF indices[t] # NoLeaf /\ Written(t, n)'
                            THEN TreeAt(t)[n][Neighbour(t, n)] ELSE None
  <2>1. Neighbour(t, n)' = Neighbour(t, n)
    BY DEF Neighbour
  <2>2. CASE t = number /\ n = k
    <3>1. Written(t, n)' <=> (t < number \/ Neighbour(t, n) < c + 1)
      BY <1>1, <2>1, <2>2 DEF Written
    <3>2. Written(t, n) <=> (t < number \/ Neighbour(t, n) < c)
      BY <1>5, <2>2 DEF Written
    <3>3. ~(t < number)
      BY <2>2 DEF Single!TreeSet
    <3>4. CASE indices[t] = NoLeaf
      BY <1>3, <1>6, <1>7, <2>2, <3>4
    <3>5. CASE indices[t] # NoLeaf
      <4>1. Neighbour(t, n) \in Nat
        <5>1. indices[t] \in Single!Leaves
          BY <1>2, <3>5
        <5>2. Neighbour(t, n) \in 0 .. 2^(TreeHeight - n) - 1
          BY <5>1, NeighbourWithin DEF Neighbour, Heights
        <5> QED  BY <5>2
      <4>2. Neighbour(t, n) < c + 1 <=> (Neighbour(t, n) < c \/ Neighbour(t, n) = c)
        BY <4>1
      <4>3. paths[t][n] = IF Neighbour(t, n) < c THEN TreeAt(t)[n][Neighbour(t, n)] ELSE None
        BY <1>3, <3>2, <3>3, <3>5
      <4>4. paths'[t][n] = IF Neighbour(t, n) = c THEN TreeAt(t)[n][c] ELSE paths[t][n]
        BY <1>1, <1>6, <1>7, <2>2, <3>5
      <4> QED  BY <3>1, <3>3, <3>5, <4>2, <4>3, <4>4
    <3> QED  BY <3>4, <3>5
  <2>3. CASE ~(t = number /\ n = k)
    <3>1. paths'[t][n] = paths[t][n]
      BY <1>7, <2>3
    <3>2. t = number => Passed(n)' = Passed(n)
      BY <2>3
    <3>3. Written(t, n)' <=> Written(t, n)
      BY <2>1, <3>2 DEF Written
    <3> QED  BY <1>3, <3>1, <3>3
  <2> QED  BY <2>2, <2>3
<1>9. PathInv'
  <2>1. ASSUME NEW t \in Single!TreeSet, NEW n \in Heights
        PROVE  Neighbour(t, n)' = Neighbour(t, n) /\ TreeAt(t)' = TreeAt(t)
    BY DEF Neighbour
  <2> QED  BY <1>8, <2>1 DEF PathInv
<1> QED  BY <1>7, <1>9

(* The last leaf has odd ancestors only, so that it never waits. *)
LEMMA LastIsOdd ==
    ASSUME NEW x, NEW c, NEW n, n \in 0 .. TreeHeight - 1, x \in Single!Leaves, EndsAt(x, c, n),
           x >= 2^TreeHeight - 1
    PROVE  c % 2 = 1
<1>1. n \in 0 .. TreeHeight /\ x \in Nat /\ c \in Nat /\ TreeHeight \in Nat /\ 2^TreeHeight \in Nat
  BY TreePowers DEF EndsAt
<1>2. x + 1 = 1 * 2^TreeHeight
  BY <1>1 DEF Single!Leaves
<1>3. Single!Shift(1 * 2^TreeHeight, n) = 1 * 2^(TreeHeight - n)
  <2>1. Above(1, n) = 1 * 2^(TreeHeight - n)
    BY <1>1, FirstAt
  <2> QED  BY <2>1 DEF Above
<1>4. Single!Shift(x + 1, n) = c + 1
  BY <1>1, Ends
<1>5. PICK m : m = TreeHeight - n - 1
  OBVIOUS
<1>6. m \in 0 .. TreeHeight /\ m + 1 = TreeHeight - n
  BY <1>1, <1>5
<1>7. 2^(TreeHeight - n) = 2^m * 2 /\ 2^m \in Nat
  BY <1>6, TreePowers
<1>8. PICK M \in Nat : 2^(TreeHeight - n) = M * 2
  BY <1>7
<1>9. c + 1 = M * 2
  BY <1>2, <1>3, <1>4, <1>8
<1> QED  BY <1>1, <1>9

(* How many nodes of a height exist. *)
LEMMA ReachedIs ==
    ASSUME TreesInv, NEW n \in 0 .. TreeHeight
    PROVE  Reached(n) \in Nat /\ Above(number, n) \in Nat
<1>1. idx \in Single!Leaves /\ number \in Single!TreeSet
  BY DEF TreesInv, TypeInv
<1>2. TreeHeight \in Nat
  BY TreePowers
<1>3. 0 \in 0 .. TreeHeight
  BY <1>2
<1>4. idx \in Nat
  BY <1>1, <1>3, Within
<1>5. number \in Nat
  BY <1>1, TreePowers DEF Single!TreeSet
<1>6. idx + 1 \in Nat
  BY <1>4
<1>7. Single!Shift(idx, n) \in Nat
  BY <1>4, ShiftIs
<1>8. Single!Shift(idx + 1, n) \in Nat
  BY <1>6, ShiftIs
<1>9. Above(number, n) \in Nat
  BY <1>5, FirstAt
<1> QED  BY <1>7, <1>8, <1>9 DEF Reached

(* A leaf or node that is made next has an address of its own. *)
LEMMA NewAddress ==
    ASSUME TreesInv, Building, number' = number, NEW top \in 0 .. TreeHeight,
           addresses' = Append(addresses, <<top, Reached(top) + Above(number, top)>>),
           Reached(top)' = Reached(top) + 1,
           \A n \in 0 .. TreeHeight : n # top => Reached(n)' = Reached(n)
    PROVE  AddressInv'
<1> DEFINE end(n) == Reached(n) + Above(number, n)
           address == <<top, end(top)>>
<1>1. \A n \in 0 .. TreeHeight : Reached(n) \in Nat /\ Above(number, n) \in Nat
  BY ReachedIs
<1>2. /\ \A a, b \in DOMAIN addresses : addresses[a] = addresses[b] => a = b
      /\ \A a \in DOMAIN addresses : Counted(addresses[a])
      /\ addresses \in Seq(Nat \X Nat)
  BY DEF TreesInv, AddressInv
<1>3. PICK m : m = Len(addresses)
  OBVIOUS
<1>4. m \in Nat /\ DOMAIN addresses = 1 .. m
  BY <1>2, <1>3
<1>5. address \in Nat \X Nat
  <2>1. TreeHeight \in Nat
    BY TreePowers
  <2> QED  BY <1>1, <2>1
<1>6. /\ addresses' \in Seq(Nat \X Nat) /\ DOMAIN addresses' = 1 .. m + 1
      /\ addresses'[m + 1] = address /\ \A a \in 1 .. m : addresses'[a] = addresses[a]
  <2> HIDE DEF address
  <2>1. addresses' = Append(addresses, address)
    BY DEF address
  <2> QED  BY <1>2, <1>3, <1>4, <1>5, <2>1
<1>7. ASSUME NEW a \in 1 .. m
      PROVE  \E n \in 0 .. TreeHeight : \E y \in 0 .. end(n) - 1 : addresses[a] = <<n, y>>
  BY <1>2, <1>4 DEF Counted
<1>8. ASSUME NEW a \in 1 .. m PROVE addresses'[a] # address
  <2>1. PICK n \in 0 .. TreeHeight : \E y \in 0 .. end(n) - 1 : addresses[a] = <<n, y>>
    BY <1>7
  <2>2. PICK y \in 0 .. end(n) - 1 : addresses[a] = <<n, y>>
    BY <2>1
  <2>3. ASSUME addresses[a] = address PROVE FALSE
    <3>1. n = top /\ y = end(top)
      BY <2>2, <2>3
    <3>2. end(top) \in Nat
      BY <1>1
    <3> HIDE DEF end
    <3> QED  BY <3>1, <3>2
  <2> QED  BY <1>6, <2>3
<1>9. ASSUME NEW a \in 1 .. m + 1, NEW b \in 1 .. m + 1, addresses'[a] = addresses'[b] PROVE a = b
  <2>1. (a \in 1 .. m \/ a = m + 1) /\ (b \in 1 .. m \/ b = m + 1)
    BY <1>4
  <2>2. CASE a = m + 1
    BY <1>6, <1>8, <1>9, <2>1, <2>2
  <2>3. CASE b = m + 1
    BY <1>6, <1>8, <1>9, <2>1, <2>3
  <2>4. CASE a \in 1 .. m /\ b \in 1 .. m
    BY <1>2, <1>4, <1>6, <1>9, <2>4
  <2> QED  BY <2>1, <2>2, <2>3, <2>4
<1>10. ASSUME NEW n \in 0 .. TreeHeight PROVE Above(number, n)' = Above(number, n)
  BY DEF Above
<1>11. ASSUME NEW a \in 1 .. m + 1 PROVE Counted(addresses[a])'
  <2>1. CASE a \in 1 .. m
    <3>1. PICK n \in 0 .. TreeHeight : \E y \in 0 .. end(n) - 1 : addresses[a] = <<n, y>>
      BY <1>7, <2>1
    <3>2. PICK y \in 0 .. end(n) - 1 : addresses[a] = <<n, y>>
      BY <3>1
    <3>3. Reached(n)' >= Reached(n) /\ Reached(n)' \in Nat
      BY <1>1
    <3>4. y \in 0 .. (Reached(n)' + Above(number, n)) - 1
      BY <1>1, <3>3
    <3> QED  BY <1>6, <1>10, <2>1, <3>2, <3>4 DEF Counted
  <2>2. CASE a = m + 1
    <3>1. end(top) \in 0 .. (Reached(top)' + Above(number, top)) - 1
      BY <1>1
    <3> QED  BY <1>6, <1>10, <2>2, <3>1 DEF Counted
  <2> QED  BY <1>4, <2>1, <2>2
<1> QED  BY <1>6, <1>9, <1>11 DEF AddressInv

LEMMA GenLeafInv == ASSUME TreesInv, Single!GenLeaf PROVE TreesInv'
<1>1. /\ phase = "leaf" /\ phase' = "climb" /\ height' = 0
      /\ current' = Single!Leaf(idx + number * 2^TreeHeight)
      /\ indices' = indices /\ number' = number /\ idx' = idx /\ stack' = stack /\ paths' = paths
      /\ roots' = roots /\ buffer' = buffer /\ recovered' = recovered
      /\ addresses' = Append(addresses, <<0, idx + number * 2^TreeHeight>>)
  BY DEF Single!GenLeaf, Single!Offset, Single!Address
<1>2. TreeHeight \in Nat /\ 2^0 = 1 /\ 2^TreeHeight \in Nat
  BY TreePowers
<1>3. /\ idx \in Single!Leaves /\ number \in Single!TreeSet
      /\ \A n \in Heights : Single!Shift(idx, n) % 2 = 1 =>
             stack[n] = TreeAt(number)[n][Single!Shift(idx, n) - 1]
  BY <1>1 DEF TreesInv, TypeInv, StackInv, Building
<1>4. TypeInv'
  BY <1>1, <1>2 DEF TreesInv, TypeInv
<1>5. idx \in Nat /\ number \in Nat /\ Single!Shift(idx, 0) = idx
  <2>1. 0 \in 0 .. TreeHeight
    BY <1>2
  <2>2. idx \in Nat
    BY <1>3, <2>1, Within
  <2>3. number \in Nat
    BY <1>3, TreePowers DEF Single!TreeSet
  <2> QED  BY <2>1, <2>2, <2>3, ShiftIs
<1>6. StackInv'
  <2>1. \A n \in Heights : n >= 0
    BY <1>2 DEF Heights
  <2>2. current' = TreeAt(number)[0][idx]
    <3>1. TreeAt(number)[0][idx] = Single!Leaf(number * 2^TreeHeight + idx)
      BY <1>3, TreeIs
    <3>2. number * 2^TreeHeight + idx = idx + number * 2^TreeHeight
      BY <1>2, <1>5
    <3> QED  BY <1>1, <3>1, <3>2
  <2>3. idx + 1 = (idx + 1) * 2^0
    BY <1>2, <1>5
  <2>4. \E c \in Single!Leaves : idx' + 1 = (c + 1) * 2^(height')
    BY <1>1, <1>3, <2>3
  <2>5. current' = TreeAt(number')[height'][Single!Shift(idx', height')]
    BY <1>1, <1>5, <2>2
  <2> QED  BY <1>1, <1>3, <2>4, <2>5 DEF StackInv, TreeAt
<1>7. PathInv'
  <2>1. ASSUME NEW n \in Heights PROVE Passed(n)' = Passed(n)
    BY <1>1, <1>2 DEF Passed, Heights
  <2>2. ASSUME NEW t, NEW n \in Heights PROVE Written(t, n)' = Written(t, n) /\ Neighbour(t, n)' = Neighbour(t, n)
    BY <1>1, <2>1 DEF Written, Neighbour
  <2> QED  BY <1>1, <2>2 DEF TreesInv, PathInv, Building, TreeAt
<1>8. RootsInv' /\ ClimbInv'
  BY <1>1 DEF TreesInv, RootsInv, Finished, Neighbour, ClimbInv, Building
<1>9. AddressInv'
  <2>1. 0 \in 0 .. TreeHeight
    BY <1>2
  <2>2. Reached(0) = idx /\ Reached(0)' = idx + 1
    <3>1. idx + 1 \in Nat
      BY <1>5
    <3>2. Single!Shift(idx + 1, 0) = idx + 1
      BY <2>1, <3>1, ShiftIs
    <3>3. Reached(0) = Single!Shift(idx, 0)
      BY <1>1 DEF Reached
    <3>4. Reached(0)' = Single!Shift(idx + 1, 0)
      BY <1>1 DEF Reached
    <3> QED  BY <1>5, <3>2, <3>3, <3>4
  <2>3. ASSUME NEW n \in 0 .. TreeHeight, n # 0 PROVE Reached(n)' = Reached(n)
    BY <1>1, <1>2, <2>3 DEF Reached
  <2>4. Above(number, 0) = number * 2^TreeHeight
    <3>1. number * 2^TreeHeight \in Nat
      BY <1>2, <1>5
    <3> QED  BY <2>1, <3>1, ShiftIs DEF Above
  <2>5. Building
    BY <1>1 DEF Building
  <2> QED  BY <1>1, <2>1, <2>2, <2>3, <2>4, <2>5, NewAddress
<1> QED  BY <1>4, <1>6, <1>7, <1>8, <1>9 DEF TreesInv

LEMMA PushInv == ASSUME TreesInv, Single!Push PROVE TreesInv'
<1>1. /\ phase = "climb" /\ phase' = "leaf" /\ height < TreeHeight /\ height' = height
      /\ Single!Shift(idx, height) % 2 = 0 /\ idx < 2^TreeHeight - 1
      /\ paths' = Single!PathAfter /\ stack' = [stack EXCEPT ![height] = current] /\ idx' = idx + 1
      /\ indices' = indices /\ number' = number /\ current' = current
      /\ roots' = roots /\ buffer' = buffer /\ recovered' = recovered /\ addresses' = addresses
  BY DEF Single!Push, Single!IsLeft
<1>2. PICK c \in Nat : /\ EndsAt(idx, c, height) /\ Single!Shift(idx, height) = c
                       /\ Single!Shift(idx + 1, height) = c + 1
                       /\ current = TreeAt(number)[height][c]
                       /\ idx \in Single!Leaves /\ idx \in Nat /\ height \in 0 .. TreeHeight
                       /\ number \in Single!TreeSet
  BY <1>1, Climbing
<1>3. TreeHeight \in Nat /\ 2^TreeHeight \in Nat
  BY TreePowers
<1>4. PICK k : k = height
  OBVIOUS
<1>5. k \in Heights /\ k \in 0 .. TreeHeight - 1 /\ k \in 0 .. TreeHeight
  BY <1>1, <1>2, <1>3, <1>4 DEF Heights
<1>6. /\ \A n \in 0 .. k - 1 : Single!Shift(idx + 1, n) % 2 = 0
      /\ \A n \in k + 1 .. TreeHeight : Single!Shift(idx + 1, n) = Single!Shift(idx, n)
  <2>1. PICK x : x = idx
    OBVIOUS
  <2>2. EndsAt(x, c, k) /\ c % 2 = 0
    BY <1>1, <1>2, <1>4, <2>1
  <2>3. \A n \in 0 .. k - 1 : Single!Shift(x + 1, n) % 2 = 0
    BY <1>5, <2>2, Below
  <2>4. \A n \in k + 1 .. TreeHeight : Single!Shift(x + 1, n) = Single!Shift(x, n)
    BY <1>5, <2>2, Even
  <2> QED  BY <2>1, <2>3, <2>4
<1>7. PathInv' /\ DOMAIN paths' = Single!TreeSet
      /\ (\A t \in Single!TreeSet : IsPath(paths'[t]))
      /\ (\A t \in Single!TreeSet : t # number => paths'[t] = paths[t])
  <2>1. Building'
    BY <1>1 DEF Building
  <2>2. Passed(k)' = Single!Shift(idx, k) + 1
    BY <1>1, <1>2, <1>4 DEF Passed
  <2>3. ASSUME NEW n \in Heights, n # k PROVE Passed(n)' = Passed(n)
    <3>1. Passed(n)' = Single!Shift(idx + 1, n)
      BY <1>1 DEF Passed
    <3>2. CASE n < k
      BY <1>1, <1>4, <3>1, <3>2 DEF Passed
    <3>3. CASE ~(n < k)
      <4>1. n \in k + 1 .. TreeHeight
        BY <1>3, <1>5, <2>3, <3>3 DEF Heights
      <4> QED  BY <1>4, <1>6, <3>1, <3>3, <4>1 DEF Passed
    <3> QED  BY <3>2, <3>3
  <2> QED  BY <1>1, <1>4, <1>5, <2>1, <2>2, <2>3, PathStep
<1>8. TypeInv'
  <2>1. idx' \in Single!Leaves
    BY <1>1, <1>2, <1>3 DEF Single!Leaves
  <2> QED  BY <1>1, <1>7, <2>1 DEF TreesInv, TypeInv
<1>9. StackInv'
  <2>1. ASSUME NEW n \in Heights, Single!Shift(idx + 1, n) % 2 = 1
        PROVE  stack'[n] = TreeAt(number)[n][Single!Shift(idx + 1, n) - 1]
    <3>1. n \in Int /\ k \in Int
      BY <1>5 DEF Heights
    <3>2. CASE n < k
      <4>1. n \in 0 .. k - 1
        BY <3>1, <3>2 DEF Heights
      <4> QED  BY <1>6, <2>1, <4>1
    <3>3. CASE n = k
      <4>1. stack'[n] = current
        BY <1>1, <1>4, <3>3 DEF TreesInv, TypeInv
      <4>2. (c + 1) - 1 = c
        OBVIOUS
      <4> QED  BY <1>2, <1>4, <3>3, <4>1, <4>2
    <3>4. CASE n > k
      <4>1. n \in k + 1 .. TreeHeight /\ n >= height /\ n # height
        BY <1>3, <1>4, <3>1, <3>4 DEF Heights
      <4>2. stack'[n] = stack[n]
        BY <1>1, <4>1 DEF TreesInv, TypeInv
      <4>3. Single!Shift(idx + 1, n) = Single!Shift(idx, n)
        BY <1>6, <4>1
      <4>4. stack[n] = TreeAt(number)[n][Single!Shift(idx, n) - 1]
        BY <1>1, <2>1, <4>1, <4>3 DEF TreesInv, StackInv, Building
      <4> QED  BY <4>2, <4>3, <4>4
    <3> QED  BY <3>1, <3>2, <3>3, <3>4
  <2> QED  BY <1>1, <2>1 DEF StackInv, TreeAt
<1>10. RootsInv'
  <2>1. ASSUME NEW t \in Single!TreeSet, t < number, Finished(t) PROVE Finished(t)'
    <3>1. paths'[t] = paths[t]
      BY <1>7, <2>1 DEF Single!TreeSet
    <3> QED  BY <1>1, <2>1, <3>1 DEF Finished, Neighbour, TreeAt
  <2> QED  BY <1>1, <2>1 DEF TreesInv, RootsInv, Building
<1>11. ClimbInv'
  BY <1>1 DEF ClimbInv
<1>12. AddressInv'
  <2>1. ASSUME NEW n \in 0 .. TreeHeight PROVE Reached(n)' = Reached(n)
    <3>1. Reached(n)' = Single!Shift(idx + 1, n)
      BY <1>1 DEF Reached
    <3>2. CASE n <= k
      BY <1>1, <1>4, <3>1, <3>2 DEF Reached
    <3>3. CASE ~(n <= k)
      <4>1. n \in k + 1 .. TreeHeight
        BY <1>3, <1>5, <3>3
      <4> QED  BY <1>4, <1>6, <3>1, <3>3, <4>1 DEF Reached
    <3> QED  BY <3>2, <3>3
  <2>2. ASSUME NEW a \in DOMAIN addresses, Counted(addresses[a]) PROVE Counted(addresses[a])'
    <3>1. \A n \in 0 .. TreeHeight : Above(number, n)' = Above(number, n)
      BY <1>1 DEF Above
    <3> QED  BY <1>1, <2>1, <2>2, <3>1 DEF Counted
  <2> QED  BY <1>1, <2>2 DEF TreesInv, AddressInv, Building
<1> QED  BY <1>7, <1>8, <1>9, <1>10, <1>11, <1>12 DEF TreesInv

LEMMA CombineInv == ASSUME TreesInv, Single!Combine PROVE TreesInv'
<1>1. /\ phase = "climb" /\ phase' = "climb" /\ height < TreeHeight /\ height' = height + 1
      /\ ~(Single!Shift(idx, height) % 2 = 0 /\ idx < 2^TreeHeight - 1)
      /\ paths' = Single!PathAfter /\ stack' = stack /\ idx' = idx
      /\ LET address == Single!Address(height + 1, Single!Shift(idx, height + 1)
                                                       + Above(number, height + 1))
         IN  /\ current' = Single!Hash(address, stack[height], current)
             /\ addresses' = Append(addresses, address)
      /\ indices' = indices /\ number' = number
      /\ roots' = roots /\ buffer' = buffer /\ recovered' = recovered
  BY DEF Single!Combine, Single!IsLeft, Single!NodeIndex, Single!Offset, Above
<1>2. PICK c \in Nat : /\ EndsAt(idx, c, height) /\ Single!Shift(idx, height) = c
                       /\ Single!Shift(idx + 1, height) = c + 1
                       /\ current = TreeAt(number)[height][c]
                       /\ idx \in Single!Leaves /\ idx \in Nat /\ height \in 0 .. TreeHeight
                       /\ number \in Single!TreeSet /\ number \in Nat
  BY <1>1, Climbing
<1>3. TreeHeight \in Nat /\ 2^TreeHeight \in Nat
  BY TreePowers
<1>4. PICK k, x : k = height /\ x = idx
  OBVIOUS
<1>5. k \in Heights /\ k \in 0 .. TreeHeight - 1 /\ k \in 0 .. TreeHeight
      /\ k + 1 \in 0 .. TreeHeight /\ k + 1 \in 1 .. TreeHeight /\ (k + 1) - 1 = k
  BY <1>1, <1>2, <1>3, <1>4 DEF Heights
<1>6. c % 2 = 1
  <2>1. CASE x >= 2^TreeHeight - 1
    <3>1. EndsAt(x, c, k) /\ x \in Single!Leaves
      BY <1>2, <1>4
    <3> QED  BY <1>5, <2>1, <3>1, LastIsOdd
  <2>2. CASE ~(x >= 2^TreeHeight - 1)
    <3>1. c % 2 # 0
      BY <1>1, <1>2, <1>3, <1>4, <2>2
    <3> QED  BY <3>1
  <2> QED  BY <2>1, <2>2
<1>7. PICK d \in Nat : c = 2 * d + 1 /\ EndsAt(x, d, k + 1) /\ Single!Shift(x, k + 1) = d
  <2>1. EndsAt(x, c, k)
    BY <1>2, <1>4
  <2> QED  BY <1>5, <1>6, <2>1, Odd
<1>8. Single!Shift(x + 1, k + 1) = d + 1
  BY <1>5, <1>7, Ends
<1>9. PICK address : /\ address = Single!Address(k + 1, d + Above(number, k + 1))
                     /\ current' = Single!Hash(address, stack[k], current)
                     /\ addresses' = Append(addresses, address)
  BY <1>1, <1>4, <1>7
<1>10. PathInv' /\ DOMAIN paths' = Single!TreeSet
      /\ (\A t \in Single!TreeSet : IsPath(paths'[t]))
      /\ (\A t \in Single!TreeSet : t # number => paths'[t] = paths[t])
  <2>1. Building'
    BY <1>1 DEF Building
  <2>2. Passed(k)' = Single!Shift(idx, k) + 1
    <3>1. k < height'
      BY <1>1, <1>4, <1>5
    <3> QED  BY <1>1, <1>2, <1>4, <3>1 DEF Passed
  <2>3. ASSUME NEW n \in Heights, n # k PROVE Passed(n)' = Passed(n)
    <3>1. n < height' <=> n < height
      BY <1>1, <1>4, <1>5, <2>3 DEF Heights
    <3> QED  BY <1>1, <3>1 DEF Passed
  <2> QED  BY <1>1, <1>4, <1>5, <2>1, <2>2, <2>3, PathStep
<1>11. TypeInv'
  BY <1>1, <1>4, <1>5, <1>10 DEF TreesInv, TypeInv
<1>12. current' = TreeAt(number)[k + 1][d]
  <2>1. d \in 0 .. 2^(TreeHeight - (k + 1)) - 1
    <3>1. x \in Single!Leaves
      BY <1>2, <1>4
    <3> QED  BY <1>5, <1>7, <3>1, Within
  <2>2. TreeAt(number)[k + 1][d] = Single!Hash(Single!Address(k + 1, d + Above(number, k + 1)),
                                               TreeAt(number)[k][2 * d], TreeAt(number)[k][2 * d + 1])
    BY <1>5, <2>1, TreeIs
  <2>3. stack[k] = TreeAt(number)[k][c - 1]
    <3>1. height >= height /\ Single!Shift(idx, k) % 2 = 1 /\ Single!Shift(idx, k) = c
      BY <1>2, <1>4, <1>5, <1>6
    <3> QED  BY <1>1, <1>4, <1>5, <3>1 DEF TreesInv, StackInv, Building
  <2>4. c - 1 = 2 * d /\ c = 2 * d + 1
    BY <1>7
  <2> QED  BY <1>2, <1>4, <1>9, <2>2, <2>3, <2>4
<1>13. StackInv'
  <2>1. ASSUME NEW n \in Heights, n >= k + 1, Single!Shift(idx, n) % 2 = 1
        PROVE  stack[n] = TreeAt(number)[n][Single!Shift(idx, n) - 1]
    <3>1. n >= height
      BY <1>4, <1>5, <2>1 DEF Heights
    <3> QED  BY <1>1, <2>1, <3>1 DEF TreesInv, StackInv, Building
  <2>2. \E e \in Single!Leaves : idx' + 1 = (e + 1) * 2^(height')
    <3>1. idx' + 1 = (d + 1) * 2^(height')
      BY <1>1, <1>4, <1>7 DEF EndsAt
    <3>2. d \in Single!Leaves
      <4>1. 2 * d + 1 \in 0 .. 2^TreeHeight - 1
        <5>1. PICK e \in Single!Leaves : idx + 1 = (e + 1) * 2^height
          BY <1>1 DEF TreesInv, StackInv, Building
        <5>2. e \in Nat
          BY <1>3, <5>1 DEF Single!Leaves
        <5>3. EndsAt(x, e, k)
          BY <1>2, <1>4, <5>1, <5>2 DEF EndsAt
        <5>4. Single!Shift(x, k) = e
          BY <1>5, <5>3, Ends
        <5>5. e = c
          BY <1>2, <1>4, <5>4
        <5> QED  BY <1>7, <5>1, <5>5 DEF Single!Leaves
      <4> QED  BY <1>3, <4>1 DEF Single!Leaves
    <3> QED  BY <3>1, <3>2
  <2>3. current' = TreeAt(number')[height'][Single!Shift(idx', height')]
    BY <1>1, <1>4, <1>7, <1>12
  <2> QED  BY <1>1, <1>4, <2>1, <2>2, <2>3 DEF StackInv, TreeAt
<1>14. RootsInv'
  <2>1. ASSUME NEW t \in Single!TreeSet, t < number, Finished(t) PROVE Finished(t)'
    <3>1. paths'[t] = paths[t]
      BY <1>10, <2>1 DEF Single!TreeSet
    <3> QED  BY <1>1, <2>1, <3>1 DEF Finished, Neighbour, TreeAt
  <2> QED  BY <1>1, <2>1 DEF TreesInv, RootsInv, Building
<1>15. ClimbInv'
  BY <1>1 DEF ClimbInv
<1>16. AddressInv'
  <2>1. Reached(k + 1) = d /\ Reached(k + 1)' = d + 1
    <3>1. k + 1 <= height' /\ ~(k + 1 <= height)
      BY <1>1, <1>4, <1>5
    <3> QED  BY <1>1, <1>4, <1>7, <1>8, <3>1 DEF Reached
  <2>2. ASSUME NEW n \in 0 .. TreeHeight, n # k + 1 PROVE Reached(n)' = Reached(n)
    <3>1. n <= height' <=> n <= height
      BY <1>1, <1>4, <1>5, <2>2
    <3> QED  BY <1>1, <3>1 DEF Reached
  <2>3. addresses' = Append(addresses, <<k + 1, Reached(k + 1) + Above(number, k + 1)>>)
    BY <1>9, <2>1 DEF Single!Address
  <2>4. Building
    BY <1>1 DEF Building
  <2> QED  BY <1>1, <1>5, <2>1, <2>2, <2>3, <2>4, NewAddress
<1> QED  BY <1>10, <1>11, <1>13, <1>14, <1>15, <1>16 DEF TreesInv

(* At the top of a tree every node has been compared. *)
LEMMA AtTop ==
    ASSUME TreesInv, phase = "climb", height = TreeHeight
    PROVE  /\ current = TreeAt(number)[TreeHeight][0] /\ number \in Single!TreeSet
           /\ \A n \in 0 .. TreeHeight : Single!Shift(idx + 1, n) = 2^(TreeHeight - n)
           /\ \A n \in Heights : paths[number][n] = IF indices[number] = NoLeaf THEN None
                                                    ELSE TreeAt(number)[n][Neighbour(number, n)]
<1>1. PICK c \in Nat : /\ EndsAt(idx, c, TreeHeight) /\ c \in 0 .. 2^(TreeHeight - TreeHeight) - 1
                       /\ current = TreeAt(number)[TreeHeight][c] /\ number \in Single!TreeSet
  BY Climbing
<1>2. TreeHeight \in Nat /\ TreeHeight - TreeHeight = 0 /\ 2^0 = 1 /\ 2^TreeHeight \in Nat
  BY TreePowers
<1>3. c = 0
  <2>1. c \in 0 .. 1 - 1
    BY <1>1, <1>2
  <2> QED  BY <2>1
<1>4. idx + 1 = 1 * 2^TreeHeight
  BY <1>1, <1>2, <1>3 DEF EndsAt
<1>5. ASSUME NEW n \in 0 .. TreeHeight PROVE Single!Shift(idx + 1, n) = 2^(TreeHeight - n)
  <2>1. Above(1, n) = 1 * 2^(TreeHeight - n) /\ 2^(TreeHeight - n) \in Nat
    BY FirstAt, TreePowers
  <2> DEFINE K == 2^(TreeHeight - n)
  <2>2. Single!Shift(idx + 1, n) = 1 * K /\ K \in Nat
    BY <1>4, <2>1 DEF Above
  <2> HIDE DEF K
  <2>3. Single!Shift(idx + 1, n) = K
    BY <2>2
  <2> QED  BY <2>3 DEF K
<1>6. ASSUME NEW n \in Heights
      PROVE  paths[number][n] = IF indices[number] = NoLeaf THEN None
                                ELSE TreeAt(number)[n][Neighbour(number, n)]
  <2>1. paths[number][n] = IF indices[number] # NoLeaf /\ Written(number, n)
                           THEN TreeAt(number)[n][Neighbour(number, n)] ELSE None
    BY <1>1 DEF TreesInv, PathInv, Building
  <2>2. ASSUME indices[number] # NoLeaf PROVE Written(number, n)
    <3>1. n \in 0 .. TreeHeight - 1 /\ n \in 0 .. TreeHeight /\ n < TreeHeight
      BY <1>2 DEF Heights
    <3>2. Passed(n) = 2^(TreeHeight - n) /\ 2^(TreeHeight - n) \in Nat
      BY <1>5, <3>1, TreePowers DEF Passed
    <3>3. indices[number] \in Single!Leaves
      BY <1>1, <2>2 DEF TreesInv, TypeInv
    <3>4. Neighbour(number, n) \in 0 .. 2^(TreeHeight - n) - 1
      BY <3>1, <3>3, NeighbourWithin DEF Neighbour
    <3> DEFINE K == 2^(TreeHeight - n)
    <3>5. K \in Nat /\ Neighbour(number, n) \in 0 .. K - 1 /\ Passed(n) = K
      BY <3>2, <3>4
    <3> HIDE DEF K
    <3>6. Neighbour(number, n) < Passed(n)
      BY <3>5
    <3> QED  BY <3>6 DEF Written
  <2> QED  BY <2>1, <2>2
<1> QED  BY <1>1, <1>3, <1>5, <1>6

LEMMA ZeroShift == ASSUME NEW n, n \in 0 .. TreeHeight PROVE Single!Shift(0, n) = 0
<1> DEFINE M == 2^n
<1>1. M \in Nat \ {0}
  BY TreePowers
<1> HIDE DEF M
<1>2. 0 = 0 * M + 0 /\ 0 \in 0 .. M - 1
  BY <1>1
<1>3. 0 \div M = 0
  BY <1>1, <1>2, Quotient
<1> QED  BY <1>3 DEF Single!Shift, M

LEMMA ReachTopInv == ASSUME TreesInv, Single!ReachTop PROVE TreesInv'
<1>1. /\ phase = "climb" /\ height = TreeHeight /\ height' = height
      /\ roots' = [roots EXCEPT ![number] = current] /\ idx' = 0 /\ stack' = Single!NoNodes
      /\ \/ number < Trees - 1 /\ number' = number + 1 /\ phase' = "leaf"
         \/ ~(number < Trees - 1) /\ number' = 0 /\ phase' = "verify"
      /\ indices' = indices /\ current' = current /\ paths' = paths
      /\ buffer' = buffer /\ recovered' = recovered /\ addresses' = addresses
  BY DEF Single!ReachTop
<1>2. /\ current = TreeAt(number)[TreeHeight][0] /\ number \in Single!TreeSet
      /\ \A n \in 0 .. TreeHeight : Single!Shift(idx + 1, n) = 2^(TreeHeight - n)
      /\ \A n \in Heights : paths[number][n] = IF indices[number] = NoLeaf THEN None
                                               ELSE TreeAt(number)[n][Neighbour(number, n)]
  BY <1>1, AtTop
<1>3. TreeHeight \in Nat \ {0} /\ Trees \in Nat \ {0} /\ 2^TreeHeight \in Nat \ {0}
  BY TreePowers
<1>4. number \in 0 .. Trees - 1 /\ number' \in 0 .. Trees - 1
  BY <1>1, <1>2, <1>3 DEF Single!TreeSet
<1>5. TypeInv'
  <2>1. 0 \in Single!Leaves
    BY <1>3 DEF Single!Leaves
  <2>2. number' \in Single!TreeSet
    BY <1>4 DEF Single!TreeSet
  <2>3. DOMAIN stack' = Heights
    BY <1>1 DEF Single!NoNodes, Heights
  <2> QED  BY <1>1, <2>1, <2>2, <2>3 DEF TreesInv, TypeInv
<1>6. StackInv'
  <2>1. ASSUME NEW n \in Heights PROVE Single!Shift(idx', n) % 2 # 1
    <3>1. n \in 0 .. TreeHeight
      BY <1>3 DEF Heights
    <3>2. Single!Shift(0, n) = 0
      BY <3>1, ZeroShift
    <3> QED  BY <1>1, <3>2
  <2> QED  BY <1>1, <2>1 DEF StackInv
<1>7. ASSUME NEW t \in Single!TreeSet PROVE Finished(t)' <=>
          /\ roots'[t] = TreeAt(t)[TreeHeight][0]
          /\ \A n \in Heights : paths[t][n] = IF indices[t] = NoLeaf THEN None
                                              ELSE TreeAt(t)[n][Neighbour(t, n)]
  BY <1>1 DEF Finished, Neighbour, TreeAt, Single!Root
<1>8. roots'[number] = current /\ \A t \in Single!TreeSet : t # number => roots'[t] = roots[t]
  BY <1>1, <1>2 DEF TreesInv, TypeInv
<1>9. PICK s \in Single!TreeSet : s = number
  BY <1>2
<1>10. Finished(s)'
  BY <1>2, <1>7, <1>8, <1>9
<1>11. ASSUME NEW t \in Single!TreeSet, t # s, Finished(t) PROVE Finished(t)'
  <2>1. roots'[t] = roots[t]
    BY <1>8, <1>9, <1>11
  <2> QED  BY <1>7, <1>11, <2>1 DEF Finished, TreeAt, Single!Root
<1>12. \A t \in Single!TreeSet : t \in Int
  BY <1>3 DEF Single!TreeSet
<1>13. RootsInv'
  <2>1. ASSUME NEW t \in Single!TreeSet
        PROVE  /\ roots'[t] # None => Finished(t)' /\ (Building' => t < number')
               /\ Building' /\ t < number' => Finished(t)'
               /\ phase' \in {"verify", "root"} => Finished(t)'
               /\ recovered'[t] # None => phase' \in {"verify", "root", "done"}
                                           /\ recovered'[t] = roots'[t]
    <3>1. /\ roots[t] # None => Finished(t) /\ t < number
          /\ t < number => Finished(t)
          /\ recovered[t] = None
      BY <1>1 DEF TreesInv, RootsInv, Building
    <3>2. Building' => number' = s + 1
      BY <1>1, <1>9 DEF Building
    <3>3. CASE t = s
      <4>1. Building' => t < number'
        BY <1>12, <3>2, <3>3
      <4> QED  BY <1>1, <1>10, <3>1, <3>3, <4>1
    <3>4. CASE t # s
      <4>1. roots'[t] # None => Finished(t)' /\ t < s
        BY <1>8, <1>9, <1>11, <3>1, <3>4
      <4>2. t < s => Finished(t)'
        BY <1>9, <1>11, <3>1, <3>4
      <4>3. Building' => (t < number' <=> t < s)
        BY <1>12, <3>2, <3>4
      <4>4. phase' \in {"verify", "root"} => t < s
        BY <1>1, <1>3, <1>4, <1>9, <3>4 DEF Single!TreeSet
      <4> QED  BY <1>1, <3>1, <4>1, <4>2, <4>3, <4>4
    <3> QED  BY <3>3, <3>4
  <2> QED  BY <2>1 DEF RootsInv
<1>14. ASSUME NEW n \in 0 .. TreeHeight, Building'
       PROVE  Passed(n)' = 0 /\ Reached(n)' = 0
  <2>1. idx' = 0 /\ phase' = "leaf"
    BY <1>1, <1>14 DEF Building
  <2> QED  BY <2>1, ZeroShift DEF Passed, Reached
<1>15. PathInv'
  <2>1. ASSUME NEW t \in Single!TreeSet, NEW n \in Heights, Building'
        PROVE  paths'[t][n] = IF indices'[t] # NoLeaf /\ Written(t, n)'
                              THEN TreeAt(t)[n][Neighbour(t, n)'] ELSE None
    <3>1. Neighbour(t, n)' = Neighbour(t, n) /\ paths'[t] = paths[t] /\ indices' = indices
      BY <1>1 DEF Neighbour
    <3>2. n \in 0 .. TreeHeight - 1 /\ n \in 0 .. TreeHeight
      BY <1>3 DEF Heights
    <3>3. number' = s + 1 /\ Passed(n)' = 0
      BY <1>1, <1>9, <1>14, <2>1, <3>2 DEF Building
    <3>4. paths[t][n] = IF indices[t] # NoLeaf /\ Written(t, n)
                        THEN TreeAt(t)[n][Neighbour(t, n)] ELSE None
      BY <1>1 DEF TreesInv, PathInv, Building
    <3>5. CASE indices[t] = NoLeaf
      BY <3>1, <3>4, <3>5
    <3>6. CASE indices[t] # NoLeaf
      <4>1. indices[t] \in Single!Leaves
        BY <3>6 DEF TreesInv, TypeInv
      <4>2. Neighbour(t, n) \in 0 .. 2^(TreeHeight - n) - 1
        BY <3>2, <4>1, NeighbourWithin DEF Neighbour
      <4>3. ~(Neighbour(t, n) < 0)
        BY <4>2
      <4>4. Written(t, n)' <=> (t < s \/ t = s)
        <5>1. Written(t, n)' <=> (t < s + 1 \/ (t = s + 1 /\ Neighbour(t, n) < 0))
          BY <3>1, <3>3 DEF Written
        <5> QED  BY <1>12, <4>3, <5>1
      <4>5. CASE t = s
        BY <1>2, <1>9, <3>1, <3>6, <4>4, <4>5
      <4>6. CASE t # s
        <5>1. Written(t, n) <=> t < s
          BY <1>9, <4>6 DEF Written
        <5> QED  BY <3>1, <3>4, <3>6, <4>4, <4>6, <5>1
      <4> QED  BY <4>5, <4>6
    <3> QED  BY <3>5, <3>6
  <2> QED  BY <2>1 DEF PathInv, TreeAt
<1>16. ClimbInv'
  BY <1>1 DEF ClimbInv
<1>17. AddressInv'
  <2>1. ASSUME NEW a \in DOMAIN addresses, Building', Counted(addresses[a]) PROVE Counted(addresses[a])'
    <3>1. PICK n \in 0 .. TreeHeight : \E x \in 0 .. (Reached(n) + Above(number, n)) - 1 :
                                            addresses[a] = <<n, x>>
      BY <2>1 DEF Counted
    <3>2. PICK x \in 0 .. (Reached(n) + Above(number, n)) - 1 : addresses[a] = <<n, x>>
      BY <3>1
    <3>3. n \in 0 .. TreeHeight /\ n <= TreeHeight
      BY <1>3
    <3>4. Reached(n) = 2^(TreeHeight - n)
      BY <1>1, <1>2, <3>3 DEF Reached
    <3>5. number' = s + 1 /\ Reached(n)' = 0
      BY <1>1, <1>9, <1>14, <2>1, <3>3 DEF Building
    <3>6. Above(s + 1, n) = Above(s, n) + 2^(TreeHeight - n) /\ Above(s, n) \in Nat
      <4>1. s \in Nat
        BY <1>3 DEF Single!TreeSet
      <4> QED  BY <3>3, <4>1, FirstAt
    <3>7. 2^(TreeHeight - n) \in Nat
      BY <3>3, TreePowers
    <3> DEFINE K == 2^(TreeHeight - n)
    <3>8. x \in 0 .. (K + Above(s, n)) - 1 /\ Above(s + 1, n) = Above(s, n) + K /\ K \in Nat
          /\ Above(s, n) \in Nat
      BY <1>9, <3>4, <3>6, <3>7
    <3> HIDE DEF K
    <3>9. x \in 0 .. (0 + Above(s + 1, n)) - 1
      BY <3>8
    <3>10. Above(number, n)' = Above(s + 1, n)
      BY <3>5 DEF Above
    <3> QED  BY <1>1, <3>2, <3>5, <3>9, <3>10 DEF Counted
  <2>2. \A a \in DOMAIN addresses : Counted(addresses[a])
    BY <1>1 DEF TreesInv, AddressInv, Building
  <2>3. /\ addresses \in Seq(Nat \X Nat)
        /\ \A a, b \in DOMAIN addresses : addresses[a] = addresses[b] => a = b
    BY DEF TreesInv, AddressInv
  <2> QED  BY <1>1, <2>1, <2>2, <2>3 DEF AddressInv
<1> QED  BY <1>5, <1>6, <1>13, <1>15, <1>16, <1>17 DEF TreesInv

(* The verifier writes nothing but its pair, its place and its roots. *)
VerifierStep ==
    /\ phase \in {"verify", "root"} /\ phase' \in {"verify", "root", "done"}
    /\ indices' = indices /\ idx' = idx /\ stack' = stack /\ paths' = paths /\ roots' = roots
    /\ addresses' = addresses /\ Len(buffer)' = 2

LEMMA VerifierKeeps ==
    ASSUME TreesInv, VerifierStep, number' \in Single!TreeSet, height' \in 0 .. TreeHeight,
           phase' = "root" => height' < TreeHeight,
           DOMAIN recovered' = Single!TreeSet,
           \A t \in Single!TreeSet : recovered'[t] = recovered[t] \/ recovered'[t] = roots[t],
           ClimbInv'
    PROVE  TreesInv'
<1>1. TypeInv'
  BY DEF TreesInv, TypeInv, VerifierStep
<1>2. StackInv' /\ PathInv'
  BY DEF StackInv, PathInv, Building, VerifierStep
<1>3. AddressInv'
  BY DEF TreesInv, AddressInv, Building, VerifierStep
<1>4. RootsInv'
  <2>1. ASSUME NEW t \in Single!TreeSet PROVE Finished(t)' = Finished(t)
    BY DEF VerifierStep, Finished, TreeAt, Neighbour
  <2>2. ~Building /\ ~Building'
    BY DEF Building, VerifierStep
  <2> QED  BY <2>1, <2>2 DEF TreesInv, RootsInv, VerifierStep
<1> QED  BY <1>1, <1>2, <1>3, <1>4 DEF TreesInv

(* One height up: the pair of the verifier gives the parent. *)
LEMMA ParentIs ==
    ASSUME TreesInv, phase = "root"
    PROVE  /\ Single!ParentOf(height + 1)
                  = TreeAt(number)[height + 1][Single!Shift(indices[number], height + 1)]
           /\ height + 1 \in 1 .. TreeHeight /\ indices[number] \in Single!Leaves
           /\ number \in Single!TreeSet /\ Finished(number)
<1>1. /\ number \in Single!TreeSet /\ height \in 0 .. TreeHeight - 1
      /\ indices[number] # NoLeaf /\ indices[number] \in Single!Leaves /\ Finished(number)
      /\ buffer = Single!Beside(TreeAt(number)[height][Single!Shift(indices[number], height)],
                                Single!Shift(indices[number], height), paths[number][height])
  <2>1. TreeHeight \in Nat
    BY TreePowers
  <2> QED  BY <2>1 DEF TreesInv, TypeInv, RootsInv, ClimbInv
<1>2. PICK i, k, t : i = indices[number] /\ k = height /\ t = number
  OBVIOUS
<1>3. k \in 0 .. TreeHeight - 1 /\ k \in 0 .. TreeHeight /\ k + 1 \in 0 .. TreeHeight
      /\ k + 1 \in 1 .. TreeHeight /\ (k + 1) - 1 = k /\ i \in Single!Leaves
  BY <1>1, <1>2, TreePowers
<1> DEFINE v == TreeAt(t)
           p == Single!Shift(i, k)
           d == Single!Shift(i, k + 1)
<1>4. paths[number][k] = v[k][Single!Sibling(p)]
  BY <1>1, <1>2 DEF Finished, Neighbour, Heights
<1>5. i \in Nat
  BY <1>3, Within
<1>6. p \in Nat /\ d = p \div 2
  BY <1>3, <1>5, ShiftIs
<1>7. d \in 0 .. 2^(TreeHeight - (k + 1)) - 1
  BY <1>3, Within
<1>8. v[k + 1][d] = Single!Hash(Single!Address(k + 1, d + Above(t, k + 1)), v[k][2 * d], v[k][2 * d + 1])
  BY <1>3, <1>7, TreeIs
<1>9. Single!ParentOf(k + 1)
          = Single!Hash(Single!Address(k + 1, d + Above(t, k + 1)), buffer[1], buffer[2])
  BY <1>2 DEF Single!ParentOf, Single!NodeIndex, Single!Offset, Above
<1>10. buffer = IF p % 2 = 1 THEN <<v[k][Single!Sibling(p)], v[k][p]>> ELSE <<v[k][p], v[k][Single!Sibling(p)]>>
  BY <1>1, <1>2, <1>4 DEF Single!Beside
<1> HIDE DEF v, p, d
<1>11. buffer[1] = v[k][2 * d] /\ buffer[2] = v[k][2 * d + 1]
  <2>1. CASE p % 2 = 1
    <3>1. p = 2 * d + 1 /\ Single!Sibling(p) = 2 * d
      BY <1>6, <2>1, SiblingIs
    <3> QED  BY <1>10, <2>1, <3>1
  <2>2. CASE p % 2 = 0
    <3>1. p = 2 * d /\ Single!Sibling(p) = 2 * d + 1
      BY <1>6, <2>2, SiblingIs
    <3> QED  BY <1>10, <2>2, <3>1
  <2> QED  BY <1>6, <2>1, <2>2, SiblingIs
<1> QED  BY <1>1, <1>2, <1>3, <1>8, <1>9, <1>11 DEF v, d

LEMMA StartRootInv == ASSUME TreesInv, Single!StartRoot PROVE TreesInv'
<1>1. /\ phase = "verify" /\ phase' = "root" /\ indices[number] # NoLeaf /\ height' = 0
      /\ buffer' = Single!Beside(Single!Leaf(indices[number] + number * 2^TreeHeight),
                                 indices[number], paths[number][0])
      /\ indices' = indices /\ number' = number /\ idx' = idx /\ stack' = stack /\ paths' = paths
      /\ roots' = roots /\ recovered' = recovered /\ addresses' = addresses
  BY DEF Single!StartRoot, Single!Offset
<1>2. /\ number \in Single!TreeSet /\ indices[number] \in Single!Leaves
      /\ DOMAIN recovered = Single!TreeSet
  BY <1>1 DEF TreesInv, TypeInv
<1>3. TreeHeight \in Nat \ {0} /\ 2^TreeHeight \in Nat
  BY TreePowers
<1>4. PICK i, t : i = indices[number] /\ t = number
  OBVIOUS
<1>5. i \in Nat /\ t \in Nat /\ i \in Single!Leaves /\ Single!Shift(i, 0) = i
  <2>1. 0 \in 0 .. TreeHeight
    BY <1>3
  <2>2. i \in Single!Leaves
    BY <1>2, <1>4
  <2>3. i \in Nat
    BY <2>1, <2>2, Within
  <2>4. t \in Nat
    BY <1>2, <1>4, TreePowers DEF Single!TreeSet
  <2> QED  BY <2>1, <2>2, <2>3, <2>4, ShiftIs
<1>6. TreeAt(t)[0][i] = Single!Leaf(i + t * 2^TreeHeight)
  <2>1. TreeAt(t)[0][i] = Single!Leaf(t * 2^TreeHeight + i)
    BY <1>5, TreeIs
  <2>2. t * 2^TreeHeight + i = i + t * 2^TreeHeight
    BY <1>3, <1>5
  <2> QED  BY <2>1, <2>2
<1>7. ClimbInv'
  BY <1>1, <1>4, <1>5, <1>6 DEF ClimbInv, TreeAt
<1>8. Len(buffer') = 2
  BY <1>1 DEF Single!Beside
<1> QED  BY <1>1, <1>2, <1>3, <1>7, <1>8, VerifierKeeps DEF VerifierStep

LEMMA ClimbRootInv == ASSUME TreesInv, Single!ClimbRoot PROVE TreesInv'
<1>1. /\ phase = "root" /\ phase' = phase /\ height < TreeHeight - 1 /\ height' = height + 1
      /\ buffer' = Single!Beside(Single!ParentOf(height + 1),
                                 Single!Shift(indices[number], height + 1), paths[number][height + 1])
      /\ indices' = indices /\ number' = number /\ idx' = idx /\ stack' = stack /\ paths' = paths
      /\ roots' = roots /\ recovered' = recovered /\ addresses' = addresses
  BY DEF Single!ClimbRoot
<1>2. /\ Single!ParentOf(height + 1)
             = TreeAt(number)[height + 1][Single!Shift(indices[number], height + 1)]
      /\ height + 1 \in 1 .. TreeHeight /\ number \in Single!TreeSet
  BY <1>1, ParentIs
<1>3. indices[number] # NoLeaf /\ DOMAIN recovered = Single!TreeSet /\ height \in 0 .. TreeHeight
  BY <1>1 DEF TreesInv, TypeInv, ClimbInv
<1>4. TreeHeight \in Nat
  BY TreePowers
<1>5. height' \in 0 .. TreeHeight /\ height' < TreeHeight
  BY <1>1, <1>3, <1>4
<1>6. ClimbInv'
  <2>1. PICK w : w = Single!ParentOf(height + 1)
    OBVIOUS
  <2>2. buffer' = Single!Beside(w, Single!Shift(indices'[number'], height'), paths'[number'][height'])
    BY <1>1, <2>1
  <2>3. w = TreeAt(number')[height'][Single!Shift(indices'[number'], height')]
    BY <1>1, <1>2, <2>1
  <2> QED  BY <1>1, <1>3, <2>2, <2>3 DEF ClimbInv, TreeAt
<1>7. Len(buffer') = 2
  BY <1>1 DEF Single!Beside
<1> QED  BY <1>1, <1>2, <1>3, <1>5, <1>6, <1>7, VerifierKeeps DEF VerifierStep

LEMMA NextTreeIs ==
    ASSUME TreesInv, Single!NextTree
    PROVE  number' \in Single!TreeSet /\ phase' \in {"verify", "done"}
<1>1. /\ Trees \in Nat \ {0} /\ number \in 0 .. Trees - 1
  BY TreePowers DEF TreesInv, TypeInv, Single!TreeSet
<1> QED  BY <1>1 DEF Single!NextTree, Single!TreeSet

LEMMA FinishRootInv == ASSUME TreesInv, Single!FinishRoot PROVE TreesInv'
<1>1. /\ phase = "root" /\ height = TreeHeight - 1 /\ Single!NextTree
      /\ recovered' = [recovered EXCEPT ![number] = Single!ParentOf(TreeHeight)]
      /\ indices' = indices /\ idx' = idx /\ height' = height /\ stack' = stack /\ paths' = paths
      /\ roots' = roots /\ buffer' = buffer /\ addresses' = addresses
  BY DEF Single!FinishRoot
<1>2. /\ Single!ParentOf(height + 1)
             = TreeAt(number)[height + 1][Single!Shift(indices[number], height + 1)]
      /\ indices[number] \in Single!Leaves /\ number \in Single!TreeSet /\ Finished(number)
  BY <1>1, ParentIs
<1>3. TreeHeight \in Nat \ {0} /\ height + 1 = TreeHeight /\ TreeHeight - TreeHeight = 0 /\ 2^0 = 1
  BY <1>1, TreePowers
<1>4. Single!Shift(indices[number], TreeHeight) = 0
  <2>1. TreeHeight \in 0 .. TreeHeight
    BY <1>3
  <2>2. Single!Shift(indices[number], TreeHeight) \in 0 .. 2^(TreeHeight - TreeHeight) - 1
    BY <1>2, <2>1, Within
  <2>3. Single!Shift(indices[number], TreeHeight) \in 0 .. 1 - 1
    BY <1>3, <2>2
  <2> QED  BY <2>3
<1>5. Single!ParentOf(TreeHeight) = roots[number]
  BY <1>2, <1>3, <1>4 DEF Finished, Single!Root, TreeAt
<1>6. /\ DOMAIN recovered' = Single!TreeSet
      /\ \A t \in Single!TreeSet : recovered'[t] = recovered[t] \/ recovered'[t] = roots[t]
  BY <1>1, <1>2, <1>5 DEF TreesInv, TypeInv
<1>7. number' \in Single!TreeSet /\ phase' \in {"verify", "done"}
  BY <1>1, NextTreeIs
<1>8. ClimbInv' /\ height' \in 0 .. TreeHeight /\ Len(buffer') = 2
  BY <1>1, <1>7 DEF ClimbInv, TreesInv, TypeInv
<1> QED  BY <1>1, <1>6, <1>7, <1>8, VerifierKeeps DEF VerifierStep

LEMMA SkipTreeInv == ASSUME TreesInv, Single!SkipTree PROVE TreesInv'
<1>1. /\ phase = "verify" /\ Single!NextTree
      /\ indices' = indices /\ idx' = idx /\ height' = height /\ stack' = stack /\ paths' = paths
      /\ roots' = roots /\ buffer' = buffer /\ recovered' = recovered /\ addresses' = addresses
  BY DEF Single!SkipTree
<1>2. number' \in Single!TreeSet /\ phase' \in {"verify", "done"}
  BY <1>1, NextTreeIs
<1>3. ClimbInv' /\ height' \in 0 .. TreeHeight /\ Len(buffer') = 2 /\ DOMAIN recovered' = Single!TreeSet
  BY <1>1, <1>2 DEF ClimbInv, TreesInv, TypeInv
<1> QED  BY <1>1, <1>2, <1>3, VerifierKeeps DEF VerifierStep

LEMMA TreesStart ==
    ASSUME Single!Init \/ NoTree
    PROVE  TreesInv
<1>1. TreeHeight \in Nat \ {0} /\ Trees \in Nat \ {0} /\ 2^TreeHeight \in Nat \ {0}
  BY TreePowers
<1>2. /\ indices \in [Single!TreeSet -> Single!Leaves \cup {NoLeaf}]
      /\ phase \in {"leaf", "done"} /\ number = 0 /\ idx = 0 /\ height = 0
      /\ stack = Single!NoNodes /\ buffer = <<None, None>>
      /\ paths = [t \in Single!TreeSet |-> Single!NoNodes]
      /\ roots = [t \in Single!TreeSet |-> None] /\ recovered = [t \in Single!TreeSet |-> None]
      /\ addresses = << >>
  BY DEF Single!Init, NoTree
<1>3. Single!NoNodes = [n \in Heights |-> None]
  BY DEF Single!NoNodes, Heights
<1>4. TypeInv
  <2>1. 0 \in Single!TreeSet /\ 0 \in Single!Leaves
    BY <1>1 DEF Single!TreeSet, Single!Leaves
  <2> QED  BY <1>1, <1>2, <1>3, <2>1 DEF TypeInv
<1>5. ASSUME NEW n \in Heights PROVE Single!Shift(idx, n) = 0
  <2>1. n \in 0 .. TreeHeight
    BY <1>1 DEF Heights
  <2> QED  BY <1>2, <2>1, ZeroShift
<1>6. StackInv
  BY <1>2, <1>5 DEF StackInv
<1>7. PathInv
  <2>1. ASSUME NEW t \in Single!TreeSet, NEW n \in Heights, indices[t] # NoLeaf, Building
        PROVE  ~Written(t, n)
    <3>1. indices[t] \in Single!Leaves
      BY <1>2, <2>1
    <3>2. Neighbour(t, n) \in 0 .. 2^(TreeHeight - n) - 1
      BY <3>1, NeighbourWithin DEF Neighbour, Heights
    <3>3. Passed(n) = 0
      BY <1>2, <1>5, <2>1 DEF Passed, Building
    <3>4. ~(t < number)
      BY <1>2 DEF Single!TreeSet
    <3> QED  BY <3>2, <3>3, <3>4 DEF Written
  <2> QED  BY <1>2, <1>3, <2>1 DEF PathInv
<1>8. RootsInv
  BY <1>2 DEF RootsInv, Building, Single!TreeSet
<1>9. ClimbInv
  BY <1>2 DEF ClimbInv
<1>10. AddressInv
  BY <1>2 DEF AddressInv
<1> QED  BY <1>4, <1>6, <1>7, <1>8, <1>9, <1>10 DEF TreesInv

LEMMA TreesNextInv == ASSUME TreesInv, [Single!Next]_treeVars PROVE TreesInv'
<1>1. CASE Single!GenLeaf
  BY <1>1, GenLeafInv
<1>2. CASE Single!ReachTop
  BY <1>2, ReachTopInv
<1>3. CASE Single!Push
  BY <1>3, PushInv
<1>4. CASE Single!Combine
  BY <1>4, CombineInv
<1>5. CASE Single!StartRoot
  BY <1>5, StartRootInv
<1>6. CASE Single!ClimbRoot
  BY <1>6, ClimbRootInv
<1>7. CASE Single!FinishRoot
  BY <1>7, FinishRootInv
<1>8. CASE Single!SkipTree
  BY <1>8, SkipTreeInv
<1>9. CASE UNCHANGED treeVars
  <2>1. TypeInv' /\ ClimbInv'
    BY <1>9 DEF treeVars, TreesInv, TypeInv, ClimbInv, TreeAt
  <2>2. StackInv'
    BY <1>9 DEF treeVars, TreesInv, StackInv, Building, TreeAt
  <2>3. PathInv'
    BY <1>9 DEF treeVars, TreesInv, PathInv, Building, TreeAt, Written, Neighbour, Passed
  <2>4. RootsInv'
    BY <1>9 DEF treeVars, TreesInv, RootsInv, Finished, Building, TreeAt, Neighbour
  <2>5. AddressInv'
    BY <1>9 DEF treeVars, TreesInv, AddressInv, Building, Counted, Reached, Above
  <2> QED  BY <2>1, <2>2, <2>3, <2>4, <2>5 DEF TreesInv
<1> QED  BY <1>1, <1>2, <1>3, <1>4, <1>5, <1>6, <1>7, <1>8, <1>9 DEF Single!Next

LEMMA TreesInvariant == MCSpec => []TreesInv
<1>1. MCInit => TreesInv
  BY TreesStart DEF MCInit
<1>2. TreesInv /\ [MCNext]_<<walk, vars, treeVars>> => TreesInv'
  <2>1. [MCNext]_<<walk, vars, treeVars>> => [Single!Next]_treeVars
    BY DEF MCNext
  <2> QED  BY <2>1, TreesNextInv
<1> QED  BY <1>1, <1>2, PTL DEF MCSpec

(* The lengths and levels of the invariant are those of the properties. *)
LEMMA TreeIsCorrect == ASSUME TreesInv PROVE Single!TreeCorrect
<1>1. Single!TypeOK
  BY DEF TreesInv, TypeInv, Single!TypeOK, Heights
<1>2. Single!StackHoldsLeft
  <2> SUFFICES ASSUME Building, NEW n \in Heights, phase = "climb" => n >= height,
                      Single!Shift(idx, n) % 2 = 1
               PROVE  stack[n] = Single!Tree(Single!Offset)[n][Single!Shift(idx, n) - 1]
    <3>1. ASSUME phase = "climb", NEW n, n >= height PROVE phase = "climb" => n >= height
      BY <3>1
    <3> QED  BY DEF Single!StackHoldsLeft, Building, Heights
  <2> QED  BY DEF TreesInv, StackInv, TreeAt, Single!Offset
<1>3. ASSUME NEW t \in Single!TreeSet, roots[t] # None
      PROVE  /\ roots[t] = Single!Root(t * 2^TreeHeight)
             /\ paths[t] = IF indices[t] = NoLeaf THEN Single!NoNodes
                           ELSE Single!Path(t * 2^TreeHeight, indices[t])
  <2>1. Finished(t)
    BY <1>3 DEF TreesInv, RootsInv
  <2>2. paths[t] = [n \in Heights |-> paths[t][n]]
    BY <1>3 DEF TreesInv, TypeInv, IsPath
  <2>3. CASE indices[t] = NoLeaf
    <3>1. \A n \in Heights : paths[t][n] = None
      BY <2>1, <2>3 DEF Finished
    <3>2. [n \in Heights |-> paths[t][n]] = [n \in Heights |-> None]
      BY <3>1
    <3> QED  BY <2>1, <2>2, <2>3, <3>2 DEF Finished, Single!NoNodes, Heights
  <2>4. CASE indices[t] # NoLeaf
    <3>1. \A n \in Heights : paths[t][n] = TreeAt(t)[n][Neighbour(t, n)]
      BY <2>1, <2>4 DEF Finished
    <3>2. [n \in Heights |-> paths[t][n]] = [n \in Heights |-> TreeAt(t)[n][Neighbour(t, n)]]
      BY <3>1
    <3>3. paths[t] = Single!Path(t * 2^TreeHeight, indices[t])
      BY <2>2, <3>2 DEF Single!Path, Heights, TreeAt, Neighbour
    <3> QED  BY <2>1, <2>4, <3>3 DEF Finished
  <2> QED  BY <2>3, <2>4
<1> QED  BY <1>1, <1>2, <1>3 DEF Single!TreeCorrect

(* Every tree of treehashx1 has the root and the authentication path of    *)
(* the definition whatever its offset, compute_root climbs back to that    *)
(* root, and through all layers of the hypertree the verifier reaches the  *)
(* public root, although the structures of addresses still hold fields of  *)
(* their last use (utilsx1.c, utils.c, sign.c, merkle.c, wots.c).          *)
THEOREM SignerAndVerifierMeet == MCSpec => []RootsMeet
<1>1. TreesInv => Single!TreeCorrect
  BY TreeIsCorrect
<1>2. TreesInv => Single!RootsRecovered
  BY DEF TreesInv, RootsInv, Single!RootsRecovered
<1>3. IInv => VerifierReachesRoot
  BY RootReached
<1>4. TreesInv /\ IInv => RootsMeet
  BY <1>1, <1>2, <1>3 DEF RootsMeet
<1> QED  BY <1>4, TreesInvariant, HypertreeInv, PTL

(* No two leaves or nodes of a key pair's trees share an address, and no   *)
(* hash of key generation, signing or verification shares its address with *)
(* one of another input (utilsx1.c, wotsx1.c, fors.c).                     *)
THEOREM NoAddressTwice == MCSpec => []AddressesUsedOnce
<1>1. TreesInv => Single!AddressesOnce
  BY DEF TreesInv, AddressInv, Single!AddressesOnce
<1>2. IInv => OneInputPerAddress
  BY OneInput
<1>3. TreesInv /\ IInv => AddressesUsedOnce
  BY <1>1, <1>2 DEF AddressesUsedOnce
<1> QED  BY <1>3, TreesInvariant, HypertreeInv, PTL
=============================================================================
