--------------------------- MODULE RoundingProofs ---------------------------
(***************************************************************************)
(* What the schemes do to coefficients, for every one of them and not only *)
(* those near a boundary.  ML-DSA and Dilithium, both values of GAMMA2:    *)
(* the reductions, the reciprocals of decompose, and the agreement of      *)
(* signer and verifier on w1.  Aigis-sig: its decomposition, and the same  *)
(* agreement.  The KEMs: the rounding of ciphertexts, and the bit that     *)
(* survives it.  All but Aigis-sig: the transforms, and the product of     *)
(* polynomials they are made for.                                          *)
(***************************************************************************)
EXTENDS MCRounding, TLAPS, WellFoundedInduction

-----------------------------------------------------------------------------
(* Q is cited as a fact, so that 0 .. Q - 1 stays symbolic. *)
LEMMA QIs == Q = 8380417
BY DEF Q

(* reduce32, for every int32_t its comment admits: a representative of the *)
(* same residue, within one conditional addition of the standard one.      *)
THEOREM ReduceBound ==
    ASSUME NEW a \in Int, -2147483648 <= a, a <= 2143289343
    PROVE  /\ Reduce32(a) \in Int
           /\ -6283009 <= Reduce32(a) /\ Reduce32(a) <= 6283008
           /\ \E k \in Int : Reduce32(a) = a - k * Q
<1> DEFINE k == (a + 4194304) \div 8388608
<1>1. k \in Int /\ 8388608 * k <= a + 4194304 /\ a + 4194304 < 8388608 * k + 8388608
  BY SMT
<1>2. -256 <= k /\ k <= 255
  BY SMT, <1>1
<1>3. Reduce32(a) = a - k * 8380417
  BY SMT, QIs DEF Reduce32
<1>4. /\ Reduce32(a) \in Int
      /\ -6283009 <= Reduce32(a) /\ Reduce32(a) <= 6283008
  <2> HIDE DEF k
  <2> QED BY SMT, <1>1, <1>2, <1>3
<1> QED BY SMT, <1>1, <1>3, <1>4, QIs

(* freeze gives the standard representative. *)
THEOREM FreezeStandard ==
    ASSUME NEW a \in Int, -2147483648 <= a, a <= 2143289343
    PROVE  Freeze(a) = a % Q
<1>1. PICK k \in Int : Reduce32(a) = a - k * Q
  BY SMT, ReduceBound
<1>2. /\ Reduce32(a) \in Int
      /\ -6283009 <= Reduce32(a) /\ Reduce32(a) <= 6283008
  BY SMT, ReduceBound
<1>3. /\ Freeze(a) \in Int /\ 0 <= Freeze(a) /\ Freeze(a) < Q
      /\ \E j \in Int : Freeze(a) = a - j * Q
  <2>1. CASE Reduce32(a) < 0
    <3>1. Freeze(a) = a - (k - 1) * Q
      BY SMT, <1>1, <2>1, QIs DEF Freeze, CAddQ
    <3> QED BY SMT, <1>1, <1>2, <2>1, <3>1, QIs DEF Freeze, CAddQ
  <2>2. CASE Reduce32(a) >= 0
    BY SMT, <1>1, <1>2, <2>2, QIs DEF Freeze, CAddQ
  <2> QED BY SMT, <1>1, <2>1, <2>2, QIs
<1>4. PICK j \in Int : Freeze(a) = a - j * 8380417
  BY SMT, <1>3, QIs
<1>5. a \div 8380417 = j
  BY SMT, <1>3, <1>4, QIs
<1> QED BY SMT, <1>3, <1>4, <1>5, QIs

-----------------------------------------------------------------------------
LEMMA Gammas == GAMMA2 = 95232 \/ GAMMA2 = 261888
BY SMT, GammaAssumption, QIs

LEMMA CoefficientBounds ==
    ASSUME NEW a \in Coefficients
    PROVE  a \in Int /\ 0 <= a /\ a <= 8380416
<1>1. Q \in Int
  BY SMT, QIs
<1>2. a \in Int /\ 0 <= a /\ a <= Q - 1
  BY SMT, <1>1 DEF Coefficients
<1> QED BY SMT, <1>2, QIs

(* power2round loses nothing and both halves fit the bits they get.        *)
THEOREM Power2RoundExact ==
    ASSUME NEW a \in Coefficients
    PROVE  /\ Power2Round(a).high * 8192 + Power2Round(a).low = a
           /\ Power2Round(a).high \in 0 .. 1023
           /\ Power2Round(a).low \in -4095 .. 4096
           /\ 4096 - Power2Round(a).low \in 0 .. 8191
<1>1. a \in Int /\ 0 <= a /\ a <= 8380416
  BY SMT, CoefficientBounds
<1> QED BY SMT, <1>1 DEF Power2Round

(* The decomposition of rounding.c is that of the standard.                *)
LEMMA Decompose95232 ==
    ASSUME NEW a \in Coefficients, GAMMA2 = 95232
    PROVE  Decompose(a) = ReferenceDecompose(a)
<1>1. a \in Int /\ 0 <= a /\ a <= 8380416
  BY SMT, CoefficientBounds
<1> DEFINE k == (a + 95231) \div 190464
<1>2. k \in 0 .. 44 /\ 190464 * k - 95231 <= a /\ a <= 190464 * k + 95232
  BY SMT, <1>1
<1>3. a - CenteredRemainder(a) = 190464 * k
  BY SMT, <1>1, <1>2 DEF CenteredRemainder, Alpha
<1>4. HighPart(a) = IF k = 44 THEN 0 ELSE k
  BY SMT, <1>1, <1>2, QIs DEF HighPart
<1> QED BY SMT, <1>1, <1>2, <1>3, <1>4, QIs
        DEF Decompose, LowPart, ReferenceDecompose, CenteredRemainder, Alpha

LEMMA Decompose261888 ==
    ASSUME NEW a \in Coefficients, GAMMA2 = 261888
    PROVE  Decompose(a) = ReferenceDecompose(a)
<1>1. a \in Int /\ 0 <= a /\ a <= 8380416
  BY SMT, CoefficientBounds
<1> DEFINE k == (a + 261887) \div 523776
<1>2. k \in 0 .. 16 /\ 523776 * k - 261887 <= a /\ a <= 523776 * k + 261888
  BY SMT, <1>1
<1>3. a - CenteredRemainder(a) = 523776 * k
  BY SMT, <1>1, <1>2 DEF CenteredRemainder, Alpha
<1>4. HighPart(a) = IF k = 16 THEN 0 ELSE k
  BY SMT, <1>1, <1>2, QIs DEF HighPart
<1> QED BY SMT, <1>1, <1>2, <1>3, <1>4, QIs
        DEF Decompose, LowPart, ReferenceDecompose, CenteredRemainder, Alpha

THEOREM DecomposeCorrect ==
    ASSUME NEW a \in Coefficients
    PROVE  Decompose(a) = ReferenceDecompose(a)
BY SMT, Gammas, Decompose95232, Decompose261888

-----------------------------------------------------------------------------
(* The decomposition is unique: high and low parts within their bounds are *)
(* the decomposition of the coefficient they make up, modulo Q.            *)
Valid(k, l) ==
    /\ k \in Int /\ 0 <= k /\ k < HighCount
    /\ l \in Int /\ -GAMMA2 <= l /\ l <= GAMMA2
    /\ l = -GAMMA2 => k = 0

LEMMA Unique95232 ==
    ASSUME NEW k, NEW l, Valid(k, l), GAMMA2 = 95232
    PROVE  ReferenceDecompose((k * Alpha + l) % Q) = [high |-> k, low |-> l]
<1>1. Alpha = 190464 /\ HighCount = 44
  BY SMT, QIs DEF Alpha, HighCount
<1>2. /\ k \in Int /\ 0 <= k /\ k <= 43
      /\ l \in Int /\ -95232 <= l /\ l <= 95232
      /\ l = -95232 => k = 0
  BY SMT, <1>1 DEF Valid
<1> DEFINE a == (190464 * k + l) % 8380417
<1>3. a = IF 190464 * k + l < 0 THEN 190464 * k + l + 8380417 ELSE 190464 * k + l
  BY SMT, <1>2
<1>4. CenteredRemainder(a) = IF 190464 * k + l < 0 THEN l + 1 ELSE l
  BY SMT, <1>1, <1>2, <1>3 DEF CenteredRemainder
<1>5. ReferenceDecompose(a) = [high |-> k, low |-> l]
  <2> HIDE DEF a
  <2>1. CASE 190464 * k + l < 0
    <3>1. a - CenteredRemainder(a) = Q - 1 /\ k = 0
      BY SMT, <1>2, <1>3, <1>4, <2>1, QIs
    <3> QED BY SMT, <1>2, <1>4, <2>1, <3>1 DEF ReferenceDecompose
  <2>2. CASE 190464 * k + l >= 0
    <3>1. a - CenteredRemainder(a) = 190464 * k /\ 190464 * k # Q - 1
      BY SMT, <1>2, <1>3, <1>4, <2>2, QIs
    <3>2. (190464 * k) \div Alpha = k
      BY SMT, <1>1, <1>2
    <3> QED BY SMT, <1>2, <1>4, <2>2, <3>1, <3>2 DEF ReferenceDecompose
  <2> QED BY SMT, <1>2, <2>1, <2>2
<1>6. (k * Alpha + l) % Q = a
  BY SMT, <1>1, <1>2, QIs
<1> QED BY SMT, <1>5, <1>6

LEMMA Unique261888 ==
    ASSUME NEW k, NEW l, Valid(k, l), GAMMA2 = 261888
    PROVE  ReferenceDecompose((k * Alpha + l) % Q) = [high |-> k, low |-> l]
<1>1. Alpha = 523776 /\ HighCount = 16
  BY SMT, QIs DEF Alpha, HighCount
<1>2. /\ k \in Int /\ 0 <= k /\ k <= 15
      /\ l \in Int /\ -261888 <= l /\ l <= 261888
      /\ l = -261888 => k = 0
  BY SMT, <1>1 DEF Valid
<1> DEFINE a == (523776 * k + l) % 8380417
<1>3. a = IF 523776 * k + l < 0 THEN 523776 * k + l + 8380417 ELSE 523776 * k + l
  BY SMT, <1>2
<1>4. CenteredRemainder(a) = IF 523776 * k + l < 0 THEN l + 1 ELSE l
  BY SMT, <1>1, <1>2, <1>3 DEF CenteredRemainder
<1>5. ReferenceDecompose(a) = [high |-> k, low |-> l]
  <2> HIDE DEF a
  <2>1. CASE 523776 * k + l < 0
    <3>1. a - CenteredRemainder(a) = Q - 1 /\ k = 0
      BY SMT, <1>2, <1>3, <1>4, <2>1, QIs
    <3> QED BY SMT, <1>2, <1>4, <2>1, <3>1 DEF ReferenceDecompose
  <2>2. CASE 523776 * k + l >= 0
    <3>1. a - CenteredRemainder(a) = 523776 * k /\ 523776 * k # Q - 1
      BY SMT, <1>2, <1>3, <1>4, <2>2, QIs
    <3>2. (523776 * k) \div Alpha = k
      BY SMT, <1>1, <1>2
    <3> QED BY SMT, <1>2, <1>4, <2>2, <3>1, <3>2 DEF ReferenceDecompose
  <2> QED BY SMT, <1>2, <2>1, <2>2
<1>6. (k * Alpha + l) % Q = a
  BY SMT, <1>1, <1>2, QIs
<1> QED BY SMT, <1>5, <1>6

LEMMA DecompositionUnique ==
    ASSUME NEW k, NEW l, Valid(k, l)
    PROVE  ReferenceDecompose((k * Alpha + l) % Q) = [high |-> k, low |-> l]
BY SMT, Gammas, Unique95232, Unique261888

-----------------------------------------------------------------------------
(* The hint argument.  With low bits x and a correction c, both below      *)
(* GAMMA2 in absolute value, x + c is short of one whole step: the high    *)
(* part is k, or one of its two neighbours, and the hint says which.       *)
LEMMA HintBounds ==
    /\ GAMMA2 \in Int /\ GAMMA2 > 0 /\ Alpha = 2 * GAMMA2
    /\ HighCount \in Int /\ HighCount > 1
    /\ Q = HighCount * Alpha + 1
BY SMT, Gammas, QIs DEF Alpha, HighCount

LEMMA AddQ == \A x, y \in Int : y = Q + x => y % Q = x % Q
BY SMT, QIs

(* No carry: the corrected low bits are themselves valid. *)
LEMMA HintNone ==
    ASSUME NEW k \in Int, 0 <= k, k < HighCount,
           NEW l \in Int, MakeHint(l, k) = 0
    PROVE  /\ ReferenceDecompose((k * Alpha + l) % Q).high = k
           /\ Corrected(ReferenceDecompose((k * Alpha + l) % Q), 0) = k
<1>1. Valid(k, l)
  BY SMT, HintBounds DEF MakeHint, Valid
<1>2. ReferenceDecompose((k * Alpha + l) % Q) = [high |-> k, low |-> l]
  BY SMT, <1>1, DecompositionUnique
<1> QED BY SMT, <1>2 DEF Corrected

LEMMA HintSome ==
    ASSUME NEW k \in Int, 0 <= k, k < HighCount,
           NEW l \in Int, -Alpha < l, l < Alpha, MakeHint(l, k) # 0
    PROVE  /\ ReferenceDecompose((k * Alpha + l) % Q).high # k
           /\ Corrected(ReferenceDecompose((k * Alpha + l) % Q), 1) = k
<1> DEFINE y == k * Alpha + l
<1>1. PICK k1 \in Int, l1 \in Int :
        /\ Valid(k1, l1)
        /\ k1 # k
        /\ y % Q = (k1 * Alpha + l1) % Q
        /\ IF l1 > 0 THEN (k1 + 1) % HighCount = k ELSE (k1 - 1) % HighCount = k
  <2>1. CASE l > GAMMA2 /\ k + 1 < HighCount
    <3>1. Valid(k + 1, l - Alpha) /\ l - Alpha <= 0
      BY SMT, <2>1, HintBounds DEF Valid
    <3>2. (k + 1) * Alpha + (l - Alpha) = y
      BY SMT, HintBounds
    <3>3. k % HighCount = k
      BY SMT, HintBounds
    <3> HIDE DEF y
    <3>4. k + 1 # k /\ (k + 1) - 1 = k
      OBVIOUS
    <3> QED BY ONLY <3>1, <3>2, <3>3, <3>4, k \in Int, l \in Int, HintBounds, SMT
  <2>2. CASE l > GAMMA2 /\ k + 1 = HighCount
    <3>1. Valid(0, l - Alpha - 1) /\ l - Alpha - 1 <= 0 /\ k # 0
      BY SMT, <2>2, HintBounds DEF Valid
    <3>2. y = Q + (0 * Alpha + (l - Alpha - 1))
      BY SMT, <2>2, HintBounds
    <3>3. y % Q = (0 * Alpha + (l - Alpha - 1)) % Q
      <4>1. 0 * Alpha + (l - Alpha - 1) \in Int
        BY SMT, HintBounds
      <4> HIDE DEF y
      <4> QED BY SMT, <3>2, <4>1, AddQ
    <3>4. (0 - 1) % HighCount = k
      BY SMT, <2>2, Gammas, QIs DEF HighCount, Alpha
    <3> HIDE DEF y
    <3> QED BY ONLY <3>1, <3>3, <3>4, k \in Int, l \in Int, HintBounds, SMT
  <2>3. CASE l <= -GAMMA2 /\ k > 0
    <3>1. Valid(k - 1, l + Alpha) /\ l + Alpha > 0
      BY SMT, <2>3, HintBounds DEF Valid
    <3>2. (k - 1) * Alpha + (l + Alpha) = y
      BY SMT, HintBounds
    <3>3. k % HighCount = k
      BY SMT, HintBounds
    <3> HIDE DEF y
    <3>4. k - 1 # k /\ (k - 1) + 1 = k
      OBVIOUS
    <3> QED BY ONLY <3>1, <3>2, <3>3, <3>4, k \in Int, l \in Int, HintBounds, SMT
  <2>4. CASE l < -GAMMA2 /\ k = 0
    <3>1. Valid(HighCount - 1, l + Alpha + 1) /\ l + Alpha + 1 > 0 /\ HighCount - 1 # k
      BY SMT, <2>4, HintBounds DEF Valid
    <3>2. (HighCount - 1) * Alpha + (l + Alpha + 1) = Q + y
      BY SMT, <2>4, HintBounds
    <3>3. y % Q = ((HighCount - 1) * Alpha + (l + Alpha + 1)) % Q
      BY SMT, <3>2, <2>4, QIs, HintBounds
    <3>4. ((HighCount - 1) + 1) % HighCount = k
      BY SMT, <2>4, Gammas, QIs DEF HighCount, Alpha
    <3> HIDE DEF y
    <3> QED BY ONLY <3>1, <3>3, <3>4, k \in Int, l \in Int, HintBounds, SMT
  <2> QED BY SMT, <2>1, <2>2, <2>3, <2>4, HintBounds DEF MakeHint
<1>2. ReferenceDecompose(y % Q) = [high |-> k1, low |-> l1]
  <2> HIDE DEF y
  <2> QED BY SMT, <1>1, DecompositionUnique
<1> HIDE DEF y
<1>3. ReferenceDecompose(y % Q).high # k /\ Corrected(ReferenceDecompose(y % Q), 1) = k
  BY SMT, <1>1, <1>2 DEF Corrected
<1> USE DEF y
<1> QED BY SMT, <1>3

-----------------------------------------------------------------------------
(* The path of a coefficient: PathInv is inductive.                        *)

(* A reference decomposition is valid and makes up its coefficient. *)
LEMMA ReferenceValid ==
    ASSUME NEW a \in Coefficients
    PROVE  LET d == ReferenceDecompose(a)
           IN  /\ Valid(d.high, d.low)
               /\ d = [high |-> d.high, low |-> d.low]
               /\ (d.high * Alpha + d.low) % Q = a
<1>1. a \in Int /\ 0 <= a /\ a <= 8380416
  BY SMT, CoefficientBounds
<1>2. CASE GAMMA2 = 95232
  <2> DEFINE k == (a + 95231) \div 190464
  <2>1. Alpha = 190464 /\ HighCount = 44
    BY SMT, <1>2, QIs DEF Alpha, HighCount
  <2>2. k \in Int /\ 0 <= k /\ k <= 44 /\ 190464 * k - 95231 <= a /\ a <= 190464 * k + 95232
    BY SMT, <1>1
  <2>3. CenteredRemainder(a) = a - 190464 * k
    BY SMT, <1>1, <1>2, <2>1, <2>2 DEF CenteredRemainder
  <2>4. ReferenceDecompose(a) = IF k = 44 THEN [high |-> 0, low |-> a - 8380417]
                                ELSE [high |-> k, low |-> a - 190464 * k]
    BY SMT, <1>1, <2>1, <2>2, <2>3, QIs DEF ReferenceDecompose
  <2> HIDE DEF k
  <2> QED BY SMT, <1>1, <1>2, <2>1, <2>2, <2>4, QIs DEF Valid
<1>3. CASE GAMMA2 = 261888
  <2> DEFINE k == (a + 261887) \div 523776
  <2>1. Alpha = 523776 /\ HighCount = 16
    BY SMT, <1>3, QIs DEF Alpha, HighCount
  <2>2. k \in Int /\ 0 <= k /\ k <= 16 /\ 523776 * k - 261887 <= a /\ a <= 523776 * k + 261888
    BY SMT, <1>1
  <2>3. CenteredRemainder(a) = a - 523776 * k
    BY SMT, <1>1, <1>3, <2>1, <2>2 DEF CenteredRemainder
  <2>4. ReferenceDecompose(a) = IF k = 16 THEN [high |-> 0, low |-> a - 8380417]
                                ELSE [high |-> k, low |-> a - 523776 * k]
    BY SMT, <1>1, <2>1, <2>2, <2>3, QIs DEF ReferenceDecompose
  <2> HIDE DEF k
  <2> QED BY SMT, <1>1, <1>3, <2>1, <2>2, <2>4, QIs DEF Valid
<1> QED BY SMT, <1>2, <1>3, Gammas

(* reduce32 keeps the residue. *)
LEMMA ReduceCongruent ==
    ASSUME NEW a \in Int, -2 * Q < a, a < 2 * Q
    PROVE  Reduce32(a) \in Int /\ \E k \in Int : Reduce32(a) = a - k * Q
<1>1. -2147483648 <= a /\ a <= 2143289343
  BY SMT, QIs
<1> QED BY SMT, <1>1, ReduceBound

LEMMA ShiftQ ==
    ASSUME NEW x \in Int, NEW k \in Int
    PROVE  (x - k * Q) % Q = x % Q
BY SMT, QIs

LEMMA WithinQ == \A a \in Coefficients : a % Q = a
<1> SUFFICES ASSUME NEW a \in Coefficients PROVE a % Q = a
  OBVIOUS
<1>1. a \in Int /\ 0 <= a /\ a <= 8380416
  BY SMT, CoefficientBounds
<1> QED BY SMT, <1>1, QIs

LEMMA CarryMod ==
    ASSUME NEW a \in Int, NEW b \in Int, NEW c \in Int, NEW d \in Int, NEW k \in Int,
           a % Q = b % Q, d = c - k * Q
    PROVE  (a + d) % Q = (b + c) % Q
BY SMT, QIs

LEMMA NormBound ==
    ASSUME NEW a \in Int, NEW b \in Int, ~NormExceeds(a, b)
    PROVE  -b < a /\ a < b
BY SMT DEF NormExceeds

LEMMA PathInit == Init => PathInv
<1> SUFFICES ASSUME Init PROVE PathInv
  OBVIOUS
<1>1. 0 \in 0 .. HighCount - 1 /\ 0 \in -(Q - 1) .. Q - 1
  BY SMT, HintBounds, QIs
<1>2. CASE pc = "decompose" /\ w \in Ws /\ s \in Cs2 /\ t \in Ct0
  <2>1. w \in Coefficients /\ s \in -(Q - 1) .. Q - 1 /\ t \in -(Q - 1) .. Q - 1
    BY SMT, <1>2, InputAssumption
  <2>2. w \in Int
    BY SMT, <2>1, CoefficientBounds
  <2> QED BY SMT, <1>1, <1>2, <2>1, <2>2
          DEF Init, PathInv, TypeOK, KeySteps, ReducedRange, SplitIsLossless
<1>3. CASE pc = "accumulated" /\ w \in Sums /\ s = 0 /\ t = 0
  <2>1. w \in Int /\ -2147483647 - 1 <= w /\ w <= 2143289343
    BY <1>3, SumsAssumption
  <2> QED BY <1>1, <1>3, <2>1
          DEF Init, PathInv, TypeOK, KeySteps, ReducedRange, SplitIsLossless
<1> QED BY <1>2, <1>3 DEF Init

(* The way of a coefficient of t.                                          *)
LEMMA KeyStep == PathInv /\ (ReduceSum \/ MakePositive \/ SplitT) => PathInv'
<1> SUFFICES ASSUME PathInv, ReduceSum \/ MakePositive \/ SplitT PROVE PathInv'
  OBVIOUS
<1>1. TypeOK
  BY DEF PathInv
<1>2. CASE ReduceSum
  <2>1. /\ w \in Int /\ -2147483648 <= w /\ w <= 2143289343
        /\ w' = Reduce32(w) /\ pc' = "reduced" /\ UNCHANGED <<s, t, w1, w0, h, v>>
    BY SMT, <1>1, <1>2 DEF PathInv, TypeOK, ReduceSum
  <2>2. w' \in Int /\ -6283009 <= w' /\ w' <= 6283008
    BY SMT, <2>1, ReduceBound
  <2> QED  BY <1>1, <2>1, <2>2
           DEF PathInv, TypeOK, KeySteps, ReducedRange, SplitIsLossless
<1>3. CASE MakePositive
  <2>1. /\ w \in Int /\ -6283009 <= w /\ w <= 6283008
        /\ w' = CAddQ(w) /\ pc' = "positive" /\ UNCHANGED <<s, t, w1, w0, h, v>>
    BY <1>1, <1>3 DEF PathInv, TypeOK, ReducedRange, MakePositive
  <2>2. w' \in Int /\ 0 <= w' /\ w' <= Q - 1 /\ Q \in Int
    BY SMT, <2>1, QIs DEF CAddQ
  <2>3. w' \in Coefficients
    BY SMT, <2>2 DEF Coefficients
  <2> QED  BY <1>1, <2>1, <2>2, <2>3
           DEF PathInv, TypeOK, KeySteps, ReducedRange, SplitIsLossless
<1>4. CASE SplitT
  <2>1. /\ w \in Coefficients /\ w' = w /\ pc' = "rounded" /\ UNCHANGED <<s, t, h, v>>
        /\ w1' = Power2Round(w).high /\ w0' = Power2Round(w).low
    BY <1>4 DEF PathInv, SplitT
  <2>2. w1' * 8192 + w0' = w /\ w1' \in 0 .. 1023 /\ 4096 - w0' \in 0 .. 8191
    BY SMTT(30), <2>1, Power2RoundExact
  <2>3. w1' \in Int /\ w0' \in Int
    <3>1. w \in Int
      BY <1>1 DEF TypeOK
    <3>2. Power2Round(w).high \in Int /\ Power2Round(w).low \in Int
      BY SMT, <3>1 DEF Power2Round
    <3> QED  BY <2>1, <3>2
  <2> QED  BY <1>1, <2>1, <2>2, <2>3
           DEF PathInv, TypeOK, KeySteps, ReducedRange, SplitIsLossless
<1> QED  BY <1>2, <1>3, <1>4

(* The way of a coefficient of w.                                          *)
LEMMA AttemptStep ==
    PathInv /\ (SplitW \/ SubtractCs2 \/ HintCt0 \/ Reconstruct) => PathInv'
<1> SUFFICES ASSUME PathInv, SplitW \/ SubtractCs2 \/ HintCt0 \/ Reconstruct
             PROVE  PathInv'
  OBVIOUS
<1>1. /\ w \in Coefficients /\ w \in Int /\ s \in Int /\ t \in Int
      /\ -Q < s /\ s < Q /\ -Q < t /\ t < Q
      /\ w1 \in Int /\ 0 <= w1 /\ w1 < HighCount
      /\ w0 \in Int /\ h \in 0 .. 1 /\ v \in Int
      /\ w1 \in 0 .. HighCount - 1
      /\ ReducedRange' /\ SplitIsLossless' /\ pc' \notin {"accumulated", "positive"}
  <2>1. Q \in Int
    BY SMT, QIs
  <2>2. w \in Coefficients /\ w1 \in 0 .. HighCount - 1
    BY DEF PathInv, TypeOK, KeySteps, SplitW, SubtractCs2, HintCt0, Reconstruct
  <2>3. pc' \notin KeySteps
    BY DEF KeySteps, SplitW, SubtractCs2, HintCt0, Reconstruct
  <2> QED BY SMT, <2>1, <2>2, <2>3, HintBounds
          DEF PathInv, TypeOK, KeySteps, ReducedRange, SplitIsLossless
<1>2. CASE SplitW
  <2> DEFINE d == ReferenceDecompose(w)
  <2>1. w1' = d.high /\ w0' = d.low
    BY SMT, <1>1, <1>2, DecomposeCorrect DEF SplitW
  <2>2. Valid(d.high, d.low) /\ d = [high |-> d.high, low |-> d.low]
    BY SMT, <1>1, ReferenceValid
  <2>3. w1' \in 0 .. HighCount - 1 /\ w0' \in Int
    BY SMT, <2>1, <2>2, HintBounds DEF Valid
  <2> HIDE DEF d
  <2>4. pc' = "low" /\ UNCHANGED <<w, s, t, h, v>>
    BY <1>2 DEF SplitW
  <2>5. TypeOK'
    BY <1>1, <2>3, <2>4 DEF PathInv, TypeOK, KeySteps
  <2>6. ReferenceDecompose(w)' = d
    BY <2>4 DEF d, ReferenceDecompose, CenteredRemainder, Alpha
  <2> QED BY SMT, <1>1, <2>1, <2>2, <2>4, <2>5, <2>6 DEF PathInv
<1>3. CASE SubtractCs2
  <2> DEFINE x == Reduce32(w0 - s)
  <2>1. pc = "low" /\ w0' = x /\ UNCHANGED <<w, s, t, w1, h, v>>
    BY <1>3 DEF SubtractCs2
  <2>2. Valid(w1, w0) /\ (w1 * Alpha + w0) % Q = w
    BY SMT, <1>1, <2>1, ReferenceValid DEF PathInv
  <2>3. x \in Int /\ (w1 * Alpha + x) % Q = (w - s) % Q
    <3>1. w0 - s \in Int /\ -2 * Q < w0 - s /\ w0 - s < 2 * Q
      BY SMT, <1>1, <2>2, Gammas, QIs DEF Valid
    <3>2. PICK k \in Int : x = w0 - s - k * Q
      BY SMT, <3>1, ReduceCongruent
    <3>3. PICK a \in Int : a = w1 * Alpha + w0
      BY SMT, <1>1, HintBounds
    <3>4. a % Q = w % Q
      BY SMT, <1>1, <2>2, <3>3, WithinQ
    <3> HIDE DEF x
    <3>5. x - w0 \in Int /\ x - w0 = -s - k * Q /\ x \in Int
      BY SMT, <1>1, <3>2, QIs
    <3>6. (a + (x - w0)) % Q = (w + (-s)) % Q
      BY SMT, <1>1, <3>4, <3>5, CarryMod
    <3>7. w1 * Alpha + x = a + (x - w0) /\ w - s = w + (-s)
      BY SMT, <1>1, <3>3, <3>5, HintBounds
    <3> QED BY <3>5, <3>6, <3>7
  <2> HIDE DEF x
  <2>4. pc' = IF LowTest(x) THEN "rejected" ELSE "hint"
    BY <1>3 DEF SubtractCs2, x
  <2>5. TypeOK'
    BY <1>1, <2>1, <2>3, <2>4 DEF PathInv, TypeOK, KeySteps
  <2> QED BY <1>1, <2>1, <2>3, <2>4, <2>5 DEF PathInv
<1>4. CASE HintCt0
  <2> DEFINE c == Reduce32(t)
  <2>1. pc = "hint" /\ UNCHANGED <<w, s, t, w1, v>>
    BY <1>4 DEF HintCt0
  <2>2. ~LowTest(w0) /\ (w1 * Alpha + w0) % Q = (w - s) % Q
    BY <2>1 DEF PathInv
  <2>3. -GAMMA2 < w0 /\ w0 < GAMMA2
    <3>1. GAMMA2 - BETA \in Int /\ GAMMA2 - BETA < GAMMA2 /\ GAMMA2 \in Int
      BY SMT, BetaAssumption, HintBounds
    <3>2. -(GAMMA2 - BETA) < w0 /\ w0 < GAMMA2 - BETA
      BY SMT, <1>1, <2>2, <3>1, NormBound DEF LowTest
    <3> QED BY SMT, <1>1, <3>1, <3>2
  <2>4. ReferenceDecompose((w - s) % Q).high = w1
    <3>1. MakeHint(w0, w1) = 0
      BY SMT, <1>1, <2>3, HintBounds DEF MakeHint
    <3> QED BY SMT, <1>1, <2>2, <3>1, HintNone
  <2>5. c \in Int /\ (w1 * Alpha + (w0 + c)) % Q = (w - s + t) % Q
    <3>1. -2 * Q < t /\ t < 2 * Q
      BY SMT, <1>1, QIs
    <3>2. PICK k \in Int : c = t - k * Q
      BY SMT, <1>1, <3>1, ReduceCongruent
    <3>3. PICK a \in Int : a = w1 * Alpha + w0
      BY SMT, <1>1, HintBounds
    <3>4. a % Q = (w - s) % Q
      BY <2>2, <3>3
    <3> HIDE DEF c
    <3>5. c \in Int
      BY SMT, <1>1, <3>2, QIs
    <3>6. (a + c) % Q = (w - s + t) % Q
      BY SMT, <1>1, <3>2, <3>4, <3>5, CarryMod
    <3>7. w1 * Alpha + (w0 + c) = a + c
      BY SMT, <1>1, <3>3, <3>5, HintBounds
    <3> QED BY <3>5, <3>6, <3>7
  <2> HIDE DEF c
  <2>6. CASE NormExceeds(c, GAMMA2)
    <3>1. pc' = "rejected" /\ UNCHANGED <<w0, h>>
      BY <1>4, <2>6 DEF HintCt0, c
    <3> QED BY <1>1, <2>1, <3>1 DEF PathInv, TypeOK, KeySteps
  <2>7. CASE ~NormExceeds(c, GAMMA2)
    <3>1. pc' = "verify" /\ w0' = w0 + c /\ h' = MakeHint(w0 + c, w1)
      BY <1>4, <2>7 DEF HintCt0, c
    <3>2. w0 + c \in Int /\ -Alpha < w0 + c /\ w0 + c < Alpha
      <4>1. GAMMA2 \in Int /\ -GAMMA2 < c /\ c < GAMMA2
        BY SMT, <2>5, <2>7, HintBounds, NormBound
      <4> QED BY SMT, <1>1, <2>3, <2>5, <4>1, HintBounds
    <3>3. MakeHint(w0 + c, w1) \in 0 .. 1
      BY DEF MakeHint
    <3>4. TypeOK'
      BY <1>1, <2>1, <3>1, <3>2, <3>3 DEF PathInv, TypeOK, KeySteps
    <3> QED BY <1>1, <2>1, <2>4, <2>5, <3>1, <3>2, <3>4 DEF PathInv, MakeHint
  <2> QED BY <2>6, <2>7
<1>5. CASE Reconstruct
  <2> DEFINE y == w - s + t
  <2>1. /\ pc = "verify" /\ pc' = "done" /\ v' = UseHint(Freeze(y), h)
        /\ UNCHANGED <<w, s, t, w1, w0, h>>
    BY <1>5 DEF Reconstruct
  <2>2. Freeze(y) = y % Q /\ y % Q \in Coefficients
    <3>1. y \in Int /\ -2147483648 <= y /\ y <= 2143289343
      <4>1. 0 <= w /\ w <= 8380416
        BY SMT, <1>1, CoefficientBounds
      <4> QED BY SMT, <1>1, <4>1, QIs
    <3>2. Q \in Int /\ Q > 0
      BY SMT, QIs
    <3> HIDE DEF y
    <3>3. y % Q \in 0 .. Q - 1
      BY SMT, <3>1, <3>2
    <3> QED BY SMT, <3>1, <3>3, FreezeStandard DEF Coefficients
  <2>3. v' = Corrected(ReferenceDecompose(y % Q), h)
    BY <2>1, <2>2, DecomposeCorrect DEF UseHint
  <2>4. /\ -Alpha < w0 /\ w0 < Alpha /\ (w1 * Alpha + w0) % Q = y % Q
        /\ h = MakeHint(w0, w1) /\ ReferenceDecompose((w - s) % Q).high = w1
    BY <2>1 DEF PathInv
  <2> HIDE DEF y
  <2>5. v' = w1
    <3>1. CASE h = 0
      <4>1. Corrected(ReferenceDecompose((w1 * Alpha + w0) % Q), 0) = w1
        BY Zenon, <1>1, <2>4, <3>1, HintNone
      <4> QED BY <2>3, <2>4, <3>1, <4>1
    <3>2. CASE h = 1
      <4>1. Corrected(ReferenceDecompose((w1 * Alpha + w0) % Q), 1) = w1
        <5>1. MakeHint(w0, w1) # 0
          BY <2>4, <3>2
        <5> QED BY Zenon, <1>1, <2>4, <5>1, HintSome
      <4> QED BY <2>3, <2>4, <3>2, <4>1
    <3> QED BY SMT, <1>1, <3>1, <3>2
  <2>6. TypeOK'
    BY <1>1, <2>1, <2>5 DEF PathInv, TypeOK, KeySteps
  <2> QED BY <1>1, <2>1, <2>4, <2>5, <2>6 DEF PathInv
<1> QED BY <1>2, <1>3, <1>4, <1>5

LEMMA PathStep == PathInv /\ [Next]_vars => PathInv'
<1>1. PathInv /\ UNCHANGED vars => PathInv'
  BY DEF vars, PathInv, TypeOK, ReducedRange, SplitIsLossless
<1> QED BY <1>1, KeyStep, AttemptStep DEF Next

(* Every state of every path satisfies PathInv. *)
THEOREM Path == Spec => []PathInv
BY PathInit, PathStep, PTL DEF Spec

(* The verifier recovers the w1 the signer hashed, from every coefficient  *)
(* of every attempt that was not rejected.                                 *)
THEOREM HintCorrect == Spec => []HintRecovers
<1>1. PathInv => HintRecovers
  BY DEF PathInv, HintRecovers
<1> QED BY <1>1, Path, PTL

(* decompose is the decomposition of the standard. *)
THEOREM DecomposeIsExact == Spec => []DecomposeExact
<1>1. PathInv => DecomposeExact
  BY DEF PathInv, DecomposeExact
<1> QED BY <1>1, Path, PTL

(* The hashed w1 is also the high part of w - cs2.                         *)
THEOREM HighBitsSurvive == Spec => []HighBitsKept
<1>1. PathInv => HighBitsKept
  <2> SUFFICES ASSUME PathInv, pc = "hint"
               PROVE  ReferenceDecompose((w - s) % Q).high = w1
    BY DEF PathInv, HighBitsKept
  <2>1. w0 \in Int /\ w1 \in Int /\ 0 <= w1 /\ w1 < HighCount
    BY SMT, HintBounds DEF PathInv, TypeOK, KeySteps
  <2>2. GAMMA2 - BETA \in Int /\ GAMMA2 - BETA < GAMMA2 /\ GAMMA2 \in Int
    BY SMT, BetaAssumption, HintBounds
  <2>3. -(GAMMA2 - BETA) < w0 /\ w0 < GAMMA2 - BETA
    BY SMT, <2>1, <2>2, NormBound DEF LowTest, PathInv
  <2>4. MakeHint(w0, w1) = 0
    BY SMT, <2>1, <2>2, <2>3 DEF MakeHint
  <2> QED BY SMT, <2>1, <2>4, HintNone DEF PathInv
<1> QED BY <1>1, Path, PTL

(* The hint bit is set exactly when the high part moves.                   *)
THEOREM HintExact == Spec => []HintIsExact
<1>1. PathInv => HintIsExact
  <2> SUFFICES ASSUME PathInv, pc = "verify"
               PROVE  h = 1 <=> ReferenceDecompose((w - s + t) % Q).high # w1
    BY DEF HintIsExact
  <2>1. w0 \in Int /\ w1 \in Int /\ 0 <= w1 /\ w1 < HighCount /\ h \in {0, 1}
    BY SMT, HintBounds DEF PathInv, TypeOK, KeySteps
  <2> QED BY SMT, <2>1, HintNone, HintSome DEF PathInv
<1> QED BY <1>1, Path, PTL

-----------------------------------------------------------------------------
(* Aigis-sig.  The two decompositions, with their constants. *)
LEMMA SigConstants ==
    ASSUME NEW p \in Sig!Sets
    PROVE  \/ p = 1 /\ Sig!Modulus(p) = 2021377 /\ Sig!Gamma2(p) = 168448 /\ Sig!Beta2(p) = 175
           \/ p # 1 /\ Sig!Modulus(p) = 3870721 /\ Sig!Gamma2(p) = 322560 /\ Sig!Beta2(p) = 275
BY DEF Sig!Sets, Sig!Modulus, Sig!Gamma2, Sig!Beta2

LEMMA SigHalves ==
    ASSUME NEW p \in Sig!Sets
    PROVE  \/ p = 1 /\ 2^Sig!D(p) = 8192 /\ 2^(Sig!D(p) - 1) = 4096
           \/ p # 1 /\ 2^Sig!D(p) = 16384 /\ 2^(Sig!D(p) - 1) = 8192
BY DEF Sig!Sets, Sig!D

(* freeze4q: the standard representative of whatever lies below 4*Q. *)
LEMMA SigFreeze ==
    ASSUME NEW p \in Sig!Sets, NEW x \in Int, 0 <= x, x < 4 * Sig!Modulus(p)
    PROVE  /\ Sig!Freeze(p, x) \in 0 .. Sig!Modulus(p) - 1
           /\ x - Sig!Freeze(p, x) \in {0, Sig!Modulus(p), 2 * Sig!Modulus(p), 3 * Sig!Modulus(p)}
<1> DEFINE N == Sig!Modulus(p)
<1>1. N \in Int /\ N > 0
  BY SigConstants
<1> HIDE DEF N
<1>2. x < 4 * N
  BY DEF N
<1>3. Sig!Freeze(p, x) = Sig!SubtractOrKeep(Sig!SubtractOrKeep(x, 2 * N), N)
  BY DEF Sig!Freeze, N
<1>4. /\ Sig!Freeze(p, x) \in 0 .. N - 1
      /\ x - Sig!Freeze(p, x) \in {0, N, 2 * N, 3 * N}
  BY <1>1, <1>2, <1>3 DEF Sig!SubtractOrKeep
<1> QED  BY <1>4 DEF N


(* The quotient that the multiplication by 3 guesses is one too many, or,  *)
(* at the upper end of an interval, exact.                                 *)
SigGuessed(p, x, guess, k, P) ==
    LET A == 2 * Sig!Gamma2(p)
    IN  /\ P <= x /\ x < P + A /\ x % A = x - P
        /\ k = 6 => x = P
        /\ \/ guess = k /\ guess * A = P
           \/ guess = k + 1 /\ guess * A = P + A
        /\ P \div A = k /\ (P + A) \div A = k + 1
        /\ P = Sig!Modulus(p) - 1 <=> k = 6
        /\ P + A = Sig!Modulus(p) - 1 <=> k = 5
        /\ P = k * A

LEMMA SigGuess ==
    ASSUME NEW p \in Sig!Sets, NEW x \in Int, 0 <= x, x < Sig!Modulus(p)
    PROVE  \E k \in 0 .. 6, P \in Int :
               SigGuessed(p, x, (x * 3) \div (IF p = 1 THEN 1048576 ELSE 2097152) + 1, k, P)
<1>1. CASE p = 1
  <2> DEFINE k == x \div 336896
             P == k * 336896
             g == (x * 3) \div 1048576
  <2>1. /\ Sig!Gamma2(p) = 168448 /\ Sig!Modulus(p) = 2021376 + 1 /\ x <= 2021376
        /\ 2 * 168448 = 336896
    BY SMT, <1>1, SigConstants
  <2>2. /\ k \in 0 .. 6 /\ P \in Int /\ P <= x /\ x < P + 336896 /\ P = k * 336896
        /\ x % 336896 = x - P
    BY SMT, <2>1
  <2>3. g \in Int /\ 1048576 * g <= 3 * x /\ 3 * x < 1048576 * g + 1048576
    BY SMT
  <2> HIDE DEF k, P, g
  <2>4. g + 1 \in {k, k + 1} /\ (k = 6 => x = P)
    BY SMT, <2>1, <2>2, <2>3
  <2>5. /\ P \div 336896 = k /\ (P + 336896) \div 336896 = k + 1
        /\ (P = 2021376 <=> k = 6) /\ (P + 336896 = 2021376 <=> k = 5)
    BY SMT, <2>2
  <2>6. \/ (g + 1 = k /\ (g + 1) * 336896 = P)
        \/ g + 1 = k + 1 /\ (g + 1) * 336896 = P + 336896
    BY SMT, <2>2, <2>4
  <2>7. SigGuessed(p, x, g + 1, k, P)
    BY SMT, <2>1, <2>2, <2>4, <2>5, <2>6 DEF SigGuessed
  <2> QED  BY SMT, <1>1, <2>2, <2>7 DEF g
<1>2. CASE p # 1
  <2> DEFINE k == x \div 645120
             P == k * 645120
             g == (x * 3) \div 2097152
  <2>1. /\ Sig!Gamma2(p) = 322560 /\ Sig!Modulus(p) = 3870720 + 1 /\ x <= 3870720
        /\ 2 * 322560 = 645120
    BY SMT, <1>2, SigConstants
  <2>2. /\ k \in 0 .. 6 /\ P \in Int /\ P <= x /\ x < P + 645120 /\ P = k * 645120
        /\ x % 645120 = x - P
    BY SMT, <2>1
  <2>3. g \in Int /\ 2097152 * g <= 3 * x /\ 3 * x < 2097152 * g + 2097152
    BY SMT
  <2> HIDE DEF k, P, g
  <2>4. g + 1 \in {k, k + 1} /\ (k = 6 => x = P)
    BY SMT, <2>1, <2>2, <2>3
  <2>5. /\ P \div 645120 = k /\ (P + 645120) \div 645120 = k + 1
        /\ (P = 3870720 <=> k = 6) /\ (P + 645120 = 3870720 <=> k = 5)
    BY SMT, <2>2
  <2>6. \/ g + 1 = k /\ (g + 1) * 645120 = P
        \/ g + 1 = k + 1 /\ (g + 1) * 645120 = P + 645120
    BY SMT, <2>2, <2>4
  <2>7. SigGuessed(p, x, g + 1, k, P)
    BY SMT, <2>1, <2>2, <2>4, <2>5, <2>6 DEF SigGuessed
  <2> QED  BY SMT, <1>2, <2>2, <2>7 DEF g
<1> QED  BY <1>1, <1>2

(* A high part and a low part in their ranges; the low part reaches        *)
(* -GAMMA2 only in the interval that is folded into high = 0.              *)
SigValid(p, k, l) ==
    /\ k \in 0 .. 5 /\ l \in Int
    /\ -Sig!Gamma2(p) <= l /\ l <= Sig!Gamma2(p)
    /\ l = -Sig!Gamma2(p) => k = 0

(* x and k * ALPHA + l are the same coefficient. *)
SigStands(p, x, k, l) ==
    x - (k * (2 * Sig!Gamma2(p)) + l) \in {-Sig!Modulus(p), 0, Sig!Modulus(p)}

LEMMA SigDecompose ==
    ASSUME NEW p \in Sig!Sets, NEW x \in Int, 0 <= x, x < Sig!Modulus(p)
    PROVE  \E k, l : /\ SigValid(p, k, l) /\ SigStands(p, x, k, l)
                     /\ Sig!Decompose(p, x) = [high |-> k, low |-> Sig!Modulus(p) + l]
                     /\ Sig!Reference(p, x) = [high |-> k, low |-> l]
<1> DEFINE M == Sig!Modulus(p)
           G == Sig!Gamma2(p)
           A == 2 * G
           guess == (x * 3) \div (IF p = 1 THEN 1048576 ELSE 2097152) + 1
<1>1. /\ M \in Int /\ G \in Int /\ A \in Int /\ G > 1 /\ A = 2 * G /\ M = 6 * A + 1
      /\ A \div 2 = G
  BY SMT, SigConstants
<1>2. PICK k \in 0 .. 6, P \in Int : SigGuessed(p, x, guess, k, P)
  BY SigGuess
<1>3. /\ P <= x /\ x < P + A /\ x % A = x - P
      /\ k = 6 => x = P
      /\ \/ guess = k /\ guess * A = P
         \/ guess = k + 1 /\ guess * A = P + A
      /\ P \div A = k /\ (P + A) \div A = k + 1
      /\ P = M - 1 <=> k = 6
      /\ P + A = M - 1 <=> k = 5
      /\ P = k * A
  BY <1>2 DEF SigGuessed
<1> DEFINE rest == x - guess * A
           u == IF rest < 0 THEN guess - 1 ELSE guess
           m == IF rest < 0 THEN rest + A ELSE rest
           y == m - (A \div 2 + 1)
           low1 == (IF y < 0 THEN y + A ELSE y) - (A \div 2 - 1)
           high1 == IF low1 < 0 THEN u + 1 ELSE u
           r == x % A
           low2 == IF r > G THEN r - A ELSE r
           l == IF x - P > G THEN x - P - A ELSE x - P
           K == IF x - P > G THEN k + 1 ELSE k
<1>4. Sig!Decompose(p, x) = IF high1 = 6 THEN [high |-> 0, low |-> M + low1 - 1]
                                         ELSE [high |-> high1, low |-> M + low1]
  BY DEF Sig!Decompose
<1>5. Sig!Reference(p, x) = IF x - low2 = M - 1 THEN [high |-> 0, low |-> low2 - 1]
                            ELSE [high |-> (x - low2) \div A, low |-> low2]
  BY DEF Sig!Reference, Sig!Std!ReferenceDecompose, Sig!Std!CenteredRemainder, Sig!Std!Alpha
<1> HIDE DEF M, G, A, guess
<1>6. /\ rest \in Int
      /\ (rest = x - P /\ guess = k) \/ (rest = x - P - A /\ guess = k + 1)
  BY SMT, <1>1, <1>3
<1> HIDE DEF rest
<1>7. u = k /\ m = x - P
  BY SMT, <1>1, <1>3, <1>6
<1> HIDE DEF u, m
<1>8. y = x - P - (G + 1)
  BY SMT, <1>1, <1>7
<1> HIDE DEF y
<1>9. low1 = l
  BY SMT, <1>1, <1>3, <1>8
<1>10. low2 = l
  BY SMT, <1>3
<1> HIDE DEF r, low1, low2
<1>11. high1 = K
  BY SMT, <1>1, <1>3, <1>7, <1>9
<1>12. /\ K \in 0 .. 6 /\ l \in Int /\ -G < l /\ l <= G
       /\ (x - l) \div A = K /\ (x - l = M - 1 <=> K = 6)
       /\ K = 6 => l <= 0
  <2>1. CASE x - P > G
    <3>1. K = k + 1 /\ l = x - P - A /\ x - l = P + A /\ k # 6
      BY SMT, <1>1, <1>3, <2>1
    <3> QED  BY SMT, <1>1, <1>3, <2>1, <3>1
  <2>2. CASE ~(x - P > G)
    <3>1. K = k /\ l = x - P /\ x - l = P
      BY SMT, <1>1, <1>3, <2>2
    <3> QED  BY SMT, <1>1, <1>3, <2>2, <3>1
  <2> QED  BY <2>1, <2>2
<1>13. x - l = K * A
  BY SMT, <1>1, <1>3
<1> HIDE DEF high1, K, l
<1>14. CASE K = 6
  <2>1. /\ Sig!Decompose(p, x) = [high |-> 0, low |-> M + (l - 1)]
        /\ Sig!Reference(p, x) = [high |-> 0, low |-> l - 1]
    <3>1. M + l - 1 = M + (l - 1)
      BY SMT, <1>1, <1>12
    <3>2. Sig!Decompose(p, x) = [high |-> 0, low |-> M + low1 - 1]
      BY <1>4, <1>11, <1>14
    <3>3. x - low2 = M - 1
      BY <1>10, <1>12, <1>14
    <3>4. Sig!Reference(p, x) = [high |-> 0, low |-> low2 - 1]
      BY <1>5, <3>3
    <3> QED  BY <1>9, <1>10, <3>1, <3>2, <3>4
  <2>2. SigValid(p, 0, l - 1)
    <3>1. l - 1 \in Int /\ -G <= l - 1 /\ l - 1 <= G
      BY SMT, <1>1, <1>12, <1>14
    <3> QED  BY <3>1 DEF SigValid, G
  <2>3. SigStands(p, x, 0, l - 1)
    <3>1. x - (0 * A + (l - 1)) = M
      BY SMT, <1>1, <1>12, <1>14
    <3> QED  BY <3>1 DEF SigStands, M, A, G
  <2> QED  BY <2>1, <2>2, <2>3 DEF M
<1>15. CASE K # 6
  <2>1. /\ Sig!Decompose(p, x) = [high |-> K, low |-> M + l]
        /\ Sig!Reference(p, x) = [high |-> K, low |-> l]
    <3>1. Sig!Decompose(p, x) = [high |-> K, low |-> M + low1]
      BY <1>4, <1>11, <1>15
    <3>2. x - low2 # M - 1 /\ (x - low2) \div A = K
      BY <1>10, <1>12, <1>15
    <3>3. Sig!Reference(p, x) = [high |-> K, low |-> low2]
      BY <1>5, <3>2
    <3> QED  BY <1>9, <1>10, <3>1, <3>3
  <2>2. SigValid(p, K, l)
    BY SMT, <1>1, <1>12, <1>15 DEF SigValid, G
  <2>3. SigStands(p, x, K, l)
    <3>1. x - (K * A + l) = 0
      BY SMT, <1>1, <1>12, <1>13
    <3> QED  BY <3>1 DEF SigStands, M, A, G
  <2> QED  BY <2>1, <2>2, <2>3 DEF M
<1> QED  BY <1>14, <1>15

(* The two parts of a coefficient are determined by their ranges. *)
LEMMA SigUnique ==
    ASSUME NEW p \in Sig!Sets, NEW x \in Int, NEW k, NEW l, NEW k1, NEW l1,
           SigValid(p, k, l), SigStands(p, x, k, l),
           SigValid(p, k1, l1), SigStands(p, x, k1, l1)
    PROVE  k = k1 /\ l = l1
<1>1. CASE p = 1
  <2>1. Sig!Modulus(p) = 2021377 /\ Sig!Gamma2(p) = 168448
    BY SMT, <1>1, SigConstants
  <2>2. /\ k \in 0 .. 5 /\ l \in Int /\ -168448 <= l /\ l <= 168448 /\ (l = -168448 => k = 0)
        /\ k1 \in 0 .. 5 /\ l1 \in Int /\ -168448 <= l1 /\ l1 <= 168448 /\ (l1 = -168448 => k1 = 0)
    BY SMT, <2>1 DEF SigValid
  <2>3. /\ \/ x = k * 336896 + l - 2021377
           \/ x = k * 336896 + l
           \/ x = k * 336896 + l + 2021377
        /\ \/ x = k1 * 336896 + l1 - 2021377
           \/ x = k1 * 336896 + l1
           \/ x = k1 * 336896 + l1 + 2021377
    BY SMT, <2>1, <2>2 DEF SigStands
  <2>4. (k - k1) * 336896 = l1 - l
    BY SMT, <2>2, <2>3
  <2>5. k - k1 \in {-1, 0, 1}
    BY SMT, <2>2, <2>4
  <2> QED  BY SMT, <2>2, <2>4, <2>5
<1>2. CASE p # 1
  <2>1. Sig!Modulus(p) = 3870721 /\ Sig!Gamma2(p) = 322560
    BY SMT, <1>2, SigConstants
  <2>2. /\ k \in 0 .. 5 /\ l \in Int /\ -322560 <= l /\ l <= 322560 /\ (l = -322560 => k = 0)
        /\ k1 \in 0 .. 5 /\ l1 \in Int /\ -322560 <= l1 /\ l1 <= 322560 /\ (l1 = -322560 => k1 = 0)
    BY SMT, <2>1 DEF SigValid
  <2>3. /\ \/ x = k * 645120 + l - 3870721
           \/ x = k * 645120 + l
           \/ x = k * 645120 + l + 3870721
        /\ \/ x = k1 * 645120 + l1 - 3870721
           \/ x = k1 * 645120 + l1
           \/ x = k1 * 645120 + l1 + 3870721
    BY SMT, <2>1, <2>2 DEF SigStands
  <2>4. (k - k1) * 645120 = l1 - l
    BY SMT, <2>2, <2>3
  <2>5. k - k1 \in {-1, 0, 1}
    BY SMT, <2>2, <2>4
  <2> QED  BY SMT, <2>2, <2>4, <2>5
<1> QED  BY <1>1, <1>2

LEMMA SigParts ==
    ASSUME NEW p \in Sig!Sets, NEW x \in Int, 0 <= x, x < Sig!Modulus(p), NEW k, NEW l,
           SigValid(p, k, l), SigStands(p, x, k, l)
    PROVE  Sig!Decompose(p, x) = [high |-> k, low |-> Sig!Modulus(p) + l]
BY SigDecompose, SigUnique

(* With low bits below ALPHA - BETA2 the hint leads back to the high part: *)
(* the decomposition is one interval away at most, and the sign of its low *)
(* part says in which direction.                                           *)
LEMMA SigHint ==
    ASSUME NEW p \in Sig!Sets, NEW x \in Int, 0 <= x, x < Sig!Modulus(p),
           NEW k \in 0 .. 5, NEW l \in Int,
           -(2 * Sig!Gamma2(p) - Sig!Beta2(p)) < l, l < 2 * Sig!Gamma2(p) - Sig!Beta2(p),
           SigStands(p, x, k, l)
    PROVE  Sig!UseHint(p, x, IF Sig!Decompose(p, x).high # k THEN 1 ELSE 0) = k
<1>1. PICK k1, l1 : /\ SigValid(p, k1, l1) /\ SigStands(p, x, k1, l1)
                    /\ Sig!Decompose(p, x) = [high |-> k1, low |-> Sig!Modulus(p) + l1]
  BY SigDecompose
<1>2. k1 \in 0 .. 5 /\ l1 \in Int /\ Sig!Modulus(p) \in Int
  BY SMT, <1>1, SigConstants DEF SigValid
<1>3. CASE k1 = k
  BY <1>1, <1>3 DEF Sig!UseHint
<1>4. CASE k1 # k
  <2>1. IF l1 > 0 THEN k = (IF k1 = 5 THEN 0 ELSE k1 + 1)
                  ELSE k = (IF k1 = 0 THEN 5 ELSE k1 - 1)
    <3>1. CASE p = 1
      BY SMT, <1>1, <1>4, <3>1, SigConstants DEF SigValid, SigStands
    <3>2. CASE p # 1
      BY SMT, <1>1, <1>4, <3>2, SigConstants DEF SigValid, SigStands
    <3> QED  BY <3>1, <3>2
  <2>2. l1 > 0 <=> Sig!Modulus(p) + l1 > Sig!Modulus(p)
    BY SMT, <1>2
  <2>3. Sig!UseHint(p, x, 1) = IF l1 > 0 THEN (IF k1 = 5 THEN 0 ELSE k1 + 1)
                                         ELSE (IF k1 = 0 THEN 5 ELSE k1 - 1)
    BY SMT, <1>1, <2>2 DEF Sig!UseHint
  <2> QED  BY <1>1, <1>4, <2>1, <2>3
<1> QED  BY <1>3, <1>4

(* poly_chknorm passes representatives of small numbers only. *)
LEMMA SigNorm ==
    ASSUME NEW p \in Sig!Sets, NEW x \in Int, 0 <= x, x < Sig!Modulus(p),
           NEW bound \in Int, ~Sig!NormExceeds(p, x, bound)
    PROVE  \E y \in Int : -bound < y /\ y < bound /\ x - y \in {0, Sig!Modulus(p)}
<1> DEFINE y == IF x > (Sig!Modulus(p) - 1) \div 2 THEN x - Sig!Modulus(p) ELSE x
<1>1. y \in Int /\ -bound < y /\ y < bound /\ x - y \in {0, Sig!Modulus(p)}
  BY SMT, SigConstants DEF Sig!NormExceeds
<1> QED  BY <1>1

-----------------------------------------------------------------------------
(* What holds of the coefficient at each step: before the hint the high    *)
(* part and small low bits stand for w - cs2, after it larger low bits     *)
(* stand for w - cs2 + ct0, and the hint says whether they carry.          *)
SigQ == Sig!Modulus(set)

SigReady(bound) ==
    /\ coeff \in Int /\ 0 <= coeff /\ coeff < SigQ /\ high \in 0 .. 5
    /\ \E l \in Int : -bound < l /\ l < bound /\ SigStands(set, coeff, high, l)

SigPending ==
    /\ cs2 \in Int /\ 0 <= cs2 /\ cs2 < 2 * SigQ
    /\ ct0 \in Int /\ 0 <= ct0 /\ ct0 < 2 * SigQ

SigInv ==
    /\ set \in Sig!Sets
    /\ pcSig = "sum" => coeff \in Int /\ 0 <= coeff /\ coeff < 4 * SigQ
    /\ Sig!SplitIsLossless
    /\ pcSig = "decompose" => coeff \in Int /\ 0 <= coeff /\ coeff < SigQ /\ SigPending
    /\ pcSig = "low" => /\ coeff \in Int /\ 0 <= coeff /\ coeff < SigQ /\ SigPending
                        /\ [high |-> high, low |-> low - SigQ] = Sig!Reference(set, coeff)
    /\ pcSig = "hint" => SigReady(Sig!Gamma2(set) - Sig!Beta2(set)) /\ SigPending
    /\ pcSig = "verify" => /\ SigReady(2 * Sig!Gamma2(set) - Sig!Beta2(set))
                           /\ hint = IF Sig!Decompose(set, coeff).high # high THEN 1 ELSE 0
    /\ pcSig = "done" => found = high

LEMMA SigInit == Sig!Init => SigInv
<1> SUFFICES ASSUME Sig!Init PROVE SigInv
  OBVIOUS
<1>1. set \in Sig!Sets /\ SigQ \in Int
  BY SMT, SigConstants DEF Sig!Init, SigQ
<1>2. CASE pcSig = "sum" /\ coeff \in Sig!RowSums(set)
  <2> DEFINE X == Sig!Modulus(set)
             edges == {k * 2^(Sig!D(set) - 1) : k \in 0 .. X \div 2^(Sig!D(set) - 1)} \cup {X - 1}
             ys == Sig!Near(edges, Reach) \cap 0 .. X - 1
  <2>1. Sig!RowSums(set) = {y + k * X : y \in ys, k \in 0 .. 3}
    BY DEF Sig!RowSums
  <2>2. ys \subseteq 0 .. SigQ - 1
    BY DEF SigQ
  <2> HIDE DEF ys, edges, X
  <2>3. coeff \in {y + k * SigQ : y \in ys, k \in 0 .. 3}
    BY SMT, <1>2, <2>1 DEF SigQ, X
  <2>4. PICK y \in ys, k \in 0 .. 3 : coeff = y + k * SigQ
    BY SMT, <2>3
  <2>5. y \in Int /\ 0 <= y /\ y < SigQ
    BY SMT, <1>1, <2>2, <2>4
  <2>6. coeff \in Int /\ 0 <= coeff /\ coeff < 4 * SigQ
    <3>1. k = 0 \/ k = 1 \/ k = 2 \/ k = 3
      BY SMT, <2>4
    <3> QED  BY SMT, <1>1, <2>4, <2>5, <3>1
  <2> QED  BY <1>1, <1>2, <2>6 DEF SigInv, Sig!SplitIsLossless
<1>3. CASE /\ pcSig = "decompose" /\ coeff \in Sig!EdgeWs(set)
           /\ cs2 \in 0 .. 2 * SigQ - 1 /\ ct0 \in 0 .. 2 * SigQ - 1
  <2>1. coeff \in 0 .. SigQ - 1
    BY <1>3 DEF Sig!EdgeWs, SigQ
  <2>2. coeff \in Int /\ 0 <= coeff /\ coeff < SigQ /\ SigPending
    BY SMT, <1>1, <1>3, <2>1 DEF SigPending
  <2> QED  BY <1>1, <1>3, <2>2 DEF SigInv, Sig!SplitIsLossless
<1> QED  BY <1>2, <1>3 DEF Sig!Init, Sig!Products, SigQ

LEMMA SigSplitT == ASSUME SigInv, Sig!SplitT PROVE SigInv'
<1>1. /\ set \in Sig!Sets /\ set' = set /\ coeff \in Int /\ 0 <= coeff /\ coeff < 4 * SigQ
      /\ pcSig' = "keys" /\ coeff' = coeff
  BY DEF SigInv, Sig!SplitT
<1> DEFINE f == Sig!Freeze(set, coeff)
<1>2. /\ f \in 0 .. SigQ - 1 /\ coeff - f \in {0, SigQ, 2 * SigQ, 3 * SigQ}
  BY <1>1, SigFreeze DEF SigQ
<1>3. /\ high' = Sig!Power2Round(set, f).high /\ low' = Sig!Power2Round(set, f).low
      /\ found' = high' * 2^Sig!D(set)
  BY DEF Sig!SplitT, Sig!Reduced
<1> HIDE DEF f
<1>4. SigQ \in Int
  BY SMT, <1>1, SigConstants DEF SigQ
<1>5. coeff = f \/ coeff = f + SigQ \/ coeff = f + 2 * SigQ \/ coeff = f + 3 * SigQ
  BY SMT, <1>1, <1>2, <1>4
<1>6. Sig!SplitIsLossless'
  <2>1. CASE set = 1
    <3>1. SigQ = 2021377 /\ f \in Int /\ 0 <= f /\ f < 2021377
      BY SMT, <1>1, <1>2, <2>1, SigConstants DEF SigQ
    <3>2. 2^Sig!D(set) = 8192 /\ 2^(Sig!D(set) - 1) = 4096 /\ Sig!Q' = 2021377
      BY SMT, <1>1, <2>1, <3>1, SigHalves DEF Sig!Q, SigQ
    <3> DEFINE r == f % 8192
               k == f \div 8192
               y == r - (8192 \div 2 + 1)
               lo == (IF y < 0 THEN y + 8192 ELSE y) - (8192 \div 2 - 1)
    <3>3. k \in Int /\ 0 <= k /\ k <= 246 /\ r \in Int /\ 0 <= r /\ r < 8192 /\ f = 8192 * k + r
      BY SMT, <3>1
    <3>4. high' = (f - lo) \div 8192 /\ low' = 2021377 + lo
      BY <1>3, <3>1, <3>2 DEF Sig!Power2Round, SigQ
    <3>5. found' = high' * 8192 /\ Sig!D(set)' = Sig!D(set)
      BY <1>1, <1>3, <3>2 DEF Sig!D
    <3> HIDE DEF r, k
    <3>6. lo = r \/ lo = r - 8192
      BY SMT, <3>3
    <3>7. -4096 < lo /\ lo <= 4096
      BY SMT, <3>3
    <3> HIDE DEF y, lo
    <3>8. high' \in Int /\ high' * 8192 = f - lo /\ 0 <= high' /\ high' <= 255
      BY SMT, <3>3, <3>4, <3>6, <3>7
    <3>9. coeff % 2021377 = f
      <4>1. coeff = f \/ coeff = f + 2021377 \/ coeff = f + 2 * 2021377 \/ coeff = f + 3 * 2021377
        BY SMT, <1>5, <3>1
      <4>2. coeff = f + 2021377 * (coeff \div 2021377)
        BY SMT, <1>1, <3>1, <4>1
      <4> QED  BY SMT, <1>1, <3>1, <4>1, <4>2
    <3>10. found' + low' - 2021377 = f
      BY SMT, <3>1, <3>3, <3>4, <3>5, <3>6, <3>8
    <3>11. /\ 2021377 + 4096 - low' \in Int
           /\ 0 <= 2021377 + 4096 - low' /\ 2021377 + 4096 - low' <= 8192 - 1
      BY SMT, <3>3, <3>4, <3>6, <3>7
    <3>12. /\ Sig!Q' + 2^(Sig!D(set)' - 1) - low' = 2021377 + 4096 - low'
           /\ 2^Sig!D(set)' - 1 = 8192 - 1
      BY <3>2, <3>5
    <3> QED  BY <1>1, <3>2, <3>5, <3>8, <3>9, <3>10, <3>11, <3>12 DEF Sig!SplitIsLossless
  <2>2. CASE set # 1
    <3>1. SigQ = 3870721 /\ f \in Int /\ 0 <= f /\ f < 3870721
      BY SMT, <1>1, <1>2, <2>2, SigConstants DEF SigQ
    <3>2. 2^Sig!D(set) = 16384 /\ 2^(Sig!D(set) - 1) = 8192 /\ Sig!Q' = 3870721
      BY SMT, <1>1, <2>2, <3>1, SigHalves DEF Sig!Q, SigQ
    <3> DEFINE r == f % 16384
               k == f \div 16384
               y == r - (16384 \div 2 + 1)
               lo == (IF y < 0 THEN y + 16384 ELSE y) - (16384 \div 2 - 1)
    <3>3. k \in Int /\ 0 <= k /\ k <= 236 /\ r \in Int /\ 0 <= r /\ r < 16384 /\ f = 16384 * k + r
      BY SMT, <3>1
    <3>4. high' = (f - lo) \div 16384 /\ low' = 3870721 + lo
      BY <1>3, <3>1, <3>2 DEF Sig!Power2Round, SigQ
    <3>5. found' = high' * 16384 /\ Sig!D(set)' = Sig!D(set)
      BY <1>1, <1>3, <3>2 DEF Sig!D
    <3> HIDE DEF r, k
    <3>6. lo = r \/ lo = r - 16384
      BY SMT, <3>3
    <3>7. -8192 < lo /\ lo <= 8192
      BY SMT, <3>3
    <3> HIDE DEF y, lo
    <3>8. high' \in Int /\ high' * 16384 = f - lo /\ 0 <= high' /\ high' <= 255
      BY SMT, <3>3, <3>4, <3>6, <3>7
    <3>9. coeff % 3870721 = f
      <4>1. coeff = f \/ coeff = f + 3870721 \/ coeff = f + 2 * 3870721 \/ coeff = f + 3 * 3870721
        BY SMT, <1>5, <3>1
      <4>2. coeff = f + 3870721 * (coeff \div 3870721)
        BY SMT, <1>1, <3>1, <4>1
      <4> QED  BY SMT, <1>1, <3>1, <4>1, <4>2
    <3>10. found' + low' - 3870721 = f
      BY SMT, <3>1, <3>3, <3>4, <3>5, <3>6, <3>8
    <3>11. /\ 3870721 + 8192 - low' \in Int
           /\ 0 <= 3870721 + 8192 - low' /\ 3870721 + 8192 - low' <= 16384 - 1
      BY SMT, <3>3, <3>4, <3>6, <3>7
    <3>12. /\ Sig!Q' + 2^(Sig!D(set)' - 1) - low' = 3870721 + 8192 - low'
           /\ 2^Sig!D(set)' - 1 = 16384 - 1
      BY <3>2, <3>5
    <3> QED  BY <1>1, <3>2, <3>5, <3>8, <3>9, <3>10, <3>11, <3>12 DEF Sig!SplitIsLossless
  <2> QED  BY <2>1, <2>2
<1> QED  BY <1>1, <1>6 DEF SigInv

LEMMA SigSplitW == ASSUME SigInv, Sig!SplitW PROVE SigInv'
<1>1. /\ set \in Sig!Sets /\ coeff \in Int /\ 0 <= coeff /\ coeff < SigQ /\ SigPending
      /\ high' = Sig!Decompose(set, coeff).high /\ low' = Sig!Decompose(set, coeff).low
      /\ pcSig' = "low" /\ UNCHANGED <<set, coeff, cs2, ct0>>
  BY DEF SigInv, Sig!SplitW
<1>2. PICK k, l : /\ SigValid(set, k, l)
                  /\ Sig!Decompose(set, coeff) = [high |-> k, low |-> SigQ + l]
                  /\ Sig!Reference(set, coeff) = [high |-> k, low |-> l]
  BY <1>1, SigDecompose DEF SigQ
<1>3. (SigQ + l) - SigQ = l
  BY SMT, <1>1, <1>2, SigConstants DEF SigQ, SigValid
<1>4. [high |-> high', low |-> low' - SigQ] = Sig!Reference(set, coeff)
  BY <1>1, <1>2, <1>3
<1> QED  BY <1>1, <1>4 DEF SigInv, SigPending, Sig!SplitIsLossless, SigQ

LEMMA SigSubtract == ASSUME SigInv, Sig!SubtractCs2 PROVE SigInv'
<1> DEFINE wcs2 == Sig!Freeze(set, coeff + 2 * SigQ - cs2)
           d == Sig!Decompose(set, wcs2)
           bound == Sig!Gamma2(set) - Sig!Beta2(set)
<1>1. /\ set \in Sig!Sets /\ coeff \in Int /\ 0 <= coeff /\ coeff < SigQ /\ SigPending
      /\ coeff' = wcs2 /\ UNCHANGED <<set, cs2, ct0, high>>
      /\ pcSig' \in {"rejected", "hint"}
      /\ pcSig' = "hint" =>
             ~Sig!NormExceeds(set, Sig!Freeze(set, d.low), bound) /\ d.high = high
  BY DEF SigInv, Sig!SubtractCs2, Sig!HighBitsMoved, Sig!Reduced, Sig!Q, SigQ
<1>2. SigQ \in Int /\ SigQ > 0 /\ bound \in Int
  BY SMT, <1>1, SigConstants DEF SigQ
<1>3. coeff + 2 * SigQ - cs2 \in Int /\ 0 <= coeff + 2 * SigQ - cs2 /\ coeff + 2 * SigQ - cs2 < 4 * SigQ
  BY SMT, <1>1, <1>2 DEF SigPending
<1>4. wcs2 \in 0 .. SigQ - 1
  BY <1>1, <1>3, SigFreeze DEF SigQ
<1>5. wcs2 \in Int /\ 0 <= wcs2 /\ wcs2 < SigQ
  BY SMT, <1>2, <1>4
<1> HIDE DEF wcs2
<1>6. CASE pcSig' = "hint"
  <2>1. PICK k, l : /\ SigValid(set, k, l) /\ SigStands(set, wcs2, k, l)
                    /\ d = [high |-> k, low |-> SigQ + l]
    BY <1>1, <1>5, SigDecompose DEF SigQ
  <2>2. l \in Int /\ 0 <= SigQ + l /\ SigQ + l < 4 * SigQ /\ k \in 0 .. 5 /\ -SigQ < 2 * l /\ 2 * l < SigQ
    BY SMT, <1>1, <2>1, SigConstants DEF SigQ, SigValid
  <2> DEFINE f == Sig!Freeze(set, SigQ + l)
  <2>3. f \in 0 .. SigQ - 1 /\ (SigQ + l) - f \in {0, SigQ, 2 * SigQ, 3 * SigQ}
    BY <1>1, <1>2, <2>2, SigFreeze DEF SigQ
  <2>4. f \in Int /\ 0 <= f /\ f < SigQ
    BY SMT, <1>2, <2>3
  <2>5. ~Sig!NormExceeds(set, f, bound) /\ high = k
    BY <1>1, <1>6, <2>1
  <2> HIDE DEF f, d
  <2>6. PICK y \in Int : -bound < y /\ y < bound /\ f - y \in {0, SigQ}
    BY <1>1, <1>2, <2>4, <2>5, SigNorm DEF SigQ
  <2>7. bound <= Sig!Gamma2(set) /\ 2 * Sig!Gamma2(set) < SigQ /\ Sig!Gamma2(set) \in Int
    BY SMT, <1>1, SigConstants DEF SigQ
  <2> HIDE DEF bound
  <2>8. y = l
    BY SMT, <1>2, <2>2, <2>3, <2>4, <2>6, <2>7
  <2>9. SigReady(bound)'
    BY <1>1, <1>5, <2>1, <2>2, <2>5, <2>6, <2>8 DEF SigReady, SigStands, SigQ, bound
  <2> QED  BY <1>1, <1>6, <2>9 DEF SigInv, SigPending, Sig!SplitIsLossless, SigQ, bound
<1>7. CASE pcSig' = "rejected"
  BY <1>1, <1>7 DEF SigInv, Sig!SplitIsLossless
<1> QED  BY <1>1, <1>6, <1>7

LEMMA SigHintCt0 == ASSUME SigInv, Sig!HintCt0 PROVE SigInv'
<1> DEFINE c == Sig!Freeze(set, ct0)
           tmp == Sig!Freeze(set, coeff + c)
           back == Sig!Freeze(set, tmp + (2 * SigQ - c))
           G == Sig!Gamma2(set)
           B == Sig!Beta2(set)
<1>1. /\ set \in Sig!Sets /\ SigReady(G - B) /\ SigPending
      /\ UNCHANGED <<set, high>>
      /\ \/ pcSig' = "rejected"
         \/ /\ pcSig' = "verify" /\ ~Sig!NormExceeds(set, c, G)
            /\ coeff' = tmp
            /\ hint' = IF Sig!Decompose(set, tmp).high # Sig!Decompose(set, back).high THEN 1 ELSE 0
  BY DEF SigInv, Sig!HintCt0, Sig!Reduced, Sig!Q, Sig!MakeHint, SigQ
<1>2. SigQ \in Int /\ SigQ > 0 /\ G \in Int /\ B \in Int /\ 0 < B /\ B < G /\ 2 * G < SigQ
  BY SMT, <1>1, SigConstants DEF SigQ
<1>3. PICK l \in Int : -(G - B) < l /\ l < G - B /\ SigStands(set, coeff, high, l)
  BY <1>1 DEF SigReady
<1>4. coeff \in Int /\ 0 <= coeff /\ coeff < SigQ /\ high \in 0 .. 5
  BY <1>1 DEF SigReady
<1>0. set \in Sig!Sets
  BY <1>1
<1>5. c \in 0 .. SigQ - 1
  BY SMT, <1>1, <1>2, SigFreeze DEF SigPending, SigQ
<1>6. c \in Int /\ 0 <= c /\ c < SigQ
  BY SMT, <1>2, <1>5
<1>7. CASE pcSig' = "verify" /\ ~Sig!NormExceeds(set, c, G)
  <2>1. PICK y \in Int : -G < y /\ y < G /\ c - y \in {0, SigQ}
    BY <1>1, <1>2, <1>6, <1>7, SigNorm DEF SigQ
  <2> HIDE DEF c
  <2>2. coeff + c \in Int /\ 0 <= coeff + c /\ coeff + c < 2 * SigQ /\ coeff + c < 4 * SigQ
    BY SMT, <1>2, <1>4, <1>6
  <2>3. tmp \in 0 .. SigQ - 1 /\ coeff + c - tmp \in {0, SigQ, 2 * SigQ, 3 * SigQ}
    BY <1>0, <1>4, <1>6, <2>2, SigFreeze DEF SigQ
  <2>4. tmp \in Int /\ 0 <= tmp /\ tmp < SigQ /\ coeff + c - tmp \in {0, SigQ}
    BY SMT, <1>2, <1>4, <1>6, <2>2, <2>3
  <2> HIDE DEF tmp
  <2> DEFINE x == tmp + (2 * SigQ - c)
  <2>5. x \in Int /\ 0 <= x /\ x < 4 * SigQ /\ x = tmp + (2 * SigQ - c) /\ back = Sig!Freeze(set, x)
    BY SMT, <1>2, <1>6, <2>4
  <2> HIDE DEF x, back
  <2>6. back \in 0 .. SigQ - 1 /\ x - back \in {0, SigQ, 2 * SigQ, 3 * SigQ}
    BY <1>0, <2>5, SigFreeze DEF SigQ
  <2>7. back = coeff
    BY SMT, <1>2, <1>4, <1>6, <2>4, <2>5, <2>6
  <2>8. Sig!Decompose(set, coeff).high = high
    <3>1. SigValid(set, high, l)
      BY SMT, <1>2, <1>3, <1>4 DEF SigValid
    <3> QED  BY <1>1, <1>3, <1>4, <3>1, SigParts DEF SigQ
  <2>9. -(2 * G - B) < l + y /\ l + y < 2 * G - B
    BY SMT, <1>2, <1>3, <2>1
  <2>10. SigStands(set, tmp, high, l + y)
    <3> DEFINE z == high * (2 * G)
    <3>1. z \in Int
      BY SMT, <1>2, <1>4
    <3>2. coeff - (z + l) \in {-SigQ, 0, SigQ}
      BY <1>3 DEF SigStands, SigQ
    <3>3. 0 <= z /\ z + 2 * G < SigQ
      BY SMT, <1>1, <1>4, SigConstants DEF SigQ
    <3> HIDE DEF z
    <3>4. tmp - (z + (l + y)) \in {-SigQ, 0, SigQ}
      BY SMT, <1>2, <1>3, <1>4, <1>6, <2>1, <2>4, <3>1, <3>2, <3>3
    <3> QED  BY <3>4 DEF SigStands, SigQ, z
  <2>11. /\ coeff' = tmp /\ set' = set /\ high' = high /\ SigQ' = SigQ
         /\ hint' = IF Sig!Decompose(set, tmp).high # high THEN 1 ELSE 0
    BY <1>1, <1>7, <2>7, <2>8 DEF SigQ
  <2>12. SigReady(2 * G - B)'
    BY <1>4, <2>4, <2>9, <2>10, <2>11 DEF SigReady, SigStands
  <2> QED  BY <1>1, <1>7, <2>11, <2>12 DEF SigInv, Sig!SplitIsLossless
<1>8. CASE pcSig' = "rejected"
  BY <1>1, <1>8 DEF SigInv, Sig!SplitIsLossless
<1> QED  BY <1>1, <1>7, <1>8

LEMMA SigReconstruct == ASSUME SigInv, Sig!Reconstruct PROVE SigInv'
<1>1. /\ set \in Sig!Sets /\ SigReady(2 * Sig!Gamma2(set) - Sig!Beta2(set))
      /\ hint = IF Sig!Decompose(set, coeff).high # high THEN 1 ELSE 0
      /\ pcSig' = "done" /\ UNCHANGED <<set, coeff, high, low, hint>>
  BY DEF SigInv, Sig!Reconstruct
<1>2. PICK tmp1 \in {coeff, coeff + SigQ} : found' = Sig!UseHint(set, Sig!Freeze(set, tmp1), hint)
  BY DEF Sig!Reconstruct, Sig!Reduced, Sig!Q, SigQ
<1>3. set \in Sig!Sets /\ SigQ \in Int /\ SigQ > 0
  BY SMT, <1>1, SigConstants DEF SigQ
<1>4. PICK l \in Int : /\ -(2 * Sig!Gamma2(set) - Sig!Beta2(set)) < l
                      /\ l < 2 * Sig!Gamma2(set) - Sig!Beta2(set)
                      /\ SigStands(set, coeff, high, l)
  BY <1>1 DEF SigReady
<1>5. coeff \in Int /\ 0 <= coeff /\ coeff < SigQ /\ high \in 0 .. 5
  BY <1>1 DEF SigReady
<1>6. tmp1 \in Int /\ 0 <= tmp1 /\ tmp1 < 4 * SigQ /\ tmp1 - coeff \in {0, SigQ}
  BY SMT, <1>2, <1>3, <1>5
<1> DEFINE f == Sig!Freeze(set, tmp1)
<1>7. f \in 0 .. SigQ - 1 /\ tmp1 - f \in {0, SigQ, 2 * SigQ, 3 * SigQ}
  BY <1>3, <1>6, SigFreeze DEF SigQ
<1> HIDE DEF f
<1>8. f = coeff
  BY SMT, <1>3, <1>5, <1>6, <1>7
<1>9. Sig!UseHint(set, coeff, hint) = high
  BY <1>1, <1>3, <1>4, <1>5, SigHint DEF SigQ
<1>10. found' = high
  BY <1>2, <1>8, <1>9 DEF f
<1> QED  BY <1>1, <1>10 DEF SigInv, Sig!SplitIsLossless

LEMMA SigStep == SigInv /\ [Sig!Next]_(Sig!vars) => SigInv'
<1> SUFFICES ASSUME SigInv, [Sig!Next]_(Sig!vars) PROVE SigInv'
  OBVIOUS
<1>1. CASE UNCHANGED Sig!vars
  BY <1>1 DEF SigInv, Sig!vars, SigReady, SigPending, SigStands, SigQ, Sig!SplitIsLossless, Sig!Q
<1> QED  BY <1>1, SigSplitT, SigSplitW, SigSubtract, SigHintCt0, SigReconstruct DEF Sig!Next

LEMMA SigClaims == SigInv => Sig!VerifierRecovers /\ Sig!SplitIsLossless
<1> SUFFICES ASSUME SigInv PROVE Sig!VerifierRecovers
  BY DEF SigInv
<1> QED  BY DEF SigInv, Sig!VerifierRecovers, Sig!Q, SigQ

-----------------------------------------------------------------------------
(* Ciphertexts of the KEMs.  Within(q, x, b): x is at most b away from a   *)
(* multiple of q.                                                          *)
Within(q, x, b) == \E j \in Int : -b <= x - j * q /\ x - j * q <= b

LEMMA WithinTurn ==
    ASSUME NEW q \in Int, NEW x \in Int, NEW b \in Int,
           (-b <= x /\ x <= b) \/ (-b <= x + q /\ x + q <= b)
    PROVE  Within(q, x, b)
<1>1. CASE -b <= x /\ x <= b
  <2>1. -b <= x - 0 * q /\ x - 0 * q <= b
    BY SMT, <1>1
  <2> QED  BY <2>1 DEF Within
<1>2. CASE -b <= x + q /\ x + q <= b
  <2>1. -b <= x - (-1) * q /\ x - (-1) * q <= b
    BY SMT, <1>2
  <2> QED  BY SMT, <2>1 DEF Within
<1> QED  BY <1>1, <1>2

BitsWidth(of, d) == <<of, d>> \in MCWidths \cup MCUWidths

LEMMA BitsWidths ==
    ASSUME NEW of, NEW d, BitsWidth(of, d)
    PROVE  \/ of = "kyber" /\ (d = 4 \/ d = 5 \/ d = 10 \/ d = 11)
           \/ of = "aigis_enc" /\ (d = 3 \/ d = 4 \/ d = 5 \/ d = 9 \/ d = 10 \/ d = 11)
BY DEF BitsWidth, MCWidths, MCUWidths

(* poly_compress and poly_decompress: d bits, and the coefficient is back  *)
(* within half a step; the step and the noise leave a quarter of Q.        *)
LEMMA BitsRounding ==
    ASSUME NEW of, NEW d, BitsWidth(of, d), NEW x \in Int, 0 <= x, x < Bits!Modulus(of)
    PROVE  LET q == Bits!Modulus(of)
               y == Bits!Compress(of, d, x)
               z == Bits!Decompress(of, d, y)
               bound == Bits!ErrorBound(q, d)
           IN  /\ y \in 0 .. 2^d - 1
               /\ z \in Int /\ 0 <= z /\ z < q
               /\ Within(q, z - x, bound)
               /\ bound \in Int /\ 0 < bound /\ bound < 500
               /\ Bits!Tolerated(of, d) = q \div 4 - 1 - bound
<1>1. CASE of = "kyber" /\ d = 4
  <2> DEFINE y == Bits!Compress("kyber", 4, x)
             z == Bits!Decompress("kyber", 4, y)
  <2>1. /\ y \in 0 .. 15 /\ z \in Int /\ 0 <= z /\ z < 3329
        /\ \/ -104 <= z - x /\ z - x <= 104
           \/ -104 <= z - x + 3329 /\ z - x + 3329 <= 104
    BY SMT, <1>1 DEF Bits!Compress, Bits!Decompress, Bits!Modulus, Bits!AddIfNegative
  <2> HIDE DEF y, z
  <2>2. Within(3329, z - x, 104)
    BY SMT, <2>1, WithinTurn
  <2>3. /\ Bits!Modulus("kyber") = 3329 /\ Bits!ErrorBound(3329, 4) = 104
        /\ Bits!Tolerated("kyber", 4) = 3329 \div 4 - 1 - 104 /\ 2^4 - 1 = 15
    BY DEF Bits!Modulus, Bits!ErrorBound, Bits!Tolerated
  <2> QED  BY <1>1, <2>1, <2>2, <2>3 DEF y, z
<1>2. CASE of = "kyber" /\ d = 5
  <2> DEFINE y == Bits!Compress("kyber", 5, x)
             z == Bits!Decompress("kyber", 5, y)
  <2>1. /\ y \in 0 .. 31 /\ z \in Int /\ 0 <= z /\ z < 3329
        /\ \/ -52 <= z - x /\ z - x <= 52
           \/ -52 <= z - x + 3329 /\ z - x + 3329 <= 52
    BY SMT, <1>2 DEF Bits!Compress, Bits!Decompress, Bits!Modulus, Bits!AddIfNegative
  <2> HIDE DEF y, z
  <2>2. Within(3329, z - x, 52)
    BY SMT, <2>1, WithinTurn
  <2>3. /\ Bits!Modulus("kyber") = 3329 /\ Bits!ErrorBound(3329, 5) = 52
        /\ Bits!Tolerated("kyber", 5) = 3329 \div 4 - 1 - 52 /\ 2^5 - 1 = 31
    BY DEF Bits!Modulus, Bits!ErrorBound, Bits!Tolerated
  <2> QED  BY <1>2, <2>1, <2>2, <2>3 DEF y, z
<1>3. CASE of = "kyber" /\ d = 10
  <2> DEFINE y == Bits!Compress("kyber", 10, x)
             z == Bits!Decompress("kyber", 10, y)
  <2>1. /\ y \in 0 .. 1023 /\ z \in Int /\ 0 <= z /\ z < 3329
        /\ \/ -2 <= z - x /\ z - x <= 2
           \/ -2 <= z - x + 3329 /\ z - x + 3329 <= 2
    BY SMT, <1>3 DEF Bits!Compress, Bits!Decompress, Bits!Modulus, Bits!AddIfNegative
  <2> HIDE DEF y, z
  <2>2. Within(3329, z - x, 2)
    BY SMT, <2>1, WithinTurn
  <2>3. /\ Bits!Modulus("kyber") = 3329 /\ Bits!ErrorBound(3329, 10) = 2
        /\ Bits!Tolerated("kyber", 10) = 3329 \div 4 - 1 - 2 /\ 2^10 - 1 = 1023
    BY DEF Bits!Modulus, Bits!ErrorBound, Bits!Tolerated
  <2> QED  BY <1>3, <2>1, <2>2, <2>3 DEF y, z
<1>4. CASE of = "kyber" /\ d = 11
  <2> DEFINE y == Bits!Compress("kyber", 11, x)
             z == Bits!Decompress("kyber", 11, y)
  <2>1. /\ y \in 0 .. 2047 /\ z \in Int /\ 0 <= z /\ z < 3329
        /\ \/ -1 <= z - x /\ z - x <= 1
           \/ -1 <= z - x + 3329 /\ z - x + 3329 <= 1
    BY SMT, <1>4 DEF Bits!Compress, Bits!Decompress, Bits!Modulus, Bits!AddIfNegative
  <2> HIDE DEF y, z
  <2>2. Within(3329, z - x, 1)
    BY SMT, <2>1, WithinTurn
  <2>3. /\ Bits!Modulus("kyber") = 3329 /\ Bits!ErrorBound(3329, 11) = 1
        /\ Bits!Tolerated("kyber", 11) = 3329 \div 4 - 1 - 1 /\ 2^11 - 1 = 2047
    BY SMTT(30) DEF Bits!Modulus, Bits!ErrorBound, Bits!Tolerated
  <2> QED  BY <1>4, <2>1, <2>2, <2>3 DEF y, z
<1>5. CASE of = "aigis_enc" /\ d = 3
  <2> DEFINE y == Bits!Compress("aigis_enc", 3, x)
             z == Bits!Decompress("aigis_enc", 3, y)
  <2>1. /\ y \in 0 .. 7 /\ z \in Int /\ 0 <= z /\ z < 7681
        /\ \/ -480 <= z - x /\ z - x <= 480
           \/ -480 <= z - x + 7681 /\ z - x + 7681 <= 480
    BY SMT, <1>5 DEF Bits!Compress, Bits!Decompress, Bits!Modulus, Bits!AddIfNegative
  <2> HIDE DEF y, z
  <2>2. Within(7681, z - x, 480)
    BY SMT, <2>1, WithinTurn
  <2>3. /\ Bits!Modulus("aigis_enc") = 7681 /\ Bits!ErrorBound(7681, 3) = 480
        /\ Bits!Tolerated("aigis_enc", 3) = 7681 \div 4 - 1 - 480 /\ 2^3 - 1 = 7
    BY DEF Bits!Modulus, Bits!ErrorBound, Bits!Tolerated
  <2> QED  BY <1>5, <2>1, <2>2, <2>3 DEF y, z
<1>6. CASE of = "aigis_enc" /\ d = 4
  <2> DEFINE y == Bits!Compress("aigis_enc", 4, x)
             z == Bits!Decompress("aigis_enc", 4, y)
  <2>1. /\ y \in 0 .. 15 /\ z \in Int /\ 0 <= z /\ z < 7681
        /\ \/ -240 <= z - x /\ z - x <= 240
           \/ -240 <= z - x + 7681 /\ z - x + 7681 <= 240
    BY SMT, <1>6 DEF Bits!Compress, Bits!Decompress, Bits!Modulus, Bits!AddIfNegative
  <2> HIDE DEF y, z
  <2>2. Within(7681, z - x, 240)
    BY SMT, <2>1, WithinTurn
  <2>3. /\ Bits!Modulus("aigis_enc") = 7681 /\ Bits!ErrorBound(7681, 4) = 240
        /\ Bits!Tolerated("aigis_enc", 4) = 7681 \div 4 - 1 - 240 /\ 2^4 - 1 = 15
    BY DEF Bits!Modulus, Bits!ErrorBound, Bits!Tolerated
  <2> QED  BY <1>6, <2>1, <2>2, <2>3 DEF y, z
<1>7. CASE of = "aigis_enc" /\ d = 5
  <2> DEFINE y == Bits!Compress("aigis_enc", 5, x)
             z == Bits!Decompress("aigis_enc", 5, y)
  <2>1. /\ y \in 0 .. 31 /\ z \in Int /\ 0 <= z /\ z < 7681
        /\ \/ -120 <= z - x /\ z - x <= 120
           \/ -120 <= z - x + 7681 /\ z - x + 7681 <= 120
    BY SMT, <1>7 DEF Bits!Compress, Bits!Decompress, Bits!Modulus, Bits!AddIfNegative
  <2> HIDE DEF y, z
  <2>2. Within(7681, z - x, 120)
    BY SMT, <2>1, WithinTurn
  <2>3. /\ Bits!Modulus("aigis_enc") = 7681 /\ Bits!ErrorBound(7681, 5) = 120
        /\ Bits!Tolerated("aigis_enc", 5) = 7681 \div 4 - 1 - 120 /\ 2^5 - 1 = 31
    BY DEF Bits!Modulus, Bits!ErrorBound, Bits!Tolerated
  <2> QED  BY <1>7, <2>1, <2>2, <2>3 DEF y, z
<1>8. CASE of = "aigis_enc" /\ d = 9
  <2> DEFINE y == Bits!Compress("aigis_enc", 9, x)
             z == Bits!Decompress("aigis_enc", 9, y)
  <2>1. /\ y \in 0 .. 511 /\ z \in Int /\ 0 <= z /\ z < 7681
        /\ \/ -8 <= z - x /\ z - x <= 8
           \/ -8 <= z - x + 7681 /\ z - x + 7681 <= 8
    BY SMT, <1>8 DEF Bits!Compress, Bits!Decompress, Bits!Modulus, Bits!AddIfNegative
  <2> HIDE DEF y, z
  <2>2. Within(7681, z - x, 8)
    BY SMT, <2>1, WithinTurn
  <2>3. /\ Bits!Modulus("aigis_enc") = 7681 /\ Bits!ErrorBound(7681, 9) = 8
        /\ Bits!Tolerated("aigis_enc", 9) = 7681 \div 4 - 1 - 8 /\ 2^9 - 1 = 511
    BY DEF Bits!Modulus, Bits!ErrorBound, Bits!Tolerated
  <2> QED  BY <1>8, <2>1, <2>2, <2>3 DEF y, z
<1>9. CASE of = "aigis_enc" /\ d = 10
  <2> DEFINE y == Bits!Compress("aigis_enc", 10, x)
             z == Bits!Decompress("aigis_enc", 10, y)
  <2>1. /\ y \in 0 .. 1023 /\ z \in Int /\ 0 <= z /\ z < 7681
        /\ \/ -4 <= z - x /\ z - x <= 4
           \/ -4 <= z - x + 7681 /\ z - x + 7681 <= 4
    BY SMT, <1>9 DEF Bits!Compress, Bits!Decompress, Bits!Modulus, Bits!AddIfNegative
  <2> HIDE DEF y, z
  <2>2. Within(7681, z - x, 4)
    BY SMT, <2>1, WithinTurn
  <2>3. /\ Bits!Modulus("aigis_enc") = 7681 /\ Bits!ErrorBound(7681, 10) = 4
        /\ Bits!Tolerated("aigis_enc", 10) = 7681 \div 4 - 1 - 4 /\ 2^10 - 1 = 1023
    BY DEF Bits!Modulus, Bits!ErrorBound, Bits!Tolerated
  <2> QED  BY <1>9, <2>1, <2>2, <2>3 DEF y, z
<1>10. CASE of = "aigis_enc" /\ d = 11
  <2> DEFINE y == Bits!Compress("aigis_enc", 11, x)
             z == Bits!Decompress("aigis_enc", 11, y)
  <2>1. /\ y \in 0 .. 2047 /\ z \in Int /\ 0 <= z /\ z < 7681
        /\ \/ -2 <= z - x /\ z - x <= 2
           \/ -2 <= z - x + 7681 /\ z - x + 7681 <= 2
    BY SMT, <1>10 DEF Bits!Compress, Bits!Decompress, Bits!Modulus, Bits!AddIfNegative
  <2> HIDE DEF y, z
  <2>2. Within(7681, z - x, 2)
    BY SMT, <2>1, WithinTurn
  <2>3. /\ Bits!Modulus("aigis_enc") = 7681 /\ Bits!ErrorBound(7681, 11) = 2
        /\ Bits!Tolerated("aigis_enc", 11) = 7681 \div 4 - 1 - 2 /\ 2^11 - 1 = 2047
    BY SMTT(30) DEF Bits!Modulus, Bits!ErrorBound, Bits!Tolerated
  <2> QED  BY <1>10, <2>1, <2>2, <2>3 DEF y, z
<1> QED  BY BitsWidths, <1>1, <1>2, <1>3, <1>4, <1>5, <1>6, <1>7, <1>8, <1>9, <1>10

LEMMA BitsSchemes ==
    ASSUME NEW of, NEW d, BitsWidth(of, d)
    PROVE  \/ of = "kyber" /\ Bits!Modulus(of) = 3329
           \/ of = "aigis_enc" /\ Bits!Modulus(of) = 7681
BY BitsWidths DEF Bits!Modulus

(* A representative that lies within b of a multiple of Q is centred to a  *)
(* number of that size.                                                    *)
LEMMA BitsCentred ==
    ASSUME NEW q \in {3329, 7681}, NEW x \in Int, NEW b \in Int, b < 500, Within(q, x, b)
    PROVE  Bits!Abs(Bits!Centred(q, x)) <= b
<1>1. PICK j \in Int : -b <= x - j * q /\ x - j * q <= b
  BY DEF Within
<1> DEFINE y == x - j * q
           r == x % q
<1>2. CASE q = 3329
  <2>1. y \in Int /\ x = y + j * 3329 /\ -b <= y /\ y <= b
    BY SMT, <1>1, <1>2
  <2> HIDE DEF y
  <2>2. r = y \/ r = y + 3329
    BY SMT, <1>2, <2>1
  <2> HIDE DEF r
  <2>3. Bits!Centred(q, x) = y
    <3>1. Bits!Centred(q, x) = IF r > 1664 THEN r - 3329 ELSE r
      BY <1>2 DEF Bits!Centred, r
    <3> QED  BY SMT, <2>1, <2>2, <3>1
  <2> QED  BY SMT, <2>1, <2>3 DEF Bits!Abs
<1>3. CASE q = 7681
  <2>1. y \in Int /\ x = y + j * 7681 /\ -b <= y /\ y <= b
    BY SMT, <1>1, <1>3
  <2> HIDE DEF y
  <2>2. r = y \/ r = y + 7681
    BY SMT, <1>3, <2>1
  <2> HIDE DEF r
  <2>3. Bits!Centred(q, x) = y
    <3>1. Bits!Centred(q, x) = IF r > 3840 THEN r - 7681 ELSE r
      BY <1>3 DEF Bits!Centred, r
    <3> QED  BY SMT, <2>1, <2>2, <3>1
  <2> QED  BY SMT, <2>1, <2>3 DEF Bits!Abs
<1> QED  BY <1>2, <1>3

(* barrett_reduce and poly_caddq2, over the range both are given here. *)
LEMMA BitsReduce ==
    ASSUME NEW of, NEW d, BitsWidth(of, d), NEW x \in Int,
           -(2 * Bits!Modulus(of)) <= x,
           of = "kyber" => x <= 2 * Bits!Modulus(of),
           of # "kyber" => x < Bits!Modulus(of)
    PROVE  LET q == Bits!Modulus(of)
               r == Bits!Reduce(of, x)
           IN  /\ r \in Int /\ r < q
               /\ IF of = "kyber" THEN -q < r ELSE 0 <= r
               /\ \E j \in Int : x = r + j * q
<1> DEFINE r == Bits!Reduce(of, x)
<1>1. CASE of = "kyber"
  <2> DEFINE k == (20159 * x + 33554432) \div 67108864
  <2>1. -6658 <= x /\ x <= 6658
    BY SMT, <1>1 DEF Bits!Modulus
  <2>2. /\ k \in Int /\ 67108864 * k <= 20159 * x + 33554432
        /\ 20159 * x + 33554432 < 67108864 * k + 67108864
    BY SMT
  <2>3. r = x - k * 3329
    BY <1>1 DEF Bits!Reduce
  <2> HIDE DEF k, r
  <2>4. k \in Int /\ x = r + k * 3329 /\ -3329 < r /\ r < 3329 /\ r \in Int
    BY SMT, <2>1, <2>2, <2>3
  <2> QED  BY <1>1, <2>4 DEF Bits!Modulus, r
<1>2. CASE of # "kyber"
  <2>1. -15362 <= x /\ x < 7681
    BY SMT, <1>2 DEF Bits!Modulus
  <2>2. /\ r \in Int /\ 0 <= r /\ r < 7681
        /\ x = r \/ x = r - 7681 \/ x = r - 2 * 7681
    BY SMT, <1>2, <2>1 DEF Bits!Reduce, Bits!AddIfNegative
  <2> HIDE DEF r
  <2> DEFINE k == IF x = r THEN 0 ELSE IF x = r - 7681 THEN -1 ELSE -2
  <2>3. k \in Int /\ x = r + k * 7681
    BY SMT, <2>2
  <2> HIDE DEF k
  <2> QED  BY <1>2, <2>2, <2>3 DEF Bits!Modulus, r
<1> QED  BY <1>1, <1>2

(* poly_tomsg reads through an error below a quarter of Q. *)
LEMMA BitsRead ==
    ASSUME NEW of, NEW d, BitsWidth(of, d), NEW x \in Int, NEW bit \in {0, 1},
           IF of = "kyber" THEN -Bits!Modulus(of) < x ELSE 0 <= x,
           x < Bits!Modulus(of),
           Within(Bits!Modulus(of), x - Bits!FromBit(Bits!Modulus(of), bit), Bits!Modulus(of) \div 4 - 1)
    PROVE  Bits!ToBit(of, x) = bit
<1>1. CASE of = "kyber"
  <2>1. PICK j \in Int : -831 <= x - bit * 1665 - j * 3329 /\ x - bit * 1665 - j * 3329 <= 831
    BY SMT, <1>1 DEF Within, Bits!Modulus, Bits!FromBit
  <2>2. -3329 < x /\ x < 3329
    BY <1>1 DEF Bits!Modulus
  <2>3. bit = 0 \/ bit = 1
    OBVIOUS
  <2>4. ((2 * (IF x < 0 THEN x + 3329 ELSE x) + 1664) \div 3329) % 2 = bit
    BY SMT, <2>1, <2>2, <2>3
  <2> QED  BY SMT, <1>1, <2>4 DEF Bits!ToBit, Bits!Modulus, Bits!AddIfNegative
<1>2. CASE of = "aigis_enc"
  <2>1. PICK j \in Int : -1919 <= x - bit * 3841 - j * 7681 /\ x - bit * 3841 - j * 7681 <= 1919
    BY SMT, <1>2 DEF Within, Bits!Modulus, Bits!FromBit
  <2>2. 0 <= x /\ x < 7681
    BY <1>2 DEF Bits!Modulus
  <2>3. bit = 0 \/ bit = 1
    OBVIOUS
  <2>4. ((2 * x + 3840) \div 7681) % 2 = bit
    BY SMT, <2>1, <2>2, <2>3
  <2> QED  BY SMT, <1>2, <2>4 DEF Bits!ToBit, Bits!Modulus
<1> QED  BY <1>1, <1>2, BitsSchemes

(* What poly_compress is given: a residue as the reduction leaves it. *)
Reduced(of, x) ==
    /\ x \in Int /\ x < Bits!Modulus(of)
    /\ IF of = "kyber" THEN -Bits!Modulus(of) < x ELSE 0 <= x

LEMMA BitsPacked ==
    ASSUME NEW of, NEW d, BitsWidth(of, d), NEW x, Reduced(of, x)
    PROVE  LET q == Bits!Modulus(of)
               y == Bits!Compress(of, d, x)
               z == Bits!Decompress(of, d, y)
               bound == Bits!ErrorBound(q, d)
           IN  /\ y \in 0 .. 2^d - 1
               /\ z \in Int /\ 0 <= z /\ z < q
               /\ Within(q, z - x, bound)
               /\ bound \in Int /\ 0 < bound /\ bound < 500
               /\ Bits!Tolerated(of, d) = q \div 4 - 1 - bound
<1> DEFINE q == Bits!Modulus(of)
           X == Bits!AddIfNegative(q, x)
           z == Bits!Decompress(of, d, Bits!Compress(of, d, x))
           bound == Bits!ErrorBound(q, d)
<1>1. CASE x < 0
  <2>1. of = "kyber" /\ q = 3329 /\ x \in Int /\ -3329 < x
    BY SMT, <1>1, BitsSchemes DEF Reduced
  <2>2. X \in Int /\ 0 <= X /\ X < 3329 /\ X = x + 3329 /\ Bits!AddIfNegative(q, X) = X
    BY SMT, <1>1, <2>1 DEF Bits!AddIfNegative
  <2>3. Bits!Compress(of, d, x) = Bits!Compress(of, d, X)
    BY <2>1, <2>2 DEF Bits!Compress
  <2> HIDE DEF X
  <2>4. /\ Bits!Compress(of, d, x) \in 0 .. 2^d - 1
        /\ z \in Int /\ 0 <= z /\ z < q
        /\ Within(q, z - X, bound)
        /\ bound \in Int /\ 0 < bound /\ bound < 500
        /\ Bits!Tolerated(of, d) = q \div 4 - 1 - bound
    BY <2>1, <2>2, <2>3, BitsRounding
  <2> HIDE DEF z, bound, q
  <2>5. PICK j \in Int : -bound <= z - X - j * q /\ z - X - j * q <= bound
    BY <2>4 DEF Within
  <2>6. -bound <= z - x - (j + 1) * q /\ z - x - (j + 1) * q <= bound
    BY SMT, <2>1, <2>2, <2>4, <2>5
  <2>7. Within(q, z - x, bound)
    BY <2>6 DEF Within
  <2> QED  BY <2>4, <2>7 DEF z, bound, q
<1>2. CASE ~(x < 0)
  <2>1. x \in Int /\ 0 <= x /\ x < Bits!Modulus(of)
    BY SMT, <1>2 DEF Reduced
  <2> QED  BY <2>1, BitsRounding
<1> QED  BY <1>1, <1>2

-----------------------------------------------------------------------------
(* One coefficient on its way: what is added to it is known modulo Q at    *)
(* every step, up to the error of the rounding and then to the noise.      *)
BitsQ == Bits!Modulus(task.of)
BitsError == Bits!ErrorBound(BitsQ, task.d)
BitsMessage == LET m == Bits!FromBit(BitsQ, task.bit) IN IF task.of = "kyber" THEN m ELSE -m

BitsTask ==
    /\ BitsWidth(task.of, task.d) /\ task.bit \in {0, 1}
    /\ task.x \in Bits!Transformed(task.of)
    /\ task.e \in -Bits!Eta(task.of) .. Bits!Eta(task.of)
    /\ task.n \in -Bits!Tolerated(task.of, task.d) .. Bits!Tolerated(task.of, task.d)

BitsFresh(x) ==
    /\ Reduced(task.of, x)
    /\ \E j \in Int : task.x + task.e + BitsMessage = x + j * BitsQ

BitsInv ==
    pcBit # "none" =>
    /\ BitsTask
    /\ pcBit = "encode" => rounded = task.x
    /\ pcBit = "pack" => BitsFresh(rounded)
    /\ pcBit = "unpack" => /\ BitsFresh(sent) /\ rounded = Bits!Compress(task.of, task.d, sent)
                           /\ rounded \in 0 .. 2^task.d - 1
    /\ pcBit \in {"subtract", "done"} =>
           /\ rounded \in Int /\ 0 <= rounded /\ rounded < BitsQ
           /\ BitsFresh(sent) /\ Within(BitsQ, rounded - sent, BitsError)
    /\ pcBit = "decode" =>
           /\ Reduced(task.of, rounded)
           /\ Within(BitsQ, rounded - Bits!FromBit(BitsQ, task.bit), BitsQ \div 4 - 1)
    /\ pcBit = "read" => rounded = task.bit

(* The constants of the task at hand, all at once. *)
LEMMA BitsKnown ==
    ASSUME BitsTask
    PROVE  /\ \/ task.of = "kyber" /\ BitsQ = 3329 /\ BitsMessage = task.bit * 1665
                 /\ Bits!FromBit(BitsQ, task.bit) = task.bit * 1665
                 /\ task.x \in Int /\ -3328 <= task.x /\ task.x <= 3328
              \/ task.of = "aigis_enc" /\ BitsQ = 7681 /\ BitsMessage = -(task.bit * 3841)
                 /\ Bits!FromBit(BitsQ, task.bit) = task.bit * 3841
                 /\ task.x \in Int /\ -7441 <= task.x /\ task.x <= 7441
           /\ task.bit = 0 \/ task.bit = 1
           /\ task.e \in Int /\ -8 <= task.e /\ task.e <= 8
           /\ task.of = "kyber" => -2 <= task.e /\ task.e <= 2
           /\ task.n \in Int
           /\ -(BitsQ \div 4 - 1 - BitsError) <= task.n /\ task.n <= BitsQ \div 4 - 1 - BitsError
           /\ BitsError \in Int /\ 0 < BitsError /\ BitsError < 500
<1>1. BitsWidth(task.of, task.d)
  BY DEF BitsTask
<1>2. /\ BitsError \in Int /\ 0 < BitsError /\ BitsError < 500
      /\ Bits!Tolerated(task.of, task.d) = BitsQ \div 4 - 1 - BitsError
  <2>1. 0 \in Int /\ 0 <= 0 /\ 0 < Bits!Modulus(task.of)
    BY SMT, <1>1, BitsSchemes
  <2> QED  BY <1>1, <2>1, BitsRounding DEF BitsError, BitsQ
<1>3. /\ \/ task.of = "kyber" /\ BitsQ = 3329
         \/ task.of = "aigis_enc" /\ BitsQ = 7681
  BY <1>1, BitsSchemes DEF BitsQ
<1>4. task.bit = 0 \/ task.bit = 1
  BY DEF BitsTask
<1>5. IF task.of = "kyber" THEN Bits!FromBit(BitsQ, task.bit) = task.bit * 1665
                           ELSE Bits!FromBit(BitsQ, task.bit) = task.bit * 3841
  BY SMT, <1>3, <1>4 DEF Bits!FromBit
<1>6. /\ task.x \in Int /\ task.e \in Int /\ -8 <= task.e /\ task.e <= 8
      /\ task.of = "kyber" => -3328 <= task.x /\ task.x <= 3328 /\ -2 <= task.e /\ task.e <= 2
      /\ task.of # "kyber" => -7441 <= task.x /\ task.x <= 7441
  <2> DEFINE most == IF task.of = "kyber" THEN 3328 ELSE 7441
             eta == IF task.of = "kyber" THEN 2 ELSE 8
  <2>1. task.x \in -most .. most /\ task.e \in -eta .. eta
    BY DEF BitsTask, Bits!Transformed, Bits!Eta
  <2>2. /\ most \in Int /\ eta \in Int
        /\ task.of = "kyber" => most = 3328 /\ eta = 2
        /\ task.of # "kyber" => most = 7441 /\ eta = 8
    BY SMT
  <2> HIDE DEF most, eta
  <2> QED  BY SMT, <2>1, <2>2
<1>7. /\ task.n \in Int
      /\ -(BitsQ \div 4 - 1 - BitsError) <= task.n /\ task.n <= BitsQ \div 4 - 1 - BitsError
  <2> DEFINE T == BitsQ \div 4 - 1 - BitsError
  <2>1. task.n \in -T .. T
    BY <1>2 DEF BitsTask
  <2>2. T \in Int
    BY SMT, <1>2, <1>3
  <2> HIDE DEF T
  <2>3. task.n \in Int /\ -T <= task.n /\ task.n <= T
    BY SMT, <2>1, <2>2
  <2> QED  BY <2>3 DEF T
<1> QED  BY <1>2, <1>3, <1>4, <1>5, <1>6, <1>7 DEF BitsMessage

LEMMA BitsInit == Bits!Init => BitsInv
<1> SUFFICES ASSUME Bits!Init PROVE BitsInv
  OBVIOUS
<1>1. CASE \E width \in MCWidths, bit \in {0, 1} :
             \E x \in Bits!Steps(width[1], width[2]), e \in Bits!Noises(Bits!Eta(width[1])),
                n \in Bits!Noises(Bits!Tolerated(width[1], width[2])) :
                task = [kind |-> "v", of |-> width[1], d |-> width[2], bit |-> bit,
                        x |-> x, e |-> e, n |-> n]
  <2>1. PICK width \in MCWidths, bit \in {0, 1} :
             \E x \in Bits!Steps(width[1], width[2]), e \in Bits!Noises(Bits!Eta(width[1])),
                n \in Bits!Noises(Bits!Tolerated(width[1], width[2])) :
                task = [kind |-> "v", of |-> width[1], d |-> width[2], bit |-> bit,
                        x |-> x, e |-> e, n |-> n]
    BY <1>1
  <2>2. PICK x \in Bits!Steps(width[1], width[2]), e \in Bits!Noises(Bits!Eta(width[1])),
             n \in Bits!Noises(Bits!Tolerated(width[1], width[2])) :
             task = [kind |-> "v", of |-> width[1], d |-> width[2], bit |-> bit,
                     x |-> x, e |-> e, n |-> n]
    BY <2>1
  <2>3. BitsWidth(width[1], width[2])
    BY <2>1 DEF BitsWidth, MCWidths
  <2>4. BitsTask
    BY <2>2, <2>3 DEF BitsTask, Bits!Steps, Bits!Noises
  <2> QED  BY <2>4 DEF BitsInv, Bits!Init
<1>2. CASE \E width \in MCUWidths : \E x \in Bits!Steps(width[1], width[2]) :
             task = [kind |-> "u", of |-> width[1], d |-> width[2], bit |-> 0,
                     x |-> x, e |-> 0, n |-> 0]
  <2>1. PICK width \in MCUWidths : \E x \in Bits!Steps(width[1], width[2]) :
             task = [kind |-> "u", of |-> width[1], d |-> width[2], bit |-> 0,
                     x |-> x, e |-> 0, n |-> 0]
    BY <1>2
  <2>2. PICK x \in Bits!Steps(width[1], width[2]) :
             task = [kind |-> "u", of |-> width[1], d |-> width[2], bit |-> 0,
                     x |-> x, e |-> 0, n |-> 0]
    BY <2>1
  <2>3. BitsWidth(width[1], width[2])
    BY <2>1 DEF BitsWidth, MCUWidths
  <2>4. 0 \in -Bits!Eta(width[1]) .. Bits!Eta(width[1])
    BY SMT DEF Bits!Eta
  <2>5. 0 \in -Bits!Tolerated(width[1], width[2]) .. Bits!Tolerated(width[1], width[2])
    <3>1. 0 \in Int /\ 0 <= 0 /\ 0 < Bits!Modulus(width[1])
      BY SMT, <2>3, BitsSchemes
    <3> DEFINE T == Bits!Tolerated(width[1], width[2])
               bound == Bits!ErrorBound(Bits!Modulus(width[1]), width[2])
    <3>2. bound \in Int /\ 0 < bound /\ bound < 500 /\ T = Bits!Modulus(width[1]) \div 4 - 1 - bound
      BY <2>3, <3>1, BitsRounding
    <3> HIDE DEF T, bound
    <3>3. T \in Int /\ 0 <= T
      <4>1. width[1] = "kyber" \/ width[1] = "aigis_enc"
        BY <2>1 DEF MCUWidths
      <4> QED  BY SMT, <3>2, <4>1, BitsSchemes, <2>3
    <3> QED  BY SMT, <3>3 DEF T
  <2>6. BitsTask
    BY <2>2, <2>3, <2>4, <2>5 DEF BitsTask, Bits!Steps
  <2> QED  BY <2>6 DEF BitsInv, Bits!Init
<1> QED  BY <1>1, <1>2 DEF Bits!Init

LEMMA BitsEncode == ASSUME BitsInv, Bits!Encode PROVE BitsInv'
<1> DEFINE S == rounded + task.e + BitsMessage
<1>1. /\ BitsTask /\ rounded = task.x /\ pcBit' = "pack" /\ task' = task
      /\ rounded' = Bits!Reduce(task.of, S)
  BY DEF BitsInv, Bits!Encode, BitsMessage, BitsQ, Bits!Q
<1>2. BitsWidth(task.of, task.d) /\ S = task.x + task.e + BitsMessage
  BY <1>1 DEF BitsTask
<1>3. /\ S \in Int /\ -(2 * BitsQ) <= S
      /\ task.of = "kyber" => S <= 2 * BitsQ
      /\ task.of # "kyber" => S < BitsQ
  BY SMT, <1>1, <1>2, BitsKnown
<1> HIDE DEF S
<1>4. BitsFresh(rounded')
  BY <1>1, <1>2, <1>3, BitsReduce DEF BitsFresh, Reduced, BitsQ
<1>5. BitsFresh(rounded)'
  BY <1>1, <1>4 DEF BitsFresh, BitsMessage, BitsQ
<1> QED  BY <1>1, <1>5 DEF BitsInv, BitsTask

LEMMA BitsPack == ASSUME BitsInv, Bits!Pack PROVE BitsInv'
<1>1. /\ BitsTask /\ BitsFresh(rounded) /\ pcBit' = "unpack" /\ task' = task
      /\ sent' = rounded /\ rounded' = Bits!Compress(task.of, task.d, rounded)
  BY DEF BitsInv, Bits!Pack
<1>2. rounded' \in 0 .. 2^task.d - 1
  BY <1>1, BitsPacked DEF BitsTask, BitsFresh
<1>3. BitsFresh(sent)' /\ BitsTask'
  BY <1>1 DEF BitsTask, BitsFresh, BitsMessage, BitsQ
<1>4. rounded' = Bits!Compress(task.of, task.d, sent)'
  BY <1>1
<1>5. rounded' \in (0 .. 2^task.d - 1)'
  BY <1>1, <1>2
<1> QED  BY <1>1, <1>3, <1>4, <1>5 DEF BitsInv

LEMMA BitsUnpack == ASSUME BitsInv, Bits!Unpack PROVE BitsInv'
<1>1. /\ BitsTask /\ BitsFresh(sent) /\ pcBit' \in {"subtract", "done"}
      /\ task' = task /\ sent' = sent
      /\ rounded' = Bits!Decompress(task.of, task.d, Bits!Compress(task.of, task.d, sent))
  BY DEF BitsInv, Bits!Unpack
<1>2. /\ rounded' \in Int /\ 0 <= rounded' /\ rounded' < BitsQ
      /\ Within(BitsQ, rounded' - sent, BitsError)
  BY <1>1, BitsPacked DEF BitsTask, BitsFresh, BitsQ, BitsError
<1>3. BitsFresh(sent)' /\ BitsTask' /\ BitsQ' = BitsQ /\ BitsError' = BitsError
  BY <1>1 DEF BitsTask, BitsFresh, BitsMessage, BitsQ, BitsError
<1>4. Within(BitsQ, rounded - sent, BitsError)'
  BY <1>1, <1>2, <1>3 DEF Within
<1> QED  BY <1>1, <1>2, <1>3, <1>4 DEF BitsInv

LEMMA BitsSubtract == ASSUME BitsInv, Bits!Subtract PROVE BitsInv'
<1>1. /\ BitsTask /\ BitsFresh(sent) /\ pcBit' = "decode" /\ task' = task
      /\ rounded \in Int /\ 0 <= rounded /\ rounded < BitsQ
      /\ Within(BitsQ, rounded - sent, BitsError)
  BY DEF BitsInv, Bits!Subtract
<1>2. PICK mp \in {task.x + task.e - task.n + i * BitsQ : i \in -2 .. 2} \cap Bits!Transformed(task.of) :
           rounded' = Bits!Reduce(task.of, IF task.of = "kyber" THEN rounded - mp ELSE mp - rounded)
  BY DEF Bits!Subtract, Bits!Q, BitsQ
<1>3. PICK i \in -2 .. 2 : mp = task.x + task.e - task.n + i * BitsQ
  BY <1>2
<1>4. PICK j \in Int : -BitsError <= rounded - sent - j * BitsQ /\ rounded - sent - j * BitsQ <= BitsError
  BY <1>1 DEF Within
<1>5. PICK k \in Int : task.x + task.e + BitsMessage = sent + k * BitsQ
  BY <1>1 DEF BitsFresh
<1>6. sent \in Int /\ BitsWidth(task.of, task.d)
  BY <1>1 DEF BitsFresh, Reduced, BitsTask
<1>7. mp \in Int /\ -BitsQ < mp /\ mp < BitsQ
  <2> DEFINE most == IF task.of = "kyber" THEN 3328 ELSE 7441
  <2>1. mp \in -most .. most
    BY <1>2 DEF Bits!Transformed
  <2>2. most \in Int /\ most < BitsQ
    BY SMT, <1>1, BitsKnown
  <2> HIDE DEF most
  <2>3. BitsQ \in Int
    BY SMT, <1>1, BitsKnown
  <2> QED  BY SMT, <2>1, <2>2, <2>3
<1> DEFINE diff == IF task.of = "kyber" THEN rounded - mp ELSE mp - rounded
           r == Bits!Reduce(task.of, diff)
           F == Bits!FromBit(BitsQ, task.bit)
<1>8. /\ diff \in Int /\ -(2 * BitsQ) <= diff
      /\ task.of = "kyber" => diff <= 2 * BitsQ
      /\ task.of # "kyber" => diff < BitsQ
  BY SMT, <1>1, <1>7, BitsKnown
<1>9. \E m \in Int : /\ -(BitsQ \div 4 - 1) <= diff - F - m * BitsQ
                     /\ diff - F - m * BitsQ <= BitsQ \div 4 - 1
  <2>1. CASE task.of = "kyber"
    <3> DEFINE m == j - k - i
    <3>1. /\ BitsQ = 3329 /\ F = BitsMessage /\ F \in Int /\ task.x \in Int /\ task.e \in Int
          /\ task.n \in Int /\ -(831 - BitsError) <= task.n /\ task.n <= 831 - BitsError
          /\ BitsError \in Int /\ diff = rounded - mp
      BY SMT, <1>1, <2>1, BitsKnown
    <3> HIDE DEF diff, F
    <3>2. m \in Int /\ -831 <= diff - F - m * 3329 /\ diff - F - m * 3329 <= 831
      BY SMT, <1>1, <1>3, <1>4, <1>5, <1>6, <1>7, <3>1
    <3> HIDE DEF m
    <3>3. BitsQ = 3329
      BY <3>1
    <3>4. BitsQ \div 4 - 1 = 831
      BY SMT, <3>3
    <3>5. /\ -(BitsQ \div 4 - 1) <= diff - F - m * BitsQ
          /\ diff - F - m * BitsQ <= BitsQ \div 4 - 1
      BY SMT, <3>2, <3>3, <3>4
    <3> QED  BY <3>2, <3>5
  <2>2. CASE task.of # "kyber"
    <3> DEFINE m == i + k - j
    <3>1. /\ BitsQ = 7681 /\ F = -BitsMessage /\ BitsMessage \in Int /\ task.x \in Int /\ task.e \in Int
          /\ task.n \in Int /\ -(1919 - BitsError) <= task.n /\ task.n <= 1919 - BitsError
          /\ BitsError \in Int /\ diff = mp - rounded
      BY SMT, <1>1, <2>2, BitsKnown
    <3> HIDE DEF diff, F
    <3>2. m \in Int /\ -1919 <= diff - F - m * 7681 /\ diff - F - m * 7681 <= 1919
      BY SMT, <1>1, <1>3, <1>4, <1>5, <1>6, <1>7, <3>1
    <3> HIDE DEF m
    <3>3. BitsQ = 7681
      BY <3>1
    <3>4. BitsQ \div 4 - 1 = 1919
      BY SMT, <3>3
    <3>5. /\ -(BitsQ \div 4 - 1) <= diff - F - m * BitsQ
          /\ diff - F - m * BitsQ <= BitsQ \div 4 - 1
      BY SMT, <3>2, <3>3, <3>4
    <3> QED  BY <3>2, <3>5
  <2> QED  BY <2>1, <2>2
<1> HIDE DEF diff
<1>10. Reduced(task.of, r) /\ \E l \in Int : diff = r + l * BitsQ
  BY <1>6, <1>8, BitsReduce DEF Reduced, BitsQ
<1>11. F \in Int /\ (BitsQ = 3329 \/ BitsQ = 7681)
  BY SMT, <1>1, BitsKnown
<1> HIDE DEF r, F
<1>12. Within(BitsQ, r - F, BitsQ \div 4 - 1)
  <2>1. PICK m \in Int : /\ -(BitsQ \div 4 - 1) <= diff - F - m * BitsQ
                         /\ diff - F - m * BitsQ <= BitsQ \div 4 - 1
    BY <1>9
  <2>2. PICK l \in Int : diff = r + l * BitsQ
    BY <1>10
  <2>3. r \in Int
    BY <1>10 DEF Reduced
  <2> DEFINE n == m - l
  <2>4. n \in Int /\ diff - F - m * BitsQ = r - F - n * BitsQ
    <3>1. CASE BitsQ = 3329
      BY SMT, <1>8, <1>11, <2>2, <2>3, <3>1
    <3>2. CASE BitsQ = 7681
      BY SMT, <1>8, <1>11, <2>2, <2>3, <3>2
    <3> QED  BY <1>11, <3>1, <3>2
  <2> QED  BY <2>1, <2>4 DEF Within
<1>13. rounded' = r /\ BitsQ' = BitsQ /\ BitsTask'
  BY <1>1, <1>2 DEF BitsQ, BitsTask, r, diff
<1>14. Within(BitsQ, rounded - Bits!FromBit(BitsQ, task.bit), BitsQ \div 4 - 1)'
  BY <1>1, <1>12, <1>13 DEF Within, F
<1> QED  BY <1>1, <1>10, <1>13, <1>14 DEF BitsInv, Reduced

LEMMA BitsDecode == ASSUME BitsInv, Bits!Decode PROVE BitsInv'
<1>1. /\ BitsTask /\ Reduced(task.of, rounded) /\ pcBit' = "read" /\ task' = task
      /\ Within(BitsQ, rounded - Bits!FromBit(BitsQ, task.bit), BitsQ \div 4 - 1)
      /\ rounded' = Bits!ToBit(task.of, rounded)
  BY DEF BitsInv, Bits!Decode
<1>2. rounded' = task.bit
  BY <1>1, BitsRead DEF BitsTask, Reduced, BitsQ
<1> QED  BY <1>1, <1>2 DEF BitsInv, BitsTask

LEMMA BitsStep == BitsInv /\ [Bits!Next]_(Bits!vars) => BitsInv'
<1> SUFFICES ASSUME BitsInv, [Bits!Next]_(Bits!vars) PROVE BitsInv'
  OBVIOUS
<1>1. CASE UNCHANGED Bits!vars
  <2>1. task' = task /\ pcBit' = pcBit /\ rounded' = rounded /\ sent' = sent
    BY <1>1 DEF Bits!vars
  <2>2. /\ BitsQ' = BitsQ /\ BitsError' = BitsError
        /\ BitsFresh(rounded)' = BitsFresh(rounded) /\ BitsFresh(sent)' = BitsFresh(sent)
        /\ BitsTask' = BitsTask
    BY <2>1 DEF BitsQ, BitsError, BitsFresh, BitsMessage, Reduced, BitsTask
  <2>3. /\ Within(BitsQ, rounded - sent, BitsError)' = Within(BitsQ, rounded - sent, BitsError)
        /\ Within(BitsQ, rounded - Bits!FromBit(BitsQ, task.bit), BitsQ \div 4 - 1)'
           = Within(BitsQ, rounded - Bits!FromBit(BitsQ, task.bit), BitsQ \div 4 - 1)
    BY <2>1, <2>2 DEF Within
  <2> QED  BY <2>1, <2>2, <2>3 DEF BitsInv, Reduced
<1> QED  BY <1>1, BitsEncode, BitsPack, BitsUnpack, BitsSubtract, BitsDecode DEF Bits!Next

LEMMA BitsClaims == BitsInv => Bits!BitSurvives
<1> SUFFICES ASSUME BitsInv PROVE Bits!BitSurvives
  OBVIOUS
<1>1. pcBit = "unpack" => rounded \in 0 .. 2^task.d - 1
  BY DEF BitsInv
<1>2. ASSUME pcBit \in {"subtract", "done"}
      PROVE  Bits!Abs(Bits!Centred(BitsQ, rounded - sent)) <= BitsError
  <2>1. BitsTask /\ Within(BitsQ, rounded - sent, BitsError) /\ rounded \in Int /\ sent \in Int
    BY <1>2 DEF BitsInv, BitsFresh, Reduced
  <2>2. BitsQ \in {3329, 7681} /\ BitsError \in Int /\ BitsError < 500
    BY <2>1, BitsKnown
  <2>3. rounded - sent \in Int
    BY SMT, <2>1
  <2> QED  BY <2>1, <2>2, <2>3, BitsCentred
<1>3. pcBit = "read" => rounded = task.bit
  BY DEF BitsInv
<1> QED  BY <1>1, <1>2, <1>3 DEF Bits!BitSurvives, Bits!Q, BitsQ, BitsError

-----------------------------------------------------------------------------
(* The transforms.  A loop of one is a level of a tree: it takes a         *)
(* polynomial, block by block, to its residues modulo X^len - root and     *)
(* X^len + root.  Levels, and the products of their results, respect       *)
(* multiplication by X; the code's butterflies are the levels, up to       *)
(* multiples of the modulus, and those of the way back undo them.          *)

(* Residues. *)
Same(q, x, y) == \E d \in Int : x - y = d * q

LEMMA SameSelf == ASSUME NEW q \in Int, NEW x \in Int PROVE Same(q, x, x)
<1>1. x - x = 0 * q
  OBVIOUS
<1> QED  BY <1>1 DEF Same

LEMMA SameTurned ==
    ASSUME NEW q \in Int, NEW x \in Int, NEW y \in Int, Same(q, x, y) PROVE Same(q, y, x)
<1>1. PICK d \in Int : x - y = d * q
  BY DEF Same
<1>2. y - x = (-d) * q /\ -d \in Int
  BY <1>1
<1> QED  BY <1>2 DEF Same

LEMMA SameThrough ==
    ASSUME NEW q \in Int, NEW x \in Int, NEW y \in Int, NEW z \in Int,
           Same(q, x, y), Same(q, y, z)
    PROVE  Same(q, x, z)
<1>1. PICK d \in Int : x - y = d * q
  BY DEF Same
<1>2. PICK e \in Int : y - z = e * q
  BY DEF Same
<1>3. x - z = (d + e) * q /\ d + e \in Int
  BY <1>1, <1>2
<1> QED  BY <1>3 DEF Same

LEMMA SameSum ==
    ASSUME NEW q \in Int, NEW x \in Int, NEW y \in Int, NEW x2 \in Int, NEW y2 \in Int,
           Same(q, x, y), Same(q, x2, y2)
    PROVE  Same(q, x + x2, y + y2) /\ Same(q, x - x2, y - y2)
<1>1. PICK d \in Int : x - y = d * q
  BY DEF Same
<1>2. PICK e \in Int : x2 - y2 = e * q
  BY DEF Same
<1>3. (x + x2) - (y + y2) = (d + e) * q /\ d + e \in Int
  BY <1>1, <1>2
<1>4. (x - x2) - (y - y2) = (d - e) * q /\ d - e \in Int
  BY <1>1, <1>2
<1> QED  BY <1>3, <1>4 DEF Same

LEMMA SameTimes ==
    ASSUME NEW q \in Int, NEW x \in Int, NEW y \in Int, NEW c \in Int, Same(q, x, y)
    PROVE  Same(q, c * x, c * y) /\ Same(q, x * c, y * c)
<1>1. PICK d \in Int : x - y = d * q
  BY DEF Same
<1>2. c * x - c * y = c * (x - y) /\ x * c - y * c = c * (x - y)
  OBVIOUS
<1>3. c * (d * q) = (c * d) * q /\ c * d \in Int
  BY <1>1
<1> QED  BY <1>1, <1>2, <1>3 DEF Same

LEMMA SameProduct ==
    ASSUME NEW q \in Int, NEW x \in Int, NEW y \in Int, NEW x2 \in Int, NEW y2 \in Int,
           Same(q, x, y), Same(q, x2, y2)
    PROVE  Same(q, x * x2, y * y2)
<1>1. Same(q, x * x2, y * x2)
  BY SameTimes
<1>2. Same(q, y * x2, y * y2)
  BY SameTimes
<1>3. x * x2 \in Int /\ y * x2 \in Int /\ y * y2 \in Int
  OBVIOUS
<1> QED  BY <1>1, <1>2, <1>3, SameThrough

(* What is left of a division is the same residue. *)
LEMMA Divided ==
    ASSUME NEW x \in Int, NEW q \in Nat \ {0}
    PROVE  x = q * (x \div q) + (x % q) /\ x \div q \in Int /\ x % q \in 0 .. q - 1
BY SMT

LEMMA NoMultiple == ASSUME NEW q \in Nat \ {0}, NEW d \in Int, NEW r \in 0 .. q - 1, d * q = r PROVE r = 0
<1>1. ASSUME d > 0 PROVE FALSE
  <2>1. (d - 1) * q >= 0 /\ (d - 1) * q = d * q - q
    BY <1>1
  <2> QED  BY <2>1
<1>2. ASSUME d < 0 PROVE FALSE
  <2>1. (-d) * q > 0 /\ (-d) * q = -(d * q)
    BY <1>2
  <2> QED  BY <2>1
<1>3. d = 0
  BY <1>1, <1>2
<1> QED  BY <1>3

LEMMA ReducedSame ==
    ASSUME NEW q \in Nat \ {0}, NEW x \in Int PROVE x % q \in Int /\ Same(q, x % q, x)
<1>1. PICK d \in Int, r \in Int : r = x % q /\ x = q * d + r
  <2>1. x = q * (x \div q) + (x % q) /\ x \div q \in Int /\ x % q \in 0 .. q - 1
    BY Divided
  <2>2. PICK d, r : d = x \div q /\ r = x % q
    OBVIOUS
  <2>3. d \in Int /\ r \in Int /\ x = q * d + r
    BY <2>1, <2>2
  <2> QED  BY <2>2, <2>3
<1>2. r - x = (-d) * q /\ -d \in Int
  <2>1. (-d) * q = -(q * d)
    OBVIOUS
  <2> QED  BY <1>1, <2>1
<1> QED  BY <1>1, <1>2 DEF Same

LEMMA SameZero ==
    ASSUME NEW q \in Nat \ {0}, NEW x \in Int, NEW y \in Int
    PROVE  Same(q, x, y) <=> (x - y) % q = 0
<1>1. PICK z \in Int : z = x - y
  OBVIOUS
<1>2. PICK e \in Int, r \in 0 .. q - 1 : r = z % q /\ z = q * e + r
  BY Divided
<1>3. ASSUME NEW d \in Int, z = d * q PROVE r = 0
  <2>1. (d - e) * q = d * q - q * e
    OBVIOUS
  <2>2. PICK c \in Int : c * q = r
    BY <1>2, <1>3, <2>1
  <2> QED  BY <2>2, NoMultiple
<1>4. ASSUME r = 0 PROVE z = e * q
  BY <1>2, <1>4
<1> QED  BY <1>1, <1>2, <1>3, <1>4 DEF Same

Arithmetics == {"kyber", "aigis_enc", "ml_dsa"}
Inverse(sc) == CASE sc = "kyber" -> 169 [] sc = "aigis_enc" -> 900 [] sc = "ml_dsa" -> 8265825

LEMMA Moduli ==
    ASSUME NEW sc \in Arithmetics
    PROVE  Transforms!Modulus(sc) \in Nat \ {0} /\ Inverse(sc) \in Int
<1>1. CASE sc = "kyber"
  BY SMT, <1>1 DEF Transforms!Modulus, Inverse
<1>2. CASE sc = "aigis_enc"
  BY SMT, <1>2 DEF Transforms!Modulus, Inverse
<1>3. CASE sc = "ml_dsa"
  BY SMT, <1>3 DEF Transforms!Modulus, Inverse
<1> QED  BY <1>1, <1>2, <1>3 DEF Arithmetics

(* montgomery_reduce of the KEMs divides by 2^16 without a rest. *)
Turns(x, u) == \E m \in Int : u = x - m * 65536
Word16(u) == u \in Int /\ -32768 <= u /\ u <= 32767
Wraps(x, u) == Word16(u) /\ Turns(x, u)
Divisible(x) == \E c \in Int : x = c * 65536

LEMMA Wrapped == ASSUME NEW x \in Int PROVE Wraps(x, Transforms!Int16(x))
<1>1. PICK z \in Int : z = x + 32768
  OBVIOUS
<1>2. PICK m, r : m = z \div 65536 /\ r = z % 65536
  OBVIOUS
<1>3. m \in Int /\ r \in 0 .. 65535 /\ z = 65536 * m + r
  BY <1>2, Divided
<1>4. Transforms!Int16(x) = r - 32768
  BY <1>1, <1>2 DEF Transforms!Int16
<1>5. m \in Int /\ Transforms!Int16(x) = x - m * 65536
  BY <1>1, <1>3, <1>4
<1>6. Word16(Transforms!Int16(x))
  BY <1>3, <1>4 DEF Word16
<1>7. Turns(x, Transforms!Int16(x))
  BY <1>5 DEF Turns
<1> QED  BY <1>6, <1>7 DEF Wraps

LEMMA NotWrapped == ASSUME NEW x, Word16(x) PROVE Transforms!Int16(x) = x
BY SMT DEF Transforms!Int16, Word16

LEMMA DividedExactly ==
    ASSUME NEW x \in Int, Divisible(x)
    PROVE  x \div 65536 \in Int /\ (x \div 65536) * 65536 = x
<1>1. PICK c \in Int : x = c * 65536
  BY DEF Divisible
<1>2. x \div 65536 = c
  BY <1>1
<1> QED  BY <1>1, <1>2

LEMMA KyberReduce ==
    ASSUME NEW x \in Int, NEW u, Wraps((x % 65536) * (-3327), u)
    PROVE  Word16(u) /\ Divisible(x - u * 3329)
<1>1. PICK n, y : n = x \div 65536 /\ y = x % 65536
  OBVIOUS
<1>2. n \in Int /\ y \in Int /\ x = 65536 * n + y
  <2>1. x = 65536 * n + y /\ n \in Int /\ y \in 0 .. 65535
    BY <1>1, Divided
  <2> QED  BY <2>1
<1>3. Word16(u) /\ u \in Int
  BY DEF Wraps, Word16
<1>4. PICK m \in Int : u = y * (-3327) - m * 65536
  <2>1. Turns(y * (-3327), u)
    BY <1>1 DEF Wraps
  <2> QED  BY <2>1 DEF Turns
<1>5. Divisible(x - u * 3329)
  <2>1. PICK c \in Int : c = n + 169 * y + m * 3329
    BY <1>2
  <2>2. x - u * 3329 = c * 65536
    BY <1>2, <1>3, <1>4, <2>1
  <2> QED  BY <2>2 DEF Divisible
<1> QED  BY <1>3, <1>5

LEMMA AigisReduce ==
    ASSUME NEW x \in Int, NEW u, Wraps((x % 65536) * (-7679), u)
    PROVE  Word16(u) /\ Divisible(x - u * 7681)
<1>1. PICK n, y : n = x \div 65536 /\ y = x % 65536
  OBVIOUS
<1>2. n \in Int /\ y \in Int /\ x = 65536 * n + y
  <2>1. x = 65536 * n + y /\ n \in Int /\ y \in 0 .. 65535
    BY <1>1, Divided
  <2> QED  BY <2>1
<1>3. Word16(u) /\ u \in Int
  BY DEF Wraps, Word16
<1>4. PICK m \in Int : u = y * (-7679) - m * 65536
  <2>1. Turns(y * (-7679), u)
    BY <1>1 DEF Wraps
  <2> QED  BY <2>1 DEF Turns
<1>5. Divisible(x - u * 7681)
  <2>1. PICK c \in Int : c = n + 900 * y + m * 7681
    BY <1>2
  <2>2. x - u * 7681 = c * 65536
    BY <1>2, <1>3, <1>4, <2>1
  <2> QED  BY <2>2 DEF Divisible
<1> QED  BY <1>3, <1>5

(* The provers compute with a product as soon as they see one. *)
IsTimes(m, x, y) == m = x * y
Quotient(r, p, u, q) == r * 65536 = p - u * q
Halved(r, x, y, q) ==
    /\ r \in Int
    /\ \E u \in Int, p \in Int : IsTimes(p, x, y) /\ Word16(u) /\ Quotient(r, p, u, q)

(* A product is largest at the corners. *)
Corner(p) == -125829120 <= p /\ p <= 125829120

LEMMA Corners ==
    ASSUME NEW x \in Int, NEW y \in Int, -3840 <= x, x <= 3840, -32768 <= y, y <= 32768
    PROVE  \A p : IsTimes(p, x, y) => Corner(p)
<1>1. PICK c, d, e, f \in Nat : c = 3840 - x /\ d = 3840 + x /\ e = 32768 - y /\ f = 32768 + y
  OBVIOUS
<1>2. PICK p \in Int : p = x * y
  OBVIOUS
<1>3. PICK cf, df, ce, de \in Nat : cf = c * f /\ df = d * f /\ ce = c * e /\ de = d * e
  OBVIOUS
<1>4. cf = 3840 * y + 125829120 - p - 32768 * x
  BY <1>1, <1>2, <1>3
<1>5. df = 3840 * y + 125829120 + p + 32768 * x
  BY <1>1, <1>2, <1>3
<1>6. ce = 125829120 - 3840 * y - 32768 * x + p
  BY <1>1, <1>2, <1>3
<1>7. de = 125829120 - 3840 * y + 32768 * x - p
  BY <1>1, <1>2, <1>3
<1>8. -125829120 <= p /\ p <= 125829120
  BY <1>4, <1>5, <1>6, <1>7
<1> QED  BY <1>2, <1>8 DEF IsTimes, Corner

LEMMA KyberMul ==
    ASSUME NEW x \in Int, NEW y \in Int
    PROVE  Halved(Transforms!FqMul("kyber", x, y), x, y, 3329)
<1>1. PICK p \in Int : p = x * y
  OBVIOUS
<1>2. PICK y2 \in Int : y2 = (p % 65536) * (-3327)
  <2>1. (p % 65536) * (-3327) \in Int
    OBVIOUS
  <2> QED  BY <2>1
<1>3. PICK u : u = Transforms!Int16(y2)
  OBVIOUS
<1>4. Wraps(y2, u)
  BY <1>3, Wrapped
<1>5. Wraps((p % 65536) * (-3327), u)
  BY <1>2, <1>4
<1>6. Word16(u) /\ Divisible(p - u * 3329)
  BY <1>5, KyberReduce
<1>7. u \in Int
  BY <1>6 DEF Word16
<1>8. PICK z \in Int : z = p - u * 3329
  BY <1>7
<1>9. z \div 65536 \in Int /\ (z \div 65536) * 65536 = z
  BY <1>6, <1>8, DividedExactly
<1>10. Transforms!FqMul("kyber", x, y) = z \div 65536
  BY <1>1, <1>2, <1>3, <1>8 DEF Transforms!FqMul, Transforms!QInv, Transforms!Modulus
<1>11. PICK r \in Int : r = z \div 65536
  BY <1>9
<1>12. Transforms!FqMul("kyber", x, y) = r /\ r * 65536 = p - u * 3329
  BY <1>8, <1>9, <1>10, <1>11
<1>13. IsTimes(p, x, y) /\ Quotient(r, p, u, 3329)
  BY <1>1, <1>12 DEF IsTimes, Quotient
<1> QED  BY <1>6, <1>7, <1>11, <1>12, <1>13 DEF Halved

LEMMA KyberSame ==
    ASSUME NEW p \in Int, NEW r \in Int, NEW u \in Int, NEW m \in Int
    PROVE  Quotient(r, p, u, 3329) /\ IsTimes(m, p, 169) => Same(3329, r, m)
<1>1. PICK e \in Int : e = 169 * u + 3327 * r
  OBVIOUS
<1>2. Quotient(r, p, u, 3329) /\ IsTimes(m, p, 169) => r - m = (-e) * 3329
  BY <1>1 DEF Quotient, IsTimes
<1>3. -e \in Int
  OBVIOUS
<1> QED  BY <1>2, <1>3 DEF Same

LEMMA KyberBound ==
    ASSUME NEW p \in Int, NEW r \in Int, NEW u \in Int, Quotient(r, p, u, 3329), Word16(u), Corner(p)
    PROVE  -3584 <= r /\ r <= 3584
BY DEF Word16, Quotient, Corner

LEMMA AigisMul ==
    ASSUME NEW x \in Int, NEW y \in Int
    PROVE  Halved(Transforms!FqMul("aigis_enc", x, y), x, y, 7681)
<1>1. PICK p \in Int : p = x * y
  OBVIOUS
<1>2. PICK y2 \in Int : y2 = (p % 65536) * (-7679)
  <2>1. (p % 65536) * (-7679) \in Int
    OBVIOUS
  <2> QED  BY <2>1
<1>3. PICK u : u = Transforms!Int16(y2)
  OBVIOUS
<1>4. Wraps(y2, u)
  BY <1>3, Wrapped
<1>5. Wraps((p % 65536) * (-7679), u)
  BY <1>2, <1>4
<1>6. Word16(u) /\ Divisible(p - u * 7681)
  BY <1>5, AigisReduce
<1>7. u \in Int
  BY <1>6 DEF Word16
<1>8. PICK z \in Int : z = p - u * 7681
  BY <1>7
<1>9. z \div 65536 \in Int /\ (z \div 65536) * 65536 = z
  BY <1>6, <1>8, DividedExactly
<1>10. Transforms!FqMul("aigis_enc", x, y) = z \div 65536
  BY <1>1, <1>2, <1>3, <1>8 DEF Transforms!FqMul, Transforms!QInv, Transforms!Modulus
<1>11. PICK r \in Int : r = z \div 65536
  BY <1>9
<1>12. Transforms!FqMul("aigis_enc", x, y) = r /\ r * 65536 = p - u * 7681
  BY <1>8, <1>9, <1>10, <1>11
<1>13. IsTimes(p, x, y) /\ Quotient(r, p, u, 7681)
  BY <1>1, <1>12 DEF IsTimes, Quotient
<1> QED  BY <1>6, <1>7, <1>11, <1>12, <1>13 DEF Halved

LEMMA AigisSame ==
    ASSUME NEW p \in Int, NEW r \in Int, NEW u \in Int, NEW m \in Int
    PROVE  Quotient(r, p, u, 7681) /\ IsTimes(m, p, 900) => Same(7681, r, m)
<1>1. PICK e \in Int : e = 900 * u + 7679 * r
  OBVIOUS
<1>2. Quotient(r, p, u, 7681) /\ IsTimes(m, p, 900) => r - m = (-e) * 7681
  BY <1>1 DEF Quotient, IsTimes
<1>3. -e \in Int
  OBVIOUS
<1> QED  BY <1>2, <1>3 DEF Same

LEMMA AigisBound ==
    ASSUME NEW p \in Int, NEW r \in Int, NEW u \in Int, Quotient(r, p, u, 7681), Word16(u), Corner(p)
    PROVE  -5760 <= r /\ r <= 5760
BY DEF Word16, Quotient, Corner

LEMMA TimesSame ==
    ASSUME NEW q \in Int, NEW x \in Int, NEW y \in Int, NEW c \in Int, NEW m \in Int, NEW n \in Int,
           Same(q, x, y), IsTimes(m, x, c), IsTimes(n, y, c)
    PROVE  Same(q, m, n)
<1>1. Same(q, x * c, y * c)
  BY SameTimes
<1> QED  BY <1>1 DEF IsTimes

(* Seven bits more. *)
Seven(q, x, r, bits) == ((r % q) * 128 + (x % q) * bits) % q

LEMMA SevenBits ==
    ASSUME NEW q \in Nat \ {0}, NEW x \in Int, NEW bits \in Int, NEW goal \in Int,
           NEW r \in Int, Same(q, r, x * goal)
    PROVE  /\ Seven(q, x, r, bits) \in Int
           /\ Same(q, Seven(q, x, r, bits), x * (goal * 128 + bits))
<1>1. PICK x2 : x2 = x % q
  OBVIOUS
<1>2. x2 \in Int /\ Same(q, x2, x)
  BY <1>1, ReducedSame
<1>3. PICK r2 : r2 = r % q
  OBVIOUS
<1>4. r2 \in Int /\ Same(q, r2, r)
  BY <1>3, ReducedSame
<1>5. PICK p \in Int : p = x * goal
  OBVIOUS
<1>6. Same(q, r2, p)
  <2>1. Same(q, r, p)
    BY <1>5
  <2> QED  BY <1>4, <2>1, SameThrough
<1>7. Same(q, r2 * 128, p * 128)
  BY <1>4, <1>6, SameTimes
<1>8. Same(q, x2 * bits, x * bits)
  <2>1. PICK x3 \in Int : x3 = x2
    BY <1>2
  <2>2. Same(q, x3, x)
    BY <1>2, <2>1
  <2>3. PICK m \in Int, n \in Int : m = x3 * bits /\ n = x * bits
    OBVIOUS
  <2>4. IsTimes(m, x3, bits) /\ IsTimes(n, x, bits)
    BY <2>3 DEF IsTimes
  <2>5. Same(q, m, n)
    BY <2>2, <2>4, TimesSame
  <2> QED  BY <2>1, <2>3, <2>5
<1>9. PICK m \in Int, m2 \in Int, n \in Int, n2 \in Int :
          m = r2 * 128 /\ m2 = p * 128 /\ n = x2 * bits /\ n2 = x * bits
  <2>1. r2 * 128 \in Int /\ p * 128 \in Int /\ x2 * bits \in Int /\ x * bits \in Int
    BY <1>2, <1>4
  <2> QED  BY <2>1
<1>10. Same(q, m, m2) /\ Same(q, n, n2)
  BY <1>7, <1>8, <1>9
<1>11. Same(q, m + n, m2 + n2)
  BY <1>10, SameSum
<1>12. m2 + n2 = x * (goal * 128 + bits)
  BY <1>5, <1>9
<1>13. PICK z \in Int, z2 \in Int : z = m + n /\ z2 = m2 + n2
  OBVIOUS
<1>14. z % q \in Int /\ Same(q, z % q, z)
  BY ReducedSame
<1>15. Same(q, z, z2)
  BY <1>11, <1>13
<1>16. PICK y \in Int : y = z % q
  BY <1>14
<1>17. Same(q, y, z2)
  <2>1. Same(q, y, z)
    BY <1>14, <1>16
  <2> QED  BY <1>15, <2>1, SameThrough
<1>18. Seven(q, x, r, bits) = y
  BY <1>1, <1>3, <1>9, <1>13, <1>16 DEF Seven
<1>19. z2 = x * (goal * 128 + bits)
  BY <1>12, <1>13
<1> QED  BY <1>17, <1>18, <1>19

Fours(q, x, c3, c2, c1, c0) == Seven(q, x, Seven(q, x, Seven(q, x, Seven(q, x, 0, c3), c2), c1), c0)

IsFours(c, c3, c2, c1, c0) == ((c3 * 128 + c2) * 128 + c1) * 128 + c0 = c

LEMMA FoursSame ==
    ASSUME NEW q \in Nat \ {0}, NEW x \in Int,
           NEW c3 \in Int, NEW c2 \in Int, NEW c1 \in Int, NEW c0 \in Int, NEW c \in Int,
           IsFours(c, c3, c2, c1, c0)
    PROVE  /\ Fours(q, x, c3, c2, c1, c0) \in Int
           /\ \E m \in Int : IsTimes(m, x, c) /\ Same(q, Fours(q, x, c3, c2, c1, c0), m)
<1>1. PICK r3 : r3 = Seven(q, x, 0, c3)
  OBVIOUS
<1>2. r3 \in Int /\ Same(q, r3, x * c3)
  <2>1. PICK o \in Int : o = 0
    OBVIOUS
  <2>2. Same(q, o, x * o)
    <3>1. x * o = o
      BY <2>1
    <3>2. Same(q, o, o)
      BY SameSelf
    <3> QED  BY <3>1, <3>2
  <2>3. Seven(q, x, o, c3) \in Int /\ Same(q, Seven(q, x, o, c3), x * (o * 128 + c3))
    BY <2>2, SevenBits
  <2>4. o * 128 + c3 = c3
    BY <2>1
  <2> QED  BY <1>1, <2>1, <2>3, <2>4
<1>3. PICK g2 \in Int : g2 = c3 * 128 + c2
  OBVIOUS
<1>4. PICK r2 : r2 = Seven(q, x, r3, c2)
  OBVIOUS
<1>5. r2 \in Int /\ Same(q, r2, x * g2)
  <2>1. Seven(q, x, r3, c2) \in Int /\ Same(q, Seven(q, x, r3, c2), x * (c3 * 128 + c2))
    BY <1>2, SevenBits
  <2> QED  BY <1>3, <1>4, <2>1
<1>6. PICK g1 \in Int : g1 = g2 * 128 + c1
  OBVIOUS
<1>7. PICK r1 : r1 = Seven(q, x, r2, c1)
  OBVIOUS
<1>8. r1 \in Int /\ Same(q, r1, x * g1)
  <2>1. Seven(q, x, r2, c1) \in Int /\ Same(q, Seven(q, x, r2, c1), x * (g2 * 128 + c1))
    BY <1>5, SevenBits
  <2> QED  BY <1>6, <1>7, <2>1
<1>9. Seven(q, x, r1, c0) \in Int /\ Same(q, Seven(q, x, r1, c0), x * (g1 * 128 + c0))
  BY <1>8, SevenBits
<1>10. Fours(q, x, c3, c2, c1, c0) = Seven(q, x, r1, c0)
  BY <1>1, <1>4, <1>7 DEF Fours
<1>11. c = g1 * 128 + c0
  BY <1>3, <1>6 DEF IsFours
<1>12. PICK m \in Int : m = x * c
  OBVIOUS
<1>13. Same(q, Seven(q, x, r1, c0), m)
  BY <1>9, <1>11, <1>12
<1>14. IsTimes(m, x, c)
  BY <1>12 DEF IsTimes
<1> QED  BY <1>9, <1>10, <1>13, <1>14

Bits24(c) == c < 16777216

LEMMA SevensOf ==
    ASSUME NEW c \in Nat, Bits24(c)
    PROVE  /\ c \div 2097152 \in Int /\ (c \div 16384) % 128 \in Int
           /\ (c \div 128) % 128 \in Int /\ c % 128 \in Int
           /\ (((c \div 2097152) * 128 + ((c \div 16384) % 128)) * 128 + ((c \div 128) % 128)) * 128
                  + (c % 128) = c
BY SMT DEF Bits24

LEMMA FoursTimes ==
    ASSUME NEW q \in Nat \ {0}, NEW x \in Int, NEW y \in Int, NEW c \in Nat, Same(q, c, y),
           NEW c3 \in Int, NEW c2 \in Int, NEW c1 \in Int, NEW c0 \in Int,
           IsFours(c, c3, c2, c1, c0)
    PROVE  /\ Fours(q, x, c3, c2, c1, c0) \in Int
           /\ Same(q, Fours(q, x, c3, c2, c1, c0), x * y)
<1>1. PICK d \in Int, m \in Int, e \in Int :
          d = Fours(q, x, c3, c2, c1, c0) /\ IsTimes(m, x, c) /\ Same(q, d, m) /\ e = c
  <2>1. c \in Int
    OBVIOUS
  <2> QED  BY <2>1, FoursSame
<1>2. PICK n \in Int : n = x * y
  OBVIOUS
<1>3. Same(q, m, n)
  <2>1. IsTimes(m, e, x) /\ IsTimes(n, y, x)
    BY <1>1, <1>2 DEF IsTimes
  <2>2. Same(q, e, y)
    BY <1>1
  <2> QED  BY <2>1, <2>2, TimesSame
<1>4. Same(q, d, n)
  BY <1>1, <1>3, SameThrough
<1> QED  BY <1>1, <1>2, <1>4

LEMMA TimesModSame ==
    ASSUME NEW x \in Int, NEW y \in Int
    PROVE  /\ Transforms!TimesMod(x, y) \in Int
           /\ Same(Transforms!Modulus("ml_dsa"), Transforms!TimesMod(x, y), x * y)
<1>1. PICK q : q = 8380417
  BY SMT
<1>2. q \in Nat \ {0} /\ (\A d \in Nat : d < q => Bits24(d)) /\ Transforms!Modulus("ml_dsa") = q
  BY SMT, <1>1 DEF Transforms!Modulus, Bits24
<1>3. PICK c : c = y % q
  OBVIOUS
<1>4. c \in Nat /\ c < q /\ Same(q, c, y)
  <2>1. y % q \in 0 .. q - 1
    BY <1>2, Divided
  <2>2. Same(q, y % q, y)
    BY <1>2, ReducedSame
  <2> QED  BY <1>2, <1>3, <2>1, <2>2
<1>5. PICK c3, c2, c1, c0 :
          /\ c3 = c \div 2097152 /\ c2 = (c \div 16384) % 128
          /\ c1 = (c \div 128) % 128 /\ c0 = c % 128
  OBVIOUS
<1>6. /\ c3 \in Int /\ c2 \in Int /\ c1 \in Int /\ c0 \in Int
      /\ IsFours(c, c3, c2, c1, c0)
  <2>1. Bits24(c) /\ c \in Nat
    BY <1>2, <1>4
  <2>2. /\ c \div 2097152 \in Int /\ (c \div 16384) % 128 \in Int
        /\ (c \div 128) % 128 \in Int /\ c % 128 \in Int
        /\ (((c \div 2097152) * 128 + ((c \div 16384) % 128)) * 128 + ((c \div 128) % 128)) * 128
               + (c % 128) = c
    BY <2>1, SevensOf
  <2> QED  BY <1>5, <2>1, <2>2 DEF IsFours
<1>7. Fours(q, x, c3, c2, c1, c0) \in Int /\ Same(q, Fours(q, x, c3, c2, c1, c0), x * y)
  <2>1. q \in Nat \ {0} /\ c \in Nat /\ Same(q, c, y)
    BY <1>2, <1>4
  <2> QED  BY <1>6, <2>1, FoursTimes
<1>8. Transforms!TimesMod(x, y) = Fours(q, x, c3, c2, c1, c0)
  <2>1. c = y % 8380417
    BY SMT, <1>1, <1>3
  <2>2. Transforms!TimesMod(x, y) =
            Fours(8380417, x, c \div 2097152, (c \div 16384) % 128, (c \div 128) % 128, c % 128)
    BY SMT, <2>1 DEF Transforms!TimesMod, Fours, Seven
  <2> QED  BY SMT, <1>1, <1>5, <2>2
<1> QED  BY <1>2, <1>7, <1>8

Kems == {"kyber", "aigis_enc"}

(* montgomery_reduce of a product. *)
Reduces(sc, r, x, y) ==
    /\ r \in Int
    /\ \E p \in Int, m \in Int :
          IsTimes(p, x, y) /\ IsTimes(m, p, Inverse(sc)) /\ Same(Transforms!Modulus(sc), r, m)

LEMMA FqMulReduces ==
    ASSUME NEW sc \in Arithmetics, NEW x \in Int, NEW y \in Int
    PROVE  Reduces(sc, Transforms!FqMul(sc, x, y), x, y)
<1>1. CASE sc = "kyber"
  <2>1. PICK r \in Int, u \in Int, p \in Int :
            /\ IsTimes(p, x, y) /\ Transforms!FqMul("kyber", x, y) = r
            /\ Word16(u) /\ Quotient(r, p, u, 3329)
    <3>1. Halved(Transforms!FqMul("kyber", x, y), x, y, 3329)
      BY KyberMul
    <3> QED  BY <3>1 DEF Halved
  <2>2. PICK m \in Int : m = p * 169
    OBVIOUS
  <2>3. IsTimes(m, p, 169)
    BY <2>2 DEF IsTimes
  <2>4. Same(3329, r, m)
    BY <2>1, <2>3, KyberSame
  <2>5. Transforms!Modulus(sc) = 3329 /\ Inverse(sc) = 169
    BY <1>1 DEF Transforms!Modulus, Inverse
  <2> QED  BY <1>1, <2>1, <2>3, <2>4, <2>5 DEF Reduces
<1>2. CASE sc = "aigis_enc"
  <2>1. PICK r \in Int, u \in Int, p \in Int :
            /\ IsTimes(p, x, y) /\ Transforms!FqMul("aigis_enc", x, y) = r
            /\ Word16(u) /\ Quotient(r, p, u, 7681)
    <3>1. Halved(Transforms!FqMul("aigis_enc", x, y), x, y, 7681)
      BY AigisMul
    <3> QED  BY <3>1 DEF Halved
  <2>2. PICK m \in Int : m = p * 900
    OBVIOUS
  <2>3. IsTimes(m, p, 900)
    BY <2>2 DEF IsTimes
  <2>4. Same(7681, r, m)
    BY <2>1, <2>3, AigisSame
  <2>5. Transforms!Modulus(sc) = 7681 /\ Inverse(sc) = 900
    BY <1>2 DEF Transforms!Modulus, Inverse
  <2> QED  BY <1>2, <2>1, <2>3, <2>4, <2>5 DEF Reduces
<1>3. CASE sc = "ml_dsa"
  <2>1. PICK q \in Nat \ {0}, c \in Int : q = Transforms!Modulus("ml_dsa") /\ c = Inverse("ml_dsa")
    BY Moduli DEF Arithmetics
  <2>2. PICK p \in Int : p = x * y
    OBVIOUS
  <2>3. PICK n \in Int : n = Transforms!TimesMod(x, y) /\ Same(q, n, p)
    BY <2>1, <2>2, TimesModSame
  <2>4. PICK r \in Int : r = Transforms!TimesMod(n, c) /\ Same(q, r, n * c)
    BY <2>1, TimesModSame
  <2>5. PICK m \in Int, m2 \in Int : m = p * c /\ m2 = n * c
    OBVIOUS
  <2>6. IsTimes(p, x, y) /\ IsTimes(m, p, c) /\ IsTimes(m2, n, c)
    BY <2>2, <2>5 DEF IsTimes
  <2>7. Same(q, r, m2)
    BY <2>4, <2>5
  <2>8. Same(q, m2, m)
    BY <2>3, <2>6, TimesSame
  <2>9. Same(q, r, m)
    BY <2>7, <2>8, SameThrough
  <2>10. Transforms!FqMul("ml_dsa", x, y) = Transforms!TimesMod(Transforms!TimesMod(x, y), 8265825)
    BY SMT DEF Transforms!FqMul
  <2>11. Inverse("ml_dsa") = 8265825
    BY SMT DEF Inverse
  <2>12. Transforms!FqMul("ml_dsa", x, y) = r
    BY SMT, <2>1, <2>3, <2>4, <2>10, <2>11
  <2> QED  BY <1>3, <2>1, <2>6, <2>9, <2>12 DEF Reduces
<1> QED  BY <1>1, <1>2, <1>3 DEF Arithmetics

AtMost(bound, x) == x \in Int /\ -bound <= x /\ x <= bound

Product16(sc) == IF sc = "kyber" THEN 3584 ELSE 5760

LEMMA FqMulCorner ==
    ASSUME NEW sc \in Kems, NEW x \in Int, NEW y \in Int, \A p : IsTimes(p, x, y) => Corner(p)
    PROVE  AtMost(Product16(sc), Transforms!FqMul(sc, x, y))
<1>1. \A p : IsTimes(p, x, y) => Corner(p)
  OBVIOUS
<1>3. CASE sc = "kyber"
  <2>1. PICK r \in Int, u \in Int, p \in Int :
            /\ IsTimes(p, x, y) /\ Transforms!FqMul("kyber", x, y) = r
            /\ Word16(u) /\ Quotient(r, p, u, 3329)
    <3>1. Halved(Transforms!FqMul("kyber", x, y), x, y, 3329)
      BY KyberMul
    <3> QED  BY <3>1 DEF Halved
  <2>2. -3584 <= r /\ r <= 3584
    <3>1. Corner(p)
      BY <1>1, <2>1
    <3> QED  BY <2>1, <3>1, KyberBound
  <2> QED  BY <1>3, <2>1, <2>2 DEF AtMost, Product16
<1>4. CASE sc = "aigis_enc"
  <2>1. PICK r \in Int, u \in Int, p \in Int :
            /\ IsTimes(p, x, y) /\ Transforms!FqMul("aigis_enc", x, y) = r
            /\ Word16(u) /\ Quotient(r, p, u, 7681)
    <3>1. Halved(Transforms!FqMul("aigis_enc", x, y), x, y, 7681)
      BY AigisMul
    <3> QED  BY <3>1 DEF Halved
  <2>2. -5760 <= r /\ r <= 5760
    <3>1. Corner(p)
      BY <1>1, <2>1
    <3> QED  BY <2>1, <3>1, AigisBound
  <2> QED  BY <1>4, <2>1, <2>2 DEF AtMost, Product16
<1> QED  BY <1>3, <1>4 DEF Kems

LEMMA FqMulSmall ==
    ASSUME NEW sc \in Kems, NEW x, NEW y, AtMost(3840, x), AtMost(32768, y)
    PROVE  AtMost(Product16(sc), Transforms!FqMul(sc, x, y))
<1>1. x \in Int /\ y \in Int /\ -3840 <= x /\ x <= 3840 /\ -32768 <= y /\ y <= 32768
  BY DEF AtMost
<1>2. \A p : IsTimes(p, x, y) => Corner(p)
  BY <1>1, Corners
<1> QED  BY <1>1, <1>2, FqMulCorner

(* barrett_reduce. *)
Reduced16(sc) == IF sc = "kyber" THEN 1700 ELSE 6140

LEMMA BarrettIs ==
    ASSUME NEW sc \in Kems, NEW x, AtMost(32767, x)
    PROVE  /\ AtMost(Reduced16(sc), Transforms!Barrett(sc, x))
           /\ Same(Transforms!Modulus(sc), Transforms!Barrett(sc, x), x)
<1>1. x \in Int /\ -32767 <= x /\ x <= 32767
  BY DEF AtMost
<1>2. CASE sc = "kyber"
  <2>1. PICK m \in Int : m = (20159 * x + 33554432) \div 67108864
    BY <1>1
  <2>2. PICK r \in Int : r = x - m * 3329
    BY <1>1
  <2>3. -1700 <= r /\ r <= 1700
    BY <1>1, <2>1, <2>2
  <2>4. Word16(r)
    BY <2>3 DEF Word16
  <2>5. Transforms!Int16(r) = r
    BY <2>4, NotWrapped
  <2>6. Transforms!Barrett(sc, x) = r
    BY <1>2, <2>1, <2>2, <2>5 DEF Transforms!Barrett
  <2>7. r - x = (-m) * 3329 /\ -m \in Int
    BY <1>1, <2>2
  <2>8. Same(3329, r, x)
    BY <1>1, <2>7 DEF Same
  <2>9. Transforms!Modulus(sc) = 3329
    BY <1>2 DEF Transforms!Modulus
  <2> QED  BY <1>2, <2>3, <2>6, <2>8, <2>9 DEF AtMost, Reduced16
<1>3. CASE sc = "aigis_enc"
  <2>1. PICK m \in Int : m = (x + 4096) \div 8192
    BY <1>1
  <2>2. PICK r \in Int : r = x - m * 7681
    BY <1>1
  <2>3. -6140 <= r /\ r <= 6140
    BY <1>1, <2>1, <2>2
  <2>4. Word16(r)
    BY <2>3 DEF Word16
  <2>5. Transforms!Int16(r) = r
    BY <2>4, NotWrapped
  <2>6. Transforms!Barrett(sc, x) = r
    BY <1>3, <2>1, <2>2, <2>5 DEF Transforms!Barrett
  <2>7. r - x = (-m) * 7681 /\ -m \in Int
    BY <1>1, <2>2
  <2>8. Same(7681, r, x)
    BY <1>1, <2>7 DEF Same
  <2>9. Transforms!Modulus(sc) = 7681
    BY <1>3 DEF Transforms!Modulus
  <2> QED  BY <1>3, <2>3, <2>6, <2>8, <2>9 DEF AtMost, Reduced16
<1> QED  BY <1>2, <1>3 DEF Kems

-----------------------------------------------------------------------------
(* The transform over the integers, with the roots the tables stand for.   *)
Index == 0 .. 255
Polys == [Index -> Int]
Equal(sc, u, V) == \A j \in Index : Same(Transforms!Modulus(sc), u[j], V[j])

Widths2 == {1, 2, 4, 8, 16, 32, 64, 128}

Root(sc, n) == Transforms!Zetas(sc)[n + 1] * Inverse(sc)

(* What the variable's power is, modulo the polynomial of a block. *)
Turn(sc, n) == IF n = 1 THEN -1
               ELSE IF n % 2 = 0 THEN Root(sc, n \div 2) ELSE -Root(sc, n \div 2)

Level(sc, len, V) ==
    [j \in Index |-> IF j % (2 * len) < len
                     THEN V[j] + Root(sc, 128 \div len + j \div (2 * len)) * V[j + len]
                     ELSE V[j - len] - Root(sc, 128 \div len + j \div (2 * len)) * V[j]]

(* X times a polynomial, block by block. *)
Turned(sc, size, V) ==
    [j \in Index |-> IF j % size = 0 THEN Turn(sc, 256 \div size + j \div size) * V[j + size - 1]
                     ELSE V[j - 1]]

(* A block of size = 2 * len coefficients, and the two blocks it is split *)
(* into.                                                                   *)
Inside(len, size, e, p) ==
    /\ e < 128 \div len
    /\ \A y \in Nat : y < size =>
          /\ p + y \in Index /\ (p + y) \div size = e /\ (p + y) % size = y
          /\ y < len => (p + y) \div len = 2 * e /\ (p + y) % len = y
          /\ y >= len => (p + y) \div len = 2 * e + 1 /\ (p + y) % len = y - len

BlocksOf(len, size) ==
    /\ \A e \in Nat, p \in Nat, i \in Nat :
          IsTimes(p, size, e) /\ p + i \in Index /\ i < size => Inside(len, size, e, p)
    /\ 256 \div size = 128 \div len /\ 256 \div len = 2 * (128 \div len) /\ 128 \div len \in Nat \ {0}

LEMMA BlocksOf1 == BlocksOf(1, 2)
BY SMT DEF BlocksOf, Inside, IsTimes, Index

LEMMA BlocksOf2 == BlocksOf(2, 4)
BY SMT DEF BlocksOf, Inside, IsTimes, Index

LEMMA BlocksOf4 == BlocksOf(4, 8)
BY SMT DEF BlocksOf, Inside, IsTimes, Index

LEMMA BlocksOf8 == BlocksOf(8, 16)
BY SMT DEF BlocksOf, Inside, IsTimes, Index

LEMMA BlocksOf16 == BlocksOf(16, 32)
BY SMT DEF BlocksOf, Inside, IsTimes, Index

LEMMA BlocksOf32 == BlocksOf(32, 64)
BY SMT DEF BlocksOf, Inside, IsTimes, Index

LEMMA BlocksOf64 == BlocksOf(64, 128)
BY SMT DEF BlocksOf, Inside, IsTimes, Index

LEMMA BlocksOf128 == BlocksOf(128, 256)
BY SMT DEF BlocksOf, Inside, IsTimes, Index

LEMMA AllBlocks == ASSUME NEW len \in Widths2 PROVE BlocksOf(len, 2 * len)
<1>1. /\ 2 * 1 = 2 /\ 2 * 2 = 4 /\ 2 * 4 = 8 /\ 2 * 8 = 16 /\ 2 * 16 = 32
      /\ 2 * 32 = 64 /\ 2 * 64 = 128 /\ 2 * 128 = 256
  OBVIOUS
<1> QED  BY <1>1, BlocksOf1, BlocksOf2, BlocksOf4, BlocksOf8, BlocksOf16, BlocksOf32, BlocksOf64,
            BlocksOf128 DEF Widths2

(* Where a coefficient is: in block e, which begins at p, at place i. *)
InBlock(len, j, e, p, i) == j = p + i /\ i < 2 * len /\ Inside(len, 2 * len, e, p)

LEMMA Blocks ==
    ASSUME NEW len \in Widths2, NEW j \in Index
    PROVE  \E e \in Nat, p \in Nat, i \in Nat : InBlock(len, j, e, p, i)
<1>1. PICK size \in Nat \ {0} : size = 2 * len
  BY DEF Widths2
<1>2. PICK e \in Nat, p \in Nat, i \in Nat : IsTimes(p, size, e) /\ j = p + i /\ i < size
  <2>1. PICK e, i : e = j \div size /\ i = j % size
    OBVIOUS
  <2>2. j = size * e + i /\ e \in Int /\ i \in 0 .. size - 1
    <3>1. j \in Int
      BY DEF Index
    <3> QED  BY <2>1, <3>1, Divided
  <2>3. PICK p \in Int : IsTimes(p, size, e) /\ j = p + i
    BY <2>2 DEF IsTimes
  <2>4. e >= 0
    <3>1. ASSUME e < 0 PROVE p <= -size
      <4>1. PICK d \in Nat : e = -1 - d
        BY <2>2, <3>1
      <4>2. size * e = -size - size * d /\ size * d >= 0
        BY <4>1
      <4> QED  BY <2>3, <4>2 DEF IsTimes
    <3> QED  BY <2>2, <2>3, <3>1 DEF Index
  <2>5. p >= 0
    BY <2>2, <2>3, <2>4 DEF IsTimes
  <2>6. e \in Nat /\ p \in Nat /\ i \in Nat /\ i < size
    BY <2>2, <2>4, <2>5
  <2> QED  BY <2>3, <2>6
<1>3. BlocksOf(len, size)
  BY <1>1, AllBlocks
<1>4. p + i \in Index
  BY <1>2
<1>5. Inside(len, size, e, p)
  BY <1>2, <1>3, <1>4 DEF BlocksOf
<1>6. InBlock(len, j, e, p, i)
  BY <1>1, <1>2, <1>5 DEF InBlock
<1> QED  BY <1>6

-----------------------------------------------------------------------------
(* One pair of a level. *)
Pair(sc, len, V, e, p, y) ==
    /\ Level(sc, len, V)[p + y] = V[p + y] + Root(sc, 128 \div len + e) * V[p + (y + len)]
    /\ Level(sc, len, V)[p + (y + len)] =
           V[p + y] - Root(sc, 128 \div len + e) * V[p + (y + len)]

LEMMA LevelIs ==
    ASSUME NEW sc, NEW len \in Widths2, NEW j, NEW e \in Nat, NEW p \in Nat, NEW i \in Nat,
           InBlock(len, j, e, p, i), NEW V, NEW y \in Nat, y < len
    PROVE  Pair(sc, len, V, e, p, y)
<1>1. len \in Nat /\ y + len \in Nat /\ y < 2 * len /\ y + len < 2 * len /\ ~(y + len < len)
  BY DEF Widths2
<1>2. /\ p + y \in Index /\ (p + y) \div (2 * len) = e /\ (p + y) % (2 * len) = y
      /\ p + (y + len) \in Index /\ (p + (y + len)) \div (2 * len) = e
      /\ (p + (y + len)) % (2 * len) = y + len
  BY <1>1 DEF InBlock, Inside
<1>3. (p + y) + len = p + (y + len) /\ (p + (y + len)) - len = p + y
  BY <1>1
<1>4. PICK W \in Index, w2 \in Index : W = p + y /\ w2 = p + (y + len)
  BY <1>2
<1>5. PICK size, n : size = 2 * len /\ n = 128 \div len
  OBVIOUS
<1>6. W % size < len /\ ~(w2 % size < len) /\ W \div size = e /\ w2 \div size = e
      /\ W + len = w2 /\ w2 - len = W
  BY <1>1, <1>2, <1>3, <1>4, <1>5
<1>7. Level(sc, len, V) =
          [x \in Index |-> IF x % size < len THEN V[x] + Root(sc, n + x \div size) * V[x + len]
                           ELSE V[x - len] - Root(sc, n + x \div size) * V[x]]
  BY <1>5 DEF Level
<1>8. /\ Level(sc, len, V)[W] = V[W] + Root(sc, n + e) * V[w2]
      /\ Level(sc, len, V)[w2] = V[W] - Root(sc, n + e) * V[w2]
  BY <1>6, <1>7
<1> QED  BY <1>4, <1>5, <1>8 DEF Pair

(* A root of the entry a block is split with is the block's power. *)
Rooted(sc, n) ==
    /\ Root(sc, n) \in Int /\ Turn(sc, n) \in Int
    /\ \E r2 \in Int : IsTimes(r2, Root(sc, n), Root(sc, n)) /\ Same(Transforms!Modulus(sc), r2, Turn(sc, n))

Nodes(sc) == IF sc = "kyber" THEN 128 ELSE 256

AllRooted(sc) == \A n \in Nat \ {0} : n < Nodes(sc) => Rooted(sc, n)

LEMMA Turns2 ==
    ASSUME NEW sc, NEW n \in Nat \ {0}
    PROVE  Turn(sc, 2 * n) = Root(sc, n) /\ Turn(sc, 2 * n + 1) = -Root(sc, n)
<1>1. (2 * n) % 2 = 0 /\ (2 * n) \div 2 = n /\ 2 * n # 1
  OBVIOUS
<1>2. (2 * n + 1) % 2 # 0 /\ (2 * n + 1) \div 2 = n /\ 2 * n + 1 # 1
  OBVIOUS
<1>3. PICK m, m2 : m = 2 * n /\ m2 = 2 * n + 1
  OBVIOUS
<1>4. Turn(sc, m) = Root(sc, n)
  BY <1>1, <1>3 DEF Turn
<1>5. Turn(sc, m2) = -Root(sc, n)
  BY <1>2, <1>3 DEF Turn
<1> QED  BY <1>3, <1>4, <1>5

BlockTurned(sc, len, V, e, p) ==
    /\ Turned(sc, 2 * len, V)[p + 0] = Turn(sc, 128 \div len + e) * V[p + (2 * len - 1)]
    /\ \A y \in Nat \ {0} : y < 2 * len => Turned(sc, 2 * len, V)[p + y] = V[p + (y - 1)]

HalvesTurned(sc, len, V, e, p) ==
    /\ Turned(sc, len, V)[p + 0] = Root(sc, 128 \div len + e) * V[p + (len - 1)]
    /\ Turned(sc, len, V)[p + len] = (-Root(sc, 128 \div len + e)) * V[p + (2 * len - 1)]
    /\ \A y \in Nat \ {0} : y < 2 * len /\ y # len => Turned(sc, len, V)[p + y] = V[p + (y - 1)]

(* X times a polynomial, in a block to be split and in the halves. *)
LEMMA TurnedIs ==
    ASSUME NEW sc, NEW len \in Widths2, NEW j, NEW e \in Nat, NEW p \in Nat, NEW i \in Nat,
           InBlock(len, j, e, p, i), NEW V
    PROVE  BlockTurned(sc, len, V, e, p)
<1>1. PICK size \in Nat \ {0}, n \in Nat : size = 2 * len /\ n = 128 \div len /\ 256 \div size = n
  <2>1. BlocksOf(len, 2 * len)
    BY AllBlocks
  <2>2. 256 \div (2 * len) = 128 \div len /\ 128 \div len \in Nat
    BY <2>1 DEF BlocksOf
  <2>3. 2 * len \in Nat \ {0}
    BY DEF Widths2
  <2> QED  BY <2>2, <2>3
<1>2. \A y \in Nat : y < size => p + y \in Index /\ (p + y) \div size = e /\ (p + y) % size = y
  BY <1>1 DEF InBlock, Inside
<1>3. Turned(sc, size, V) =
          [x \in Index |-> IF x % size = 0 THEN Turn(sc, n + x \div size) * V[x + size - 1]
                           ELSE V[x - 1]]
  BY <1>1 DEF Turned
<1>4. Turned(sc, size, V)[p + 0] = Turn(sc, n + e) * V[p + (size - 1)]
  <2>1. p + 0 \in Index /\ (p + 0) \div size = e /\ (p + 0) % size = 0
    BY <1>2
  <2>2. PICK x \in Index : x = p + 0
    BY <2>1
  <2>3. x + size - 1 = p + (size - 1)
    BY <2>2
  <2> QED  BY <1>3, <2>1, <2>2, <2>3
<1>5. ASSUME NEW y \in Nat \ {0}, y < size PROVE Turned(sc, size, V)[p + y] = V[p + (y - 1)]
  <2>1. p + y \in Index /\ (p + y) % size = y /\ y # 0
    BY <1>2, <1>5
  <2>2. PICK x \in Index : x = p + y
    BY <2>1
  <2>3. x - 1 = p + (y - 1)
    BY <2>2
  <2> QED  BY <1>3, <2>1, <2>2, <2>3
<1> QED  BY <1>1, <1>4, <1>5 DEF BlockTurned

LEMMA HalfTurned ==
    ASSUME NEW sc, NEW len \in Widths2, NEW j, NEW e \in Nat, NEW p \in Nat, NEW i \in Nat,
           InBlock(len, j, e, p, i), NEW V
    PROVE  HalvesTurned(sc, len, V, e, p)
<1>1. PICK size \in Nat \ {0}, n \in Nat \ {0} :
          size = 2 * len /\ n = 128 \div len /\ 256 \div len = 2 * n /\ len \in Nat \ {0}
  <2>1. BlocksOf(len, 2 * len)
    BY AllBlocks
  <2>2. 256 \div len = 2 * (128 \div len) /\ 128 \div len \in Nat \ {0}
    BY <2>1 DEF BlocksOf
  <2>3. 2 * len \in Nat \ {0} /\ len \in Nat \ {0}
    BY DEF Widths2
  <2> QED  BY <2>2, <2>3
<1>2. \A y \in Nat : y < size =>
          /\ p + y \in Index
          /\ y < len => (p + y) \div len = 2 * e /\ (p + y) % len = y
          /\ y >= len => (p + y) \div len = 2 * e + 1 /\ (p + y) % len = y - len
  BY <1>1 DEF InBlock, Inside
<1>3. Turned(sc, len, V) =
          [x \in Index |-> IF x % len = 0 THEN Turn(sc, 2 * n + x \div len) * V[x + len - 1]
                           ELSE V[x - 1]]
  BY <1>1 DEF Turned
<1>4. Turned(sc, len, V)[p + 0] = Root(sc, n + e) * V[p + (len - 1)]
  <2>1. p + 0 \in Index /\ (p + 0) \div len = 2 * e /\ (p + 0) % len = 0
    BY <1>1, <1>2
  <2>2. PICK x \in Index : x = p + 0
    BY <2>1
  <2>3. x + len - 1 = p + (len - 1)
    BY <1>1, <2>2
  <2>4. Turned(sc, len, V)[x] = Turn(sc, 2 * n + 2 * e) * V[x + len - 1]
    BY <1>3, <2>1, <2>2
  <2>5. Turn(sc, 2 * n + 2 * e) = Root(sc, n + e)
    <3>1. 2 * n + 2 * e = 2 * (n + e) /\ n + e \in Nat \ {0}
      OBVIOUS
    <3> QED  BY <3>1, Turns2
  <2> QED  BY <2>2, <2>3, <2>4, <2>5
<1>5. Turned(sc, len, V)[p + len] = (-Root(sc, n + e)) * V[p + (size - 1)]
  <2>1. p + len \in Index /\ (p + len) \div len = 2 * e + 1 /\ (p + len) % len = 0
    BY <1>1, <1>2
  <2>2. PICK x \in Index : x = p + len
    BY <2>1
  <2>3. x + len - 1 = p + (size - 1)
    BY <1>1, <2>2
  <2>4. Turned(sc, len, V)[x] = Turn(sc, 2 * n + (2 * e + 1)) * V[x + len - 1]
    BY <1>3, <2>1, <2>2
  <2>5. Turn(sc, 2 * n + (2 * e + 1)) = -Root(sc, n + e)
    <3>1. 2 * n + (2 * e + 1) = 2 * (n + e) + 1 /\ n + e \in Nat \ {0}
      OBVIOUS
    <3> QED  BY <3>1, Turns2
  <2> QED  BY <2>2, <2>3, <2>4, <2>5
<1>6. ASSUME NEW y \in Nat \ {0}, y < size, y # len PROVE Turned(sc, len, V)[p + y] = V[p + (y - 1)]
  <2>1. p + y \in Index /\ (y < len => (p + y) % len = y) /\ (y >= len => (p + y) % len = y - len)
    BY <1>2, <1>6
  <2>4. (p + y) % len # 0
    <3>1. PICK m : m = (p + y) % len
      OBVIOUS
    <3> QED  BY <1>1, <1>6, <2>1, <3>1
  <2>2. PICK x \in Index : x = p + y
    BY <2>1
  <2>3. x - 1 = p + (y - 1)
    BY <2>2
  <2> QED  BY <1>3, <2>1, <2>2, <2>3, <2>4
<1> QED  BY <1>1, <1>4, <1>5, <1>6 DEF HalvesTurned

LEMMA LevelIn ==
    ASSUME NEW sc, NEW len \in Widths2, NEW V \in Polys,
           \A n \in Nat \ {0} : n < 2 * (128 \div len) => Root(sc, n) \in Int
    PROVE  Level(sc, len, V) \in Polys
<1>1. ASSUME NEW j \in Index PROVE Level(sc, len, V)[j] \in Int
  <2>1. PICK e \in Nat, p \in Nat, i \in Nat : InBlock(len, j, e, p, i)
    BY Blocks
  <2>2. PICK n \in Nat \ {0} : n = 128 \div len
    BY AllBlocks DEF BlocksOf
  <2>3. e < n /\ j = p + i /\ i < 2 * len /\ \A y \in Nat : y < 2 * len => p + y \in Index
    BY <2>1, <2>2 DEF InBlock, Inside
  <2>4. Root(sc, n + e) \in Int
    <3>1. n + e \in Nat \ {0} /\ n + e < 2 * n
      BY <2>3
    <3> QED  BY <2>2, <3>1
  <2>5. PICK r \in Int : r = Root(sc, n + e)
    BY <2>4
  <2>6. PICK y \in Nat : y < len /\ (j = p + y \/ j = p + (y + len))
    <3>1. len \in Nat
      BY DEF Widths2
    <3>2. CASE i < len
      BY <2>3, <3>2
    <3>3. CASE i >= len
      <4>1. i - len \in Nat /\ i - len < len /\ i = (i - len) + len
        BY <2>3, <3>1, <3>3
      <4> QED  BY <2>3, <4>1
    <3> QED  BY <3>1, <3>2, <3>3
  <2>7. /\ Level(sc, len, V)[p + y] = V[p + y] + r * V[p + (y + len)]
        /\ Level(sc, len, V)[p + (y + len)] = V[p + y] - r * V[p + (y + len)]
    <3>1. /\ Level(sc, len, V)[p + y] = V[p + y] + Root(sc, 128 \div len + e) * V[p + (y + len)]
          /\ Level(sc, len, V)[p + (y + len)] = V[p + y] - Root(sc, 128 \div len + e) * V[p + (y + len)]
      <4>1. Pair(sc, len, V, e, p, y)
        BY <2>1, <2>6, LevelIs
      <4> QED  BY <4>1 DEF Pair
    <3> QED  BY <2>2, <2>5, <3>1
  <2>8. PICK c \in Int, d \in Int : c = V[p + y] /\ d = V[p + (y + len)]
    <3>1. len \in Nat /\ y < 2 * len /\ y + len \in Nat /\ y + len < 2 * len
      BY <2>6 DEF Widths2
    <3>2. p + y \in Index /\ p + (y + len) \in Index
      BY <2>3, <3>1
    <3> QED  BY <3>2 DEF Polys
  <2>9. c + r * d \in Int /\ c - r * d \in Int
    OBVIOUS
  <2> QED  BY <2>6, <2>7, <2>8, <2>9
<1>2. Level(sc, len, V) = [j \in Index |-> Level(sc, len, V)[j]]
  BY DEF Level
<1> QED  BY <1>1, <1>2 DEF Polys

LEMMA Split ==
    ASSUME NEW len \in Widths2, NEW j \in Index
    PROVE  \E e \in Nat, p \in Nat, y \in Nat, i \in Nat :
              InBlock(len, j, e, p, i) /\ y < len /\ (j = p + y \/ j = p + (y + len))
<1>1. PICK e \in Nat, p \in Nat, i \in Nat : InBlock(len, j, e, p, i)
  BY Blocks
<1>2. j = p + i /\ i < 2 * len /\ len \in Nat
  BY <1>1 DEF InBlock, Widths2
<1>3. PICK y \in Nat : y < len /\ (j = p + y \/ j = p + (y + len))
  <2>1. CASE i < len
    BY <1>2, <2>1
  <2>2. CASE i >= len
    <3>1. i - len \in Nat /\ i - len < len /\ i = (i - len) + len
      BY <1>2, <2>2
    <3> QED  BY <1>2, <3>1
  <2> QED  BY <1>2, <2>1, <2>2
<1> QED  BY <1>1, <1>3

(* To turn a block and to split it, in either order. *)
LEMMA Commute ==
    ASSUME NEW sc \in Arithmetics, NEW len \in Widths2, NEW V \in Polys,
           \A n \in Nat \ {0} : n < 2 * (128 \div len) => Rooted(sc, n)
    PROVE  Equal(sc, Level(sc, len, Turned(sc, 2 * len, V)), Turned(sc, len, Level(sc, len, V)))
<1>1. PICK W, x, lw, tx : /\ W = Turned(sc, 2 * len, V) /\ x = Level(sc, len, V)
                          /\ lw = Level(sc, len, W) /\ tx = Turned(sc, len, x)
  OBVIOUS
<1>2. PICK q \in Nat \ {0} : q = Transforms!Modulus(sc)
  BY Moduli
<1>3. len \in Nat \ {0}
  BY DEF Widths2
<1>4. ASSUME NEW j \in Index PROVE Same(q, lw[j], tx[j])
  <2>1. PICK e \in Nat, p \in Nat, y \in Nat, i \in Nat :
            InBlock(len, j, e, p, i) /\ y < len /\ (j = p + y \/ j = p + (y + len))
    BY Split
  <2>2. PICK n \in Nat \ {0} : n = 128 \div len
    BY AllBlocks DEF BlocksOf
  <2>3. e < n /\ \A z \in Nat : z < 2 * len => p + z \in Index
    BY <2>1, <2>2 DEF InBlock, Inside
  <2>4. Rooted(sc, n + e)
    <3>1. n + e \in Nat \ {0} /\ n + e < 2 * n
      BY <2>3
    <3> QED  BY <2>2, <3>1
  <2>5. PICK r \in Int, T \in Int : r = Root(sc, n + e) /\ T = Turn(sc, n + e)
    BY <2>4 DEF Rooted
  <2>6. PICK r2 \in Int : r2 = r * r /\ Same(q, r2, T)
    BY <1>2, <2>4, <2>5 DEF Rooted, IsTimes
  <2>7. BlockTurned(sc, len, V, e, p) /\ HalvesTurned(sc, len, x, e, p)
    BY <2>1, TurnedIs, HalfTurned
  <2>8. /\ W[p + 0] = T * V[p + (2 * len - 1)]
        /\ \A z \in Nat \ {0} : z < 2 * len => W[p + z] = V[p + (z - 1)]
    BY <1>1, <2>2, <2>5, <2>7 DEF BlockTurned
  <2>9. /\ tx[p + 0] = r * x[p + (len - 1)]
        /\ tx[p + len] = (-r) * x[p + (2 * len - 1)]
        /\ \A z \in Nat \ {0} : z < 2 * len /\ z # len => tx[p + z] = x[p + (z - 1)]
    BY <1>1, <2>2, <2>5, <2>7 DEF HalvesTurned
  <2>10. ASSUME NEW z \in Nat, z < len
         PROVE  /\ lw[p + z] = W[p + z] + r * W[p + (z + len)]
                /\ lw[p + (z + len)] = W[p + z] - r * W[p + (z + len)]
                /\ x[p + z] = V[p + z] + r * V[p + (z + len)]
                /\ x[p + (z + len)] = V[p + z] - r * V[p + (z + len)]
    <3>1. Pair(sc, len, W, e, p, z)
      BY <2>1, <2>10, LevelIs
    <3>2. Pair(sc, len, V, e, p, z)
      BY <2>1, <2>10, LevelIs
    <3> QED  BY <1>1, <2>2, <2>5, <3>1, <3>2 DEF Pair
  <2>11. CASE y = 0
    <3>1. PICK c \in Int, d \in Int : c = V[p + (len - 1)] /\ d = V[p + (2 * len - 1)]
      <4>1. len - 1 \in Nat /\ len - 1 < 2 * len /\ 2 * len - 1 \in Nat /\ 2 * len - 1 < 2 * len
        BY <1>3
      <4>2. p + (len - 1) \in Index /\ p + (2 * len - 1) \in Index
        BY <2>3, <4>1
      <4> QED  BY <4>2 DEF Polys
    <3>2. W[p + 0] = T * d /\ W[p + len] = c
      <4>1. len \in Nat \ {0} /\ len < 2 * len
        BY <1>3
      <4> QED  BY <2>8, <3>1, <4>1
    <3>3. x[p + (len - 1)] = c + r * d /\ x[p + (2 * len - 1)] = c - r * d
      <4>1. len - 1 \in Nat /\ len - 1 < len /\ (len - 1) + len = 2 * len - 1
        BY <1>3
      <4> QED  BY <2>10, <3>1, <4>1
    <3>4. lw[p + 0] = T * d + r * c /\ lw[p + len] = T * d - r * c
      <4>1. 0 \in Nat /\ 0 < len /\ 0 + len = len
        BY <1>3
      <4>2. lw[p + 0] = W[p + 0] + r * W[p + (0 + len)] /\ lw[p + (0 + len)] = W[p + 0] - r * W[p + (0 + len)]
        BY <2>10, <4>1
      <4> QED  BY <3>2, <4>1, <4>2
    <3>5. tx[p + 0] = r * (c + r * d) /\ tx[p + len] = (-r) * (c - r * d)
      BY <2>9, <3>3
    <3>6. PICK td \in Int, rc \in Int, rrd \in Int : td = T * d /\ rc = r * c /\ rrd = r2 * d
      OBVIOUS
    <3>7. r * (c + r * d) = rrd + rc /\ (-r) * (c - r * d) = rrd - rc
      <4>1. r * (c + r * d) = r * c + (r * r) * d /\ (-r) * (c - r * d) = (r * r) * d - r * c
        OBVIOUS
      <4> QED  BY <2>6, <3>6, <4>1
    <3>8. Same(q, rrd, td)
      <4>1. Same(q, r2, T) /\ IsTimes(rrd, r2, d) /\ IsTimes(td, T, d)
        BY <2>6, <3>6 DEF IsTimes
      <4> QED  BY <4>1, TimesSame
    <3>9. Same(q, td, rrd) /\ Same(q, rc, rc)
      BY <3>8, SameTurned, SameSelf
    <3>10. Same(q, td + rc, rrd + rc) /\ Same(q, td - rc, rrd - rc)
      BY <3>9, SameSum
    <3>11. j = p + 0 \/ j = p + len
      BY <1>3, <2>1, <2>11
    <3> QED  BY <3>4, <3>5, <3>6, <3>7, <3>10, <3>11
  <2>12. CASE y # 0
    <3>1. PICK z \in Nat, k \in Nat, k2 \in Nat : z = y - 1 /\ k = y + len /\ k2 = k - 1
      BY <1>3, <2>12
    <3>2. /\ y \in Nat \ {0} /\ y < 2 * len /\ y # len /\ z < len
          /\ k \in Nat \ {0} /\ k < 2 * len /\ k # len /\ z + len = k2
          /\ z < 2 * len /\ k2 < 2 * len
      BY <1>3, <2>1, <2>12, <3>1
    <3>3. PICK c \in Int, d \in Int : c = V[p + z] /\ d = V[p + k2]
      <4>2. p + z \in Index /\ p + k2 \in Index
        BY <2>3, <3>2
      <4> QED  BY <4>2 DEF Polys
    <3>4. W[p + y] = c /\ W[p + k] = d
      BY <2>8, <3>1, <3>2, <3>3
    <3>5. x[p + z] = c + r * d /\ x[p + k2] = c - r * d
      BY <2>10, <3>2, <3>3
    <3>6. lw[p + y] = c + r * d /\ lw[p + k] = c - r * d
      BY <2>1, <2>10, <3>1, <3>4
    <3>7. tx[p + y] = c + r * d /\ tx[p + k] = c - r * d
      BY <2>9, <3>1, <3>2, <3>5
    <3>8. c + r * d \in Int /\ c - r * d \in Int
      OBVIOUS
    <3>9. lw[j] = tx[j] /\ lw[j] \in Int
      BY <2>1, <3>1, <3>6, <3>7, <3>8
    <3> QED  BY <3>9, SameSelf
  <2> QED  BY <2>11, <2>12
<1> QED  BY <1>1, <1>2, <1>4 DEF Equal

LEMMA Induction ==
    ASSUME NEW S \in SUBSET Nat, 0 \in S, \A m \in S : m + 1 \in S
    PROVE  \A m \in Nat : m \in S
<1> SUFFICES ASSUME NEW z \in Nat, z \notin S PROVE FALSE
  OBVIOUS
<1>1. PICK R : R = OpToRel(<, Nat)
  OBVIOUS
<1>2. IsWellFoundedOn(R, Nat)
  BY <1>1, NatLessThanWellFounded
<1>3. PICK m \in Nat \ S : \A y \in Nat \ S : ~(<<y, m>> \in R)
  <2>1. Nat \ S \subseteq Nat /\ Nat \ S # {}
    OBVIOUS
  <2>2. \E x \in Nat \ S : \A y \in Nat \ S : ~(<<y, x>> \in R)
    BY <1>2, <2>1, WFMin
  <2> QED  BY <2>2
<1>4. m # 0 /\ m - 1 \in Nat
  BY <1>3
<1>5. m - 1 \notin S
  BY <1>3, <1>4
<1>6. <<m - 1, m>> \in R
  BY <1>1, <1>3, <1>4 DEF OpToRel
<1> QED  BY <1>3, <1>4, <1>5, <1>6

-----------------------------------------------------------------------------
(* The levels, outermost first. *)
Width(n) == CASE n = 0 -> 128 [] n = 1 -> 64 [] n = 2 -> 32 [] n = 3 -> 16
              [] n = 4 -> 8 [] n = 5 -> 4 [] n = 6 -> 2 [] n = 7 -> 1

After(sc, n, V) ==
    LET v1 == Level(sc, 128, V)
        v2 == Level(sc, 64, v1)
        v3 == Level(sc, 32, v2)
        v4 == Level(sc, 16, v3)
        v5 == Level(sc, 8, v4)
        v6 == Level(sc, 4, v5)
        v7 == Level(sc, 2, v6)
    IN  CASE n = 0 -> V [] n = 1 -> v1 [] n = 2 -> v2 [] n = 3 -> v3 [] n = 4 -> v4
          [] n = 5 -> v5 [] n = 6 -> v6 [] n = 7 -> v7 [] n = 8 -> Level(sc, 1, v7)

(* The size of the blocks after n levels. *)
Size(n) == IF n = 0 THEN 256 ELSE Width(n - 1)

LEMMA AfterStep ==
    ASSUME NEW sc, NEW n \in 0 .. 7, NEW V
    PROVE  After(sc, n + 1, V) = Level(sc, Width(n), After(sc, n, V))
<1>1. /\ 0 + 1 = 1 /\ 1 + 1 = 2 /\ 2 + 1 = 3 /\ 3 + 1 = 4 /\ 4 + 1 = 5 /\ 5 + 1 = 6 /\ 6 + 1 = 7
      /\ 7 + 1 = 8 /\ (n = 0 \/ n = 1 \/ n = 2 \/ n = 3 \/ n = 4 \/ n = 5 \/ n = 6 \/ n = 7)
  OBVIOUS
<1>2. CASE n = 0
  BY <1>1, <1>2 DEF After, Width
<1>3. CASE n = 1
  BY <1>1, <1>3 DEF After, Width
<1>4. CASE n = 2
  BY <1>1, <1>4 DEF After, Width
<1>5. CASE n = 3
  BY <1>1, <1>5 DEF After, Width
<1>6. CASE n = 4
  BY <1>1, <1>6 DEF After, Width
<1>7. CASE n = 5
  BY <1>1, <1>7 DEF After, Width
<1>8. CASE n = 6
  BY <1>1, <1>8 DEF After, Width
<1>9. CASE n = 7
  BY <1>1, <1>9 DEF After, Width
<1> QED  BY <1>1, <1>2, <1>3, <1>4, <1>5, <1>6, <1>7, <1>8, <1>9

Levels(sc) == IF sc = "kyber" THEN 7 ELSE 8

LEMMA Widths ==
    ASSUME NEW sc, NEW n \in Nat, n < Levels(sc)
    PROVE  /\ n \in 0 .. 7 /\ Width(n) \in Widths2 /\ Size(n) = 2 * Width(n)
           /\ Size(n + 1) = Width(n)
           /\ 128 \div Width(n) \in Nat \ {0} /\ 2 * (128 \div Width(n)) <= Nodes(sc)
<1>1. n \in 0 .. 7 /\ (sc = "kyber" => n < 7)
  BY DEF Levels
<1>2. Size(n + 1) = Width(n)
  <2>1. n + 1 # 0 /\ (n + 1) - 1 = n
    OBVIOUS
  <2> QED  BY <2>1 DEF Size
<1>3. Width(n) \in Widths2 /\ Size(n) = 2 * Width(n)
  BY <1>1, SMT DEF Width, Size, Widths2
<1>4. 128 \div Width(n) \in Nat \ {0} /\ 2 * (128 \div Width(n)) <= Nodes(sc)
  BY <1>1, SMT DEF Width, Nodes
<1> QED  BY <1>1, <1>2, <1>3, <1>4

LEMMA RootsAre ==
    ASSUME NEW sc, AllRooted(sc), NEW n \in Nat, n < Levels(sc)
    PROVE  \A m \in Nat \ {0} : m < 2 * (128 \div Width(n)) => Rooted(sc, m) /\ Root(sc, m) \in Int
<1>1. PICK d \in Nat : d = 128 \div Width(n) /\ 2 * d <= Nodes(sc)
  BY Widths
<1>2. Nodes(sc) \in Nat
  BY DEF Nodes
<1>3. ASSUME NEW m \in Nat \ {0}, m < 2 * d PROVE Rooted(sc, m) /\ Root(sc, m) \in Int
  <2>1. m < Nodes(sc)
    BY <1>1, <1>2, <1>3
  <2>2. Rooted(sc, m)
    BY <2>1 DEF AllRooted
  <2> QED  BY <2>2 DEF Rooted
<1> QED  BY <1>1, <1>3

LEMMA AfterIn ==
    ASSUME NEW sc, AllRooted(sc), NEW V \in Polys
    PROVE  \A n \in Nat : n <= Levels(sc) => After(sc, n, V) \in Polys
<1>1. PICK S \in SUBSET Nat : S = {n \in Nat : n <= Levels(sc) => After(sc, n, V) \in Polys}
  OBVIOUS
<1>2. 0 \in S
  BY <1>1 DEF After
<1>3. ASSUME NEW n \in S PROVE n + 1 \in S
  <2>1. SUFFICES ASSUME n + 1 <= Levels(sc) PROVE After(sc, n + 1, V) \in Polys
    BY <1>1
  <2>2. n < Levels(sc) /\ n <= Levels(sc) /\ n \in Nat
    BY <1>1, <2>1 DEF Levels
  <2>3. PICK u \in Polys : u = After(sc, n, V)
    BY <1>1, <2>2
  <2>4. n \in 0 .. 7 /\ Width(n) \in Widths2
    BY <2>2, Widths
  <2>5. \A m \in Nat \ {0} : m < 2 * (128 \div Width(n)) => Root(sc, m) \in Int
    BY <2>2, RootsAre
  <2>6. Level(sc, Width(n), u) \in Polys
    BY <2>4, <2>5, LevelIn
  <2> QED  BY <2>3, <2>4, <2>6, AfterStep
<1>4. \A n \in Nat : n \in S
  BY <1>2, <1>3, Induction
<1> QED  BY <1>1, <1>4

LEMMA LevelSame ==
    ASSUME NEW sc \in Arithmetics, NEW len \in Widths2, NEW u \in Polys, NEW V \in Polys, Equal(sc, u, V),
           \A n \in Nat \ {0} : n < 2 * (128 \div len) => Root(sc, n) \in Int
    PROVE  Equal(sc, Level(sc, len, u), Level(sc, len, V))
<1>1. PICK lu, lv : lu = Level(sc, len, u) /\ lv = Level(sc, len, V)
  OBVIOUS
<1>2. PICK q \in Nat \ {0} : q = Transforms!Modulus(sc)
  BY Moduli
<1>3. ASSUME NEW j \in Index PROVE Same(q, lu[j], lv[j])
  <2>1. PICK e \in Nat, p \in Nat, y \in Nat, i \in Nat :
            InBlock(len, j, e, p, i) /\ y < len /\ (j = p + y \/ j = p + (y + len))
    BY <1>3, Split
  <2>2. PICK n \in Nat \ {0} : n = 128 \div len
    BY AllBlocks DEF BlocksOf
  <2>3. e < n /\ \A z \in Nat : z < 2 * len => p + z \in Index
    BY <2>1, <2>2 DEF InBlock, Inside
  <2>4. PICK r \in Int : r = Root(sc, n + e)
    <3>1. n + e \in Nat \ {0} /\ n + e < 2 * n
      BY <2>3
    <3> QED  BY <2>2, <3>1
  <2>5. PICK x \in Index, x2 \in Index : x = p + y /\ x2 = p + (y + len)
    <3>1. len \in Nat /\ y < 2 * len /\ y + len \in Nat /\ y + len < 2 * len
      BY <2>1 DEF Widths2
    <3> QED  BY <2>3, <3>1
  <2>6. /\ lu[x] = u[x] + r * u[x2] /\ lu[x2] = u[x] - r * u[x2]
        /\ lv[x] = V[x] + r * V[x2] /\ lv[x2] = V[x] - r * V[x2]
    <3>1. Pair(sc, len, u, e, p, y)
      BY <2>1, LevelIs
    <3>2. Pair(sc, len, V, e, p, y)
      BY <2>1, LevelIs
    <3> QED  BY <1>1, <2>2, <2>4, <2>5, <3>1, <3>2 DEF Pair
  <2>7. PICK c \in Int, d \in Int, c2 \in Int, d2 \in Int :
            c = u[x] /\ d = u[x2] /\ c2 = V[x] /\ d2 = V[x2]
    BY DEF Polys
  <2>8. Same(q, c, c2) /\ Same(q, d, d2)
    BY <1>2, <2>7 DEF Equal
  <2>9. PICK m \in Int, m2 \in Int : m = r * d /\ m2 = r * d2
    OBVIOUS
  <2>10. Same(q, m, m2)
    BY <2>8, <2>9, SameTimes
  <2>11. Same(q, c + m, c2 + m2) /\ Same(q, c - m, c2 - m2)
    BY <2>8, <2>10, SameSum
  <2> QED  BY <2>1, <2>5, <2>6, <2>7, <2>9, <2>11
<1> QED  BY <1>1, <1>2, <1>3 DEF Equal

LEMMA EqualThrough ==
    ASSUME NEW sc \in Arithmetics, NEW u \in Polys, NEW V \in Polys, NEW x \in Polys,
           Equal(sc, u, V), Equal(sc, V, x)
    PROVE  Equal(sc, u, x)
<1>1. PICK q \in Nat \ {0} : q = Transforms!Modulus(sc)
  BY Moduli
<1>2. ASSUME NEW j \in Index PROVE Same(q, u[j], x[j])
  <2>1. Same(q, u[j], V[j]) /\ Same(q, V[j], x[j])
    BY <1>1 DEF Equal
  <2>2. u[j] \in Int /\ V[j] \in Int /\ x[j] \in Int
    BY DEF Polys
  <2> QED  BY <2>1, <2>2, SameThrough
<1> QED  BY <1>1, <1>2 DEF Equal

LEMMA EqualSelf == ASSUME NEW sc \in Arithmetics, NEW u \in Polys PROVE Equal(sc, u, u)
<1>1. PICK q \in Nat \ {0} : q = Transforms!Modulus(sc)
  BY Moduli
<1>2. ASSUME NEW j \in Index PROVE Same(q, u[j], u[j])
  BY SameSelf DEF Polys
<1> QED  BY <1>1, <1>2 DEF Equal

LEMMA EqualTurned ==
    ASSUME NEW sc \in Arithmetics, NEW u \in Polys, NEW V \in Polys, Equal(sc, u, V)
    PROVE  Equal(sc, V, u)
<1>1. PICK q \in Nat \ {0} : q = Transforms!Modulus(sc)
  BY Moduli
<1>2. ASSUME NEW j \in Index PROVE Same(q, V[j], u[j])
  <2>1. Same(q, u[j], V[j]) /\ u[j] \in Int /\ V[j] \in Int
    BY <1>1 DEF Equal, Polys
  <2> QED  BY <2>1, SameTurned
<1> QED  BY <1>1, <1>2 DEF Equal

-----------------------------------------------------------------------------
(* Where the coefficient before is, and the last one of the block. *)
Places(size, j) ==
    /\ j \div size \in Nat /\ j \div size < 256 \div size
    /\ j % size = 0 => j + size - 1 \in Index
    /\ j % size # 0 => j - 1 \in Index

Sizes2 == {1, 2, 4, 8, 16, 32, 64, 128, 256}

LEMMA PlacesAre == ASSUME NEW size \in Sizes2 PROVE \A j \in Index : Places(size, j)
<1>1. CASE size = 1
  BY <1>1, SMT DEF Places, Index
<1>2. CASE size = 2
  BY <1>2, SMT DEF Places, Index
<1>3. CASE size = 4
  BY <1>3, SMT DEF Places, Index
<1>4. CASE size = 8
  BY <1>4, SMT DEF Places, Index
<1>5. CASE size = 16
  BY <1>5, SMT DEF Places, Index
<1>6. CASE size = 32
  BY <1>6, SMT DEF Places, Index
<1>7. CASE size = 64
  BY <1>7, SMT DEF Places, Index
<1>8. CASE size = 128
  BY <1>8, SMT DEF Places, Index
<1>9. CASE size = 256
  BY <1>9, SMT DEF Places, Index
<1> QED  BY <1>1, <1>2, <1>3, <1>4, <1>5, <1>6, <1>7, <1>8, <1>9 DEF Sizes2

LEMMA TurnedSame ==
    ASSUME NEW sc \in Arithmetics, NEW size \in Sizes2, NEW u \in Polys, NEW V \in Polys,
           \A n \in Nat \ {0} : n < 2 * (256 \div size) => Turn(sc, n) \in Int
    PROVE  /\ Turned(sc, size, u) \in Polys
           /\ Equal(sc, u, V) => Equal(sc, Turned(sc, size, u), Turned(sc, size, V))
<1>1. PICK tu, tv : tu = Turned(sc, size, u) /\ tv = Turned(sc, size, V)
  OBVIOUS
<1>2. PICK q \in Nat \ {0} : q = Transforms!Modulus(sc)
  BY Moduli
<1>3. PICK n \in Nat \ {0} : n = 256 \div size
  BY SMT DEF Sizes2
<1>4. /\ tu = [j \in Index |-> IF j % size = 0 THEN Turn(sc, n + j \div size) * u[j + size - 1] ELSE u[j - 1]]
      /\ tv = [j \in Index |-> IF j % size = 0 THEN Turn(sc, n + j \div size) * V[j + size - 1] ELSE V[j - 1]]
  BY <1>1, <1>3 DEF Turned
<1>5. ASSUME NEW j \in Index PROVE tu[j] \in Int /\ (Equal(sc, u, V) => Same(q, tu[j], tv[j]))
  <2>1. CASE j % size = 0
    <3>1. PICK x \in Index, e \in Nat : x = j + size - 1 /\ e = j \div size /\ e < n
      BY <1>3, <2>1, PlacesAre DEF Places
    <3>2. PICK T \in Int : T = Turn(sc, n + e)
      <4>1. n + e \in Nat \ {0} /\ n + e < 2 * n
        BY <3>1
      <4> QED  BY <1>3, <4>1
    <3>3. PICK c \in Int, d \in Int : c = u[x] /\ d = V[x]
      BY DEF Polys
    <3>4. tu[j] = T * c /\ tv[j] = T * d
      BY <1>4, <2>1, <3>1, <3>2, <3>3
    <3>5. Equal(sc, u, V) => Same(q, c, d)
      BY <1>2, <3>3 DEF Equal
    <3>6. T * c \in Int
      OBVIOUS
    <3>7. Same(q, c, d) => Same(q, T * c, T * d)
      BY SameTimes
    <3> QED  BY <3>4, <3>5, <3>6, <3>7
  <2>2. CASE j % size # 0
    <3>1. PICK x \in Index : x = j - 1
      BY <2>2, PlacesAre DEF Places
    <3>2. tu[j] = u[x] /\ tv[j] = V[x]
      BY <1>4, <2>2, <3>1
    <3>3. u[x] \in Int
      BY DEF Polys
    <3> QED  BY <1>2, <3>2, <3>3 DEF Equal
  <2> QED  BY <2>1, <2>2
<1>6. tu \in Polys
  <2>1. tu = [j \in Index |-> tu[j]]
    BY <1>4
  <2> QED  BY <1>5, <2>1 DEF Polys
<1> QED  BY <1>1, <1>2, <1>5, <1>6 DEF Equal

LEMMA TurnIn ==
    ASSUME NEW sc, AllRooted(sc), NEW n \in Nat \ {0}, n < 2 * Nodes(sc)
    PROVE  Turn(sc, n) \in Int
<1>1. PICK m \in Nat : m = n \div 2
  OBVIOUS
<1>2. CASE n = 1
  BY <1>2 DEF Turn
<1>3. CASE n # 1
  <2>1. Nodes(sc) \in Nat
    BY DEF Nodes
  <2>2. m # 0 /\ m < Nodes(sc)
    BY <1>1, <1>3, <2>1
  <2>3. Rooted(sc, m)
    BY <2>2 DEF AllRooted
  <2>4. PICK r \in Int : r = Root(sc, m)
    BY <2>3 DEF Rooted
  <2>5. -r \in Int
    OBVIOUS
  <2> QED  BY <1>1, <1>3, <2>4, <2>5 DEF Turn
<1> QED  BY <1>2, <1>3

LEMMA SizesAre ==
    ASSUME NEW sc, NEW n \in Nat, n <= Levels(sc)
    PROVE  Size(n) \in Sizes2 /\ 2 * (256 \div Size(n)) <= 2 * Nodes(sc) /\ 256 \div Size(n) \in Nat \ {0}
<1>1. n \in 0 .. 8 /\ (sc = "kyber" => n <= 7)
  BY DEF Levels
<1> QED  BY <1>1, SMT DEF Size, Width, Nodes, Sizes2

LEMMA TurnedIn ==
    ASSUME NEW sc \in Arithmetics, AllRooted(sc), NEW n \in Nat, n <= Levels(sc),
           NEW u \in Polys, NEW V \in Polys
    PROVE  /\ Turned(sc, Size(n), u) \in Polys
           /\ Equal(sc, u, V) => Equal(sc, Turned(sc, Size(n), u), Turned(sc, Size(n), V))
<1>1. PICK size \in Sizes2, d \in Nat : size = Size(n) /\ d = 256 \div size /\ 2 * d <= 2 * Nodes(sc)
  BY SizesAre
<1>2. ASSUME NEW m \in Nat \ {0}, m < 2 * d PROVE Turn(sc, m) \in Int
  <2>1. Nodes(sc) \in Nat
    BY DEF Nodes
  <2>2. m < 2 * Nodes(sc)
    BY <1>1, <1>2, <2>1
  <2> QED  BY <2>2, TurnIn
<1> QED  BY <1>1, <1>2, TurnedSame

(* To turn a polynomial before or after the transform. *)
LEMMA AfterTurned ==
    ASSUME NEW sc \in Arithmetics, AllRooted(sc), NEW V \in Polys
    PROVE  \A n \in Nat : n <= Levels(sc) =>
              Equal(sc, After(sc, n, Turned(sc, 256, V)), Turned(sc, Size(n), After(sc, n, V)))
<1>1. PICK tv \in Polys : tv = Turned(sc, 256, V)
  <2>1. 0 \in Nat /\ 0 <= Levels(sc) /\ Size(0) = 256
    BY DEF Levels, Size
  <2>2. Turned(sc, Size(0), V) \in Polys
    BY <2>1, TurnedIn
  <2> QED  BY <2>1, <2>2
<1>2. PICK S \in SUBSET Nat :
         S = {n \in Nat : n <= Levels(sc) => Equal(sc, After(sc, n, tv), Turned(sc, Size(n), After(sc, n, V)))}
  OBVIOUS
<1>3. 0 \in S
  <2>1. After(sc, 0, tv) = tv /\ After(sc, 0, V) = V /\ Size(0) = 256
    BY DEF After, Size
  <2>2. Equal(sc, tv, tv)
    BY EqualSelf
  <2> QED  BY <1>1, <1>2, <2>1, <2>2
<1>4. ASSUME NEW n \in S PROVE n + 1 \in S
  <2>1. SUFFICES ASSUME n + 1 <= Levels(sc)
                 PROVE  Equal(sc, After(sc, n + 1, tv), Turned(sc, Size(n + 1), After(sc, n + 1, V)))
    BY <1>2
  <2>2. n < Levels(sc) /\ n <= Levels(sc) /\ n \in Nat
    BY <1>2, <2>1 DEF Levels
  <2>3. PICK len \in Widths2 :
            n \in 0 .. 7 /\ len = Width(n) /\ Size(n) = 2 * len /\ Size(n + 1) = len
    BY <2>2, Widths
  <2>4. PICK a \in Polys, b \in Polys, c \in Polys, d \in Polys :
            /\ a = After(sc, n, tv) /\ b = After(sc, n, V)
            /\ c = After(sc, n + 1, tv) /\ d = After(sc, n + 1, V)
    BY <2>1, <2>2, AfterIn
  <2>5. c = Level(sc, len, a) /\ d = Level(sc, len, b)
    BY <2>3, <2>4, AfterStep
  <2>6. PICK T \in Polys : T = Turned(sc, 2 * len, b) /\ Equal(sc, a, T)
    <3>1. Equal(sc, a, Turned(sc, Size(n), b))
      BY <1>2, <2>2, <2>4
    <3>2. Turned(sc, Size(n), b) \in Polys
      BY <2>2, TurnedIn
    <3> QED  BY <2>3, <3>1, <3>2
  <2>7. \A m \in Nat \ {0} : m < 2 * (128 \div len) => Rooted(sc, m) /\ Root(sc, m) \in Int
    BY <2>2, <2>3, RootsAre
  <2>8. PICK lt \in Polys : lt = Level(sc, len, T) /\ Equal(sc, c, lt)
    <3>1. Equal(sc, Level(sc, len, a), Level(sc, len, T))
      BY <2>6, <2>7, LevelSame
    <3>2. Level(sc, len, T) \in Polys
      BY <2>7, LevelIn
    <3> QED  BY <2>5, <3>1, <3>2
  <2>9. PICK td \in Polys : td = Turned(sc, len, d) /\ Equal(sc, lt, td)
    <3>1. Equal(sc, Level(sc, len, T), Turned(sc, len, Level(sc, len, b)))
      BY <2>6, <2>7, Commute
    <3>2. Turned(sc, Size(n + 1), d) \in Polys
      BY <2>1, TurnedIn
    <3> QED  BY <2>3, <2>5, <2>8, <3>1, <3>2
  <2>10. Equal(sc, c, td)
    BY <2>8, <2>9, EqualThrough
  <2> QED  BY <2>3, <2>4, <2>9, <2>10
<1>5. \A n \in Nat : n \in S
  BY <1>3, <1>4, Induction
<1> QED  BY <1>1, <1>2, <1>5

-----------------------------------------------------------------------------
(* The polynomial 1 in every block. *)
One(size) == [j \in Index |-> IF j % size = 0 THEN 1 ELSE 0]

LEMMA LevelOne ==
    ASSUME NEW sc, NEW len \in Widths2,
           \A n \in Nat \ {0} : n < 2 * (128 \div len) => Root(sc, n) \in Int
    PROVE  Level(sc, len, One(2 * len)) = One(len)
<1>1. PICK u, V, lu, size : u = One(2 * len) /\ V = One(len) /\ lu = Level(sc, len, u) /\ size = 2 * len
  OBVIOUS
<1>2. ASSUME NEW j \in Index PROVE lu[j] = V[j]
  <2>1. PICK e \in Nat, p \in Nat, y \in Nat, i \in Nat :
            InBlock(len, j, e, p, i) /\ y < len /\ (j = p + y \/ j = p + (y + len))
    BY <1>2, Split
  <2>2. PICK n \in Nat \ {0} : n = 128 \div len
    BY AllBlocks DEF BlocksOf
  <2>3. /\ e < n
        /\ \A z \in Nat : z < size =>
              /\ p + z \in Index /\ (p + z) % size = z
              /\ z < len => (p + z) % len = z
              /\ z >= len => (p + z) % len = z - len
    BY <1>1, <2>1, <2>2 DEF InBlock, Inside
  <2>4. PICK r \in Int : r = Root(sc, n + e)
    <3>1. n + e \in Nat \ {0} /\ n + e < 2 * n
      BY <2>3
    <3> QED  BY <2>2, <3>1
  <2>5. y < size /\ y + len \in Nat /\ y + len < size /\ y + len >= len /\ (y + len) - len = y /\ y + len # 0
    BY <1>1, <2>1 DEF Widths2
  <2>6. PICK x \in Index, x2 \in Index : x = p + y /\ x2 = p + (y + len)
    BY <2>3, <2>5
  <2>7. x % size = y /\ x2 % size # 0 /\ x % len = y /\ x2 % len = y
    BY <2>1, <2>3, <2>5, <2>6
  <2>8. lu[x] = u[x] + r * u[x2] /\ lu[x2] = u[x] - r * u[x2]
    <3>1. Pair(sc, len, u, e, p, y)
      BY <2>1, LevelIs
    <3> QED  BY <1>1, <2>2, <2>4, <2>6, <3>1 DEF Pair
  <2>9. u[x2] = 0 /\ u[x] = (IF y = 0 THEN 1 ELSE 0) /\ V[x] = u[x] /\ V[x2] = u[x]
    BY <1>1, <2>7 DEF One
  <2>10. u[x] \in Int /\ u[x] + r * 0 = u[x] /\ u[x] - r * 0 = u[x]
    BY <2>9
  <2> QED  BY <2>1, <2>6, <2>8, <2>9, <2>10
<1>3. lu = [j \in Index |-> lu[j]] /\ V = [j \in Index |-> V[j]]
  BY <1>1 DEF Level, One
<1> QED  BY <1>1, <1>2, <1>3

LEMMA AfterOne ==
    ASSUME NEW sc \in Arithmetics, AllRooted(sc)
    PROVE  \A n \in Nat : n <= Levels(sc) => After(sc, n, One(256)) = One(Size(n))
<1>1. PICK S \in SUBSET Nat : S = {n \in Nat : n <= Levels(sc) => After(sc, n, One(256)) = One(Size(n))}
  OBVIOUS
<1>2. 0 \in S
  BY <1>1 DEF After, Size
<1>3. ASSUME NEW n \in S PROVE n + 1 \in S
  <2>1. SUFFICES ASSUME n + 1 <= Levels(sc) PROVE After(sc, n + 1, One(256)) = One(Size(n + 1))
    BY <1>1
  <2>2. n < Levels(sc) /\ n <= Levels(sc) /\ n \in Nat
    BY <1>1, <2>1 DEF Levels
  <2>3. PICK len \in Widths2 :
            n \in 0 .. 7 /\ len = Width(n) /\ Size(n) = 2 * len /\ Size(n + 1) = len
    BY <2>2, Widths
  <2>4. \A m \in Nat \ {0} : m < 2 * (128 \div len) => Root(sc, m) \in Int
    BY <2>2, <2>3, RootsAre
  <2>5. After(sc, n, One(256)) = One(2 * len)
    BY <1>1, <2>2, <2>3
  <2> QED  BY <2>3, <2>4, <2>5, AfterStep, LevelOne
<1>4. \A n \in Nat : n \in S
  BY <1>2, <1>3, Induction
<1> QED  BY <1>1, <1>4

(* The product in the smallest blocks: pairs in Kyber.                     *)
Product(sc, u, V) ==
    IF sc = "kyber"
    THEN [j \in Index |->
            IF j % 2 = 0 THEN u[j] * V[j] + Turn(sc, 128 + j \div 2) * (u[j + 1] * V[j + 1])
                         ELSE u[j] * V[j - 1] + u[j - 1] * V[j]]
    ELSE [j \in Index |-> u[j] * V[j]]

Bottom(sc) == IF sc = "kyber" THEN 2 ELSE 1

LEMMA Pairs ==
    ASSUME NEW j \in Index
    PROVE  /\ j % 2 = 0 => j + 1 \in Index /\ (j + 1) % 2 # 0 /\ (j + 1) - 1 = j
           /\ j % 2 # 0 => j - 1 \in Index /\ (j - 1) % 2 = 0 /\ (j - 1) + 1 = j
           /\ j \div 2 \in Nat /\ 128 + j \div 2 \in Nat \ {0} /\ 128 + j \div 2 < 256
           /\ (j % 2 # 0 => (j - 1) \div 2 = j \div 2)
BY SMT DEF Index

LEMMA KyberTurns ==
    ASSUME AllRooted("kyber"), NEW j \in Index
    PROVE  Turn("kyber", 128 + j \div 2) \in Int
<1>1. PICK n \in Nat \ {0} : n = 128 + j \div 2 /\ n < 256
  BY Pairs
<1>2. n < 2 * Nodes("kyber")
  BY <1>1 DEF Nodes
<1> QED  BY <1>1, <1>2, TurnIn

LEMMA ProductIn ==
    ASSUME NEW sc \in Arithmetics, AllRooted(sc), NEW u \in Polys, NEW V \in Polys
    PROVE  Product(sc, u, V) \in Polys
<1>1. CASE sc = "kyber"
  <2>1. ASSUME NEW j \in Index PROVE Product(sc, u, V)[j] \in Int
    <3>1. CASE j % 2 = 0
      <4>1. PICK x \in Index : x = j + 1
        BY <3>1, Pairs
      <4>2. PICK a \in Int, b \in Int, c \in Int, d \in Int, T \in Int :
                a = u[j] /\ b = V[j] /\ c = u[x] /\ d = V[x] /\ T = Turn("kyber", 128 + j \div 2)
        BY <1>1, KyberTurns DEF Polys
      <4>3. Product(sc, u, V)[j] = a * b + T * (c * d)
        BY <1>1, <3>1, <4>1, <4>2 DEF Product
      <4> QED  BY <4>3
    <3>2. CASE j % 2 # 0
      <4>1. PICK x \in Index : x = j - 1
        BY <3>2, Pairs
      <4>2. PICK a \in Int, b \in Int, c \in Int, d \in Int :
                a = u[j] /\ b = V[j] /\ c = u[x] /\ d = V[x]
        BY DEF Polys
      <4>3. Product(sc, u, V)[j] = a * d + c * b
        BY <1>1, <3>2, <4>1, <4>2 DEF Product
      <4> QED  BY <4>3
    <3> QED  BY <3>1, <3>2
  <2>2. Product(sc, u, V) = [j \in Index |-> Product(sc, u, V)[j]]
    BY <1>1 DEF Product
  <2> QED  BY <2>1, <2>2 DEF Polys
<1>2. CASE sc # "kyber"
  <2>1. ASSUME NEW j \in Index PROVE u[j] * V[j] \in Int
    <3>1. u[j] \in Int /\ V[j] \in Int
      BY DEF Polys
    <3> QED  BY <3>1
  <2>2. Product(sc, u, V) = [j \in Index |-> u[j] * V[j]]
    BY <1>2 DEF Product
  <2> QED  BY <2>1, <2>2 DEF Polys
<1> QED  BY <1>1, <1>2

LEMMA ProductOne ==
    ASSUME NEW sc \in Arithmetics, AllRooted(sc), NEW V \in Polys
    PROVE  Product(sc, One(Bottom(sc)), V) = V
<1>1. PICK u, uv : u = One(Bottom(sc)) /\ uv = Product(sc, u, V)
  OBVIOUS
<1>2. ASSUME NEW j \in Index PROVE uv[j] = V[j]
  <2>1. CASE sc = "kyber" /\ j % 2 = 0
    <3>1. PICK x \in Index : x = j + 1 /\ x % 2 # 0
      BY <2>1, Pairs
    <3>2. PICK b \in Int, d \in Int, T \in Int :
              b = V[j] /\ d = V[x] /\ T = Turn("kyber", 128 + j \div 2)
      BY <2>1, KyberTurns DEF Polys
    <3>3. u[j] = 1 /\ u[x] = 0
      BY <1>1, <2>1, <3>1 DEF One, Bottom
    <3>4. uv[j] = 1 * b + T * (0 * d)
      BY <1>1, <2>1, <3>1, <3>2, <3>3 DEF Product
    <3> QED  BY <3>2, <3>4
  <2>2. CASE sc = "kyber" /\ j % 2 # 0
    <3>1. PICK x \in Index : x = j - 1 /\ x % 2 = 0
      BY <2>2, Pairs
    <3>2. PICK b \in Int, d \in Int : b = V[j] /\ d = V[x]
      BY DEF Polys
    <3>3. u[j] = 0 /\ u[x] = 1
      BY <1>1, <2>2, <3>1 DEF One, Bottom
    <3>4. uv[j] = 0 * d + 1 * b
      BY <1>1, <2>2, <3>1, <3>2, <3>3 DEF Product
    <3> QED  BY <3>2, <3>4
  <2>3. CASE sc # "kyber"
    <3>1. j % 1 = 0
      BY DEF Index
    <3>2. u[j] = 1
      BY <1>1, <2>3, <3>1 DEF One, Bottom
    <3>3. PICK b \in Int : b = V[j]
      BY DEF Polys
    <3>4. uv[j] = 1 * b
      BY <1>1, <2>3, <3>2, <3>3 DEF Product
    <3> QED  BY <3>3, <3>4
  <2> QED  BY <2>1, <2>2, <2>3
<1>3. uv = [j \in Index |-> uv[j]] /\ V = [j \in Index |-> V[j]]
  BY <1>1 DEF Product, Polys
<1> QED  BY <1>1, <1>2, <1>3

(* One turn of a factor is one of the product. *)
LEMMA ProductTurned ==
    ASSUME NEW sc \in Arithmetics, AllRooted(sc), NEW u \in Polys, NEW V \in Polys
    PROVE  Product(sc, Turned(sc, Bottom(sc), u), V) = Turned(sc, Bottom(sc), Product(sc, u, V))
<1>1. PICK tu, tuv, uv, tp : /\ tu = Turned(sc, Bottom(sc), u) /\ tuv = Product(sc, tu, V)
                             /\ uv = Product(sc, u, V) /\ tp = Turned(sc, Bottom(sc), uv)
  OBVIOUS
<1>2. CASE sc = "kyber"
  <2>1. 256 \div 2 = 128
    OBVIOUS
  <2>2. /\ tu = [j \in Index |-> IF j % 2 = 0 THEN Turn("kyber", 128 + j \div 2) * u[j + 2 - 1] ELSE u[j - 1]]
        /\ tp = [j \in Index |-> IF j % 2 = 0 THEN Turn("kyber", 128 + j \div 2) * uv[j + 2 - 1] ELSE uv[j - 1]]
    BY <1>1, <1>2, <2>1 DEF Turned, Bottom
  <2>3. ASSUME NEW j \in Index, NEW x \in Index, j % 2 = 0, x = j + 1
        PROVE  tuv[j] = tp[j] /\ tuv[x] = tp[x]
    <3>1. j + 2 - 1 = x /\ x - 1 = j /\ x % 2 # 0 /\ x \div 2 = j \div 2
      BY <2>3, SMT DEF Index
    <3>2. PICK a \in Int, b \in Int, c \in Int, d \in Int, T \in Int :
              a = u[j] /\ b = V[j] /\ c = u[x] /\ d = V[x] /\ T = Turn("kyber", 128 + j \div 2)
      BY KyberTurns, <1>2 DEF Polys
    <3>3. tu[j] = T * c /\ tu[x] = a
      BY <2>2, <2>3, <3>1, <3>2
    <3>4. uv[j] = a * b + T * (c * d) /\ uv[x] = c * b + a * d
      BY <1>1, <1>2, <2>3, <3>1, <3>2 DEF Product
    <3>5. tuv[j] = (T * c) * b + T * (a * d) /\ tuv[x] = a * b + (T * c) * d
      BY <1>1, <1>2, <2>3, <3>1, <3>2, <3>3 DEF Product
    <3>6. tp[j] = T * (c * b + a * d) /\ tp[x] = a * b + T * (c * d)
      BY <2>2, <2>3, <3>1, <3>2, <3>4
    <3>7. (T * c) * b + T * (a * d) = T * (c * b + a * d) /\ a * b + (T * c) * d = a * b + T * (c * d)
      OBVIOUS
    <3> QED  BY <3>5, <3>6, <3>7
  <2>4. ASSUME NEW j \in Index PROVE tuv[j] = tp[j]
    <3>1. CASE j % 2 = 0
      <4>1. PICK x \in Index : x = j + 1
        BY <3>1, Pairs
      <4> QED  BY <2>3, <3>1, <4>1
    <3>2. CASE j % 2 # 0
      <4>1. PICK x \in Index : x = j - 1 /\ x % 2 = 0 /\ x + 1 = j
        BY <3>2, Pairs
      <4> QED  BY <2>3, <4>1
    <3> QED  BY <3>1, <3>2
  <2>5. tuv = [j \in Index |-> tuv[j]] /\ tp = [j \in Index |-> tp[j]]
    BY <1>1, <1>2, <2>2 DEF Product
  <2> QED  BY <1>1, <2>4, <2>5
<1>3. CASE sc # "kyber"
  <2>1. ASSUME NEW j \in Index PROVE j % 1 = 0 /\ j + 1 - 1 = j
    BY DEF Index
  <2>2. /\ tu = [j \in Index |-> Turn(sc, 256 \div 1 + j \div 1) * u[j]]
        /\ tp = [j \in Index |-> Turn(sc, 256 \div 1 + j \div 1) * uv[j]]
    BY <1>1, <1>3, <2>1 DEF Turned, Bottom
  <2>3. ASSUME NEW j \in Index PROVE tuv[j] = tp[j]
    <3>1. PICK n \in Nat \ {0} : n = 256 \div 1 + j \div 1 /\ n < 512
      BY SMT DEF Index
    <3>2. n < 2 * Nodes(sc)
      BY <1>3, <3>1 DEF Nodes
    <3>3. PICK a \in Int, b \in Int, T \in Int : a = u[j] /\ b = V[j] /\ T = Turn(sc, n)
      BY <3>2, TurnIn DEF Polys
    <3>4. tuv[j] = (T * a) * b /\ tp[j] = T * (a * b)
      BY <1>1, <1>3, <2>2, <3>1, <3>3 DEF Product
    <3>5. (T * a) * b = T * (a * b)
      OBVIOUS
    <3> QED  BY <3>4, <3>5
  <2>4. tuv = [j \in Index |-> tuv[j]] /\ tp = [j \in Index |-> tp[j]]
    BY <1>1, <1>3, <2>2 DEF Product
  <2> QED  BY <1>1, <2>3, <2>4
<1> QED  BY <1>1, <1>2, <1>3

IsSum(m, a, b, T, c, d) == m = a * b + T * (c * d)

LEMMA SumProducts ==
    ASSUME NEW q \in Int, NEW a \in Int, NEW b \in Int, NEW c \in Int, NEW d \in Int,
           NEW a2 \in Int, NEW b2 \in Int, NEW c2 \in Int, NEW d2 \in Int, NEW T \in Int,
           Same(q, a, a2), Same(q, b, b2), Same(q, c, c2), Same(q, d, d2),
           NEW m, NEW m2, IsSum(m, a, b, T, c, d), IsSum(m2, a2, b2, T, c2, d2)
    PROVE  Same(q, m, m2)
<1>1. PICK x \in Int, x2 \in Int, y \in Int, y2 \in Int :
          x = a * b /\ x2 = a2 * b2 /\ y = c * d /\ y2 = c2 * d2
  OBVIOUS
<1>2. Same(q, x, x2) /\ Same(q, y, y2)
  BY <1>1, SameProduct
<1>3. PICK z \in Int, z2 \in Int : z = T * y /\ z2 = T * y2
  OBVIOUS
<1>4. Same(q, z, z2)
  BY <1>2, <1>3, SameTimes
<1>5. Same(q, x + z, x2 + z2)
  BY <1>2, <1>4, SameSum
<1> QED  BY <1>1, <1>3, <1>5 DEF IsSum

LEMMA ProductSame ==
    ASSUME NEW sc \in Arithmetics, AllRooted(sc), NEW u \in Polys, NEW V \in Polys,
           NEW u2 \in Polys, NEW v2 \in Polys, Equal(sc, u, u2), Equal(sc, V, v2)
    PROVE  Equal(sc, Product(sc, u, V), Product(sc, u2, v2))
<1>1. PICK q \in Nat \ {0} : q = Transforms!Modulus(sc)
  BY Moduli
<1>2. PICK uv, uv2 : uv = Product(sc, u, V) /\ uv2 = Product(sc, u2, v2)
  OBVIOUS
<1>3. ASSUME NEW j \in Index PROVE Same(q, uv[j], uv2[j])
  <2>1. CASE sc = "kyber"
    <3>1. PICK x \in Index : x = (IF j % 2 = 0 THEN j + 1 ELSE j - 1)
      BY Pairs
    <3>2. PICK a \in Int, b \in Int, c \in Int, d \in Int, T \in Int :
              a = u[j] /\ b = V[j] /\ c = u[x] /\ d = V[x] /\ T = Turn("kyber", 128 + j \div 2)
      BY <2>1, KyberTurns DEF Polys
    <3>3. PICK a2 \in Int, b2 \in Int, c2 \in Int, d2 \in Int :
              a2 = u2[j] /\ b2 = v2[j] /\ c2 = u2[x] /\ d2 = v2[x]
      BY DEF Polys
    <3>4. Same(q, a, a2) /\ Same(q, b, b2) /\ Same(q, c, c2) /\ Same(q, d, d2)
      BY <1>1, <3>2, <3>3 DEF Equal
    <3>5. CASE j % 2 = 0
      <4>1. uv[j] = a * b + T * (c * d) /\ uv2[j] = a2 * b2 + T * (c2 * d2)
        BY <1>2, <2>1, <3>1, <3>2, <3>3, <3>5 DEF Product
      <4>2. IsSum(uv[j], a, b, T, c, d) /\ IsSum(uv2[j], a2, b2, T, c2, d2)
        BY <4>1 DEF IsSum
      <4> QED  BY <3>4, <4>2, SumProducts
    <3>6. CASE j % 2 # 0
      <4>1. uv[j] = a * d + c * b /\ uv2[j] = a2 * d2 + c2 * b2
        BY <1>2, <2>1, <3>1, <3>2, <3>3, <3>6 DEF Product
      <4>2. PICK o \in Int : o = 1
        OBVIOUS
      <4>3. a * d + c * b = a * d + o * (c * b) /\ a2 * d2 + c2 * b2 = a2 * d2 + o * (c2 * b2)
        BY <4>2
      <4>4. PICK m, m2 : m = uv[j] /\ m2 = uv2[j]
        OBVIOUS
      <4>5. IsSum(m, a, d, o, c, b) /\ IsSum(m2, a2, d2, o, c2, b2)
        BY <4>1, <4>3, <4>4 DEF IsSum
      <4>6. Same(q, m, m2)
        BY <3>4, <4>5, SumProducts
      <4> QED  BY <4>4, <4>6
    <3> QED  BY <3>5, <3>6
  <2>2. CASE sc # "kyber"
    <3>1. PICK a \in Int, b \in Int, a2 \in Int, b2 \in Int :
              a = u[j] /\ b = V[j] /\ a2 = u2[j] /\ b2 = v2[j]
      BY DEF Polys
    <3>2. Same(q, a, a2) /\ Same(q, b, b2)
      BY <1>1, <3>1 DEF Equal
    <3>3. uv[j] = a * b /\ uv2[j] = a2 * b2
      BY <1>2, <2>2, <3>1 DEF Product
    <3>4. Same(q, a * b, a2 * b2)
      BY <3>2, SameProduct
    <3> QED  BY <3>3, <3>4
  <2> QED  BY <2>1, <2>2
<1> QED  BY <1>1, <1>2, <1>3 DEF Equal

(* One turn of a whole polynomial. *)
LEMMA WholeTurn ==
    ASSUME NEW sc, NEW V \in Polys
    PROVE  Turned(sc, 256, V) = [j \in Index |-> IF j = 0 THEN -V[255] ELSE V[j - 1]]
<1>1. ASSUME NEW j \in Index
      PROVE  (j % 256 = 0 <=> j = 0) /\ 256 \div 256 + 0 \div 256 = 1 /\ 0 + 256 - 1 = 255
  BY SMT DEF Index
<1>2. PICK W : W = Turned(sc, 256, V)
  OBVIOUS
<1>3. W = [j \in Index |-> IF j = 0 THEN Turn(sc, 256 \div 256 + j \div 256) * V[j + 256 - 1] ELSE V[j - 1]]
  BY <1>1, <1>2 DEF Turned
<1>4. ASSUME NEW j \in Index PROVE W[j] = IF j = 0 THEN -V[255] ELSE V[j - 1]
  <2>1. CASE j = 0
    <3>1. PICK c \in Int : c = V[255]
      BY DEF Polys, Index
    <3>2. Turn(sc, 1) = -1 /\ -1 * c = -c
      BY DEF Turn
    <3> QED  BY <1>1, <1>3, <2>1, <3>1, <3>2
  <2>2. CASE j # 0
    BY <1>3, <2>2
  <2> QED  BY <2>1, <2>2
<1>5. W = [j \in Index |-> W[j]]
  BY <1>3
<1> QED  BY <1>2, <1>4, <1>5

LEMMA PowerTurned ==
    ASSUME NEW sc, NEW e \in Nat, e < 255
    PROVE  Turned(sc, 256, Transforms!Power(e)) = Transforms!Power(e + 1)
<1>1. PICK u, V : u = Transforms!Power(e) /\ V = Transforms!Power(e + 1)
  OBVIOUS
<1>2. u = [j \in Index |-> IF j = e THEN 1 ELSE 0] /\ V = [j \in Index |-> IF j = e + 1 THEN 1 ELSE 0]
  BY <1>1 DEF Transforms!Power, Index
<1>3. u \in Polys
  BY <1>2 DEF Polys
<1>4. Turned(sc, 256, u) = [j \in Index |-> IF j = 0 THEN -u[255] ELSE u[j - 1]]
  BY <1>3, WholeTurn
<1>5. ASSUME NEW j \in Index PROVE (IF j = 0 THEN -u[255] ELSE u[j - 1]) = V[j]
  <2>1. CASE j = 0
    <3>1. u[255] = 0 /\ V[0] = 0
      BY <1>2 DEF Index
    <3>2. PICK c \in Int : c = u[255] /\ c <= 0 /\ c >= 0
      BY <3>1
    <3>3. -c = 0
      BY <3>2
    <3> QED  BY <2>1, <3>1, <3>2, <3>3
  <2>2. CASE j # 0
    <3>1. j - 1 \in Index /\ (j - 1 = e <=> j = e + 1)
      BY <2>2 DEF Index
    <3> QED  BY <1>2, <2>2, <3>1
  <2> QED  BY <2>1, <2>2
<1>6. V = [j \in Index |-> V[j]]
  BY <1>2
<1> QED  BY <1>1, <1>4, <1>5, <1>6

LEMMA ShiftTurned ==
    ASSUME NEW sc, NEW e \in Nat, e < 255, NEW p \in Polys
    PROVE  /\ Transforms!ShiftedBy(e, p) \in Polys
           /\ Turned(sc, 256, Transforms!ShiftedBy(e, p)) = Transforms!ShiftedBy(e + 1, p)
<1>1. PICK u, V : u = Transforms!ShiftedBy(e, p) /\ V = Transforms!ShiftedBy(e + 1, p)
  OBVIOUS
<1>2. /\ u = [j \in Index |-> IF j >= e THEN p[j - e] ELSE -p[j + 256 - e]]
      /\ V = [j \in Index |-> IF j >= e + 1 THEN p[j - (e + 1)] ELSE -p[j + 256 - (e + 1)]]
  BY <1>1 DEF Transforms!ShiftedBy, Index
<1>3. u \in Polys
  <2>1. ASSUME NEW j \in Index PROVE u[j] \in Int
    <3>1. CASE j >= e
      <4>1. j - e \in Index
        BY <3>1 DEF Index
      <4>2. p[j - e] \in Int
        BY <4>1 DEF Polys
      <4> QED  BY <1>2, <3>1, <4>2
    <3>2. CASE ~(j >= e)
      <4>1. j + 256 - e \in Index
        BY <3>2 DEF Index
      <4>2. PICK c \in Int : c = p[j + 256 - e]
        BY <4>1 DEF Polys
      <4> QED  BY <1>2, <3>2, <4>2
    <3> QED  BY <3>1, <3>2
  <2>2. u = [j \in Index |-> u[j]]
    BY <1>2
  <2> QED  BY <2>1, <2>2 DEF Polys
<1>4. Turned(sc, 256, u) = [j \in Index |-> IF j = 0 THEN -u[255] ELSE u[j - 1]]
  BY <1>3, WholeTurn
<1>5. ASSUME NEW j \in Index PROVE (IF j = 0 THEN -u[255] ELSE u[j - 1]) = V[j]
  <2>1. CASE j = 0
    <3>1. PICK i, k : i = 255 - e /\ k = 0 + 256 - (e + 1)
      OBVIOUS
    <3>2. 255 \in Index /\ 255 >= e /\ i = k /\ 0 \in Index /\ ~(0 >= e + 1)
      BY <3>1 DEF Index
    <3>3. u[255] = p[i] /\ V[0] = -p[k]
      BY <1>2, <3>1, <3>2
    <3> QED  BY <2>1, <3>2, <3>3
  <2>2. CASE j # 0
    <3>1. PICK y \in Index : y = j - 1
      BY <2>2 DEF Index
    <3>2. /\ y >= e <=> j >= e + 1
          /\ y - e = j - (e + 1) /\ y + 256 - e = j + 256 - (e + 1)
      BY <3>1 DEF Index
    <3>3. u[y] = V[j]
      BY <1>2, <3>2
    <3> QED  BY <2>2, <3>1, <3>3
  <2> QED  BY <2>1, <2>2
<1>6. V = [j \in Index |-> V[j]]
  BY <1>2
<1> QED  BY <1>1, <1>3, <1>4, <1>5, <1>6

LEMMA NoShift ==
    ASSUME NEW p \in Polys
    PROVE  Transforms!ShiftedBy(0, p) = p /\ Transforms!Power(0) = One(256)
<1>1. PICK u : u = Transforms!ShiftedBy(0, p)
  OBVIOUS
<1>2. u = [j \in Index |-> IF j >= 0 THEN p[j - 0] ELSE -p[j + 256 - 0]]
  BY <1>1 DEF Transforms!ShiftedBy, Index
<1>3. ASSUME NEW j \in Index PROVE u[j] = p[j]
  <2>1. j >= 0 /\ j - 0 = j
    BY DEF Index
  <2> QED  BY <1>2, <2>1
<1>4. u = [j \in Index |-> u[j]] /\ p = [j \in Index |-> p[j]]
  BY <1>2 DEF Polys
<1>5. ASSUME NEW j \in Index PROVE j % 256 = 0 <=> j = 0
  BY SMT DEF Index
<1>6. Transforms!Power(0) = [j \in Index |-> IF j = 0 THEN 1 ELSE 0]
  BY DEF Transforms!Power, Index
<1>7. Transforms!Power(0) = One(256)
  BY <1>5, <1>6 DEF One
<1> QED  BY <1>1, <1>3, <1>4, <1>7

LEMMA PowerIn == ASSUME NEW e PROVE Transforms!Power(e) \in Polys
BY DEF Transforms!Power, Index, Polys

(* The transform of the product of the ring is the product of the          *)
(* transforms.                                                             *)
LEMMA TransformMultiplies ==
    ASSUME NEW sc \in Arithmetics, AllRooted(sc), NEW p \in Polys
    PROVE  \A e \in Nat : e < 256 =>
              /\ Transforms!ShiftedBy(e, p) \in Polys
              /\ Equal(sc, Product(sc, After(sc, Levels(sc), Transforms!Power(e)), After(sc, Levels(sc), p)),
                           After(sc, Levels(sc), Transforms!ShiftedBy(e, p)))
<1>1. PICK l \in Nat : l = Levels(sc)
  BY DEF Levels
<1>2. Size(l) = Bottom(sc)
  BY <1>1, SMT DEF Levels, Size, Width, Bottom
<1>3. PICK fp \in Polys : fp = After(sc, l, p)
  BY <1>1, AfterIn
<1>4. PICK S \in SUBSET Nat :
         S = {e \in Nat : e < 256 =>
                 /\ Transforms!ShiftedBy(e, p) \in Polys
                 /\ Equal(sc, Product(sc, After(sc, l, Transforms!Power(e)), fp),
                              After(sc, l, Transforms!ShiftedBy(e, p)))}
  OBVIOUS
<1>5. 0 \in S
  <2>1. After(sc, l, One(256)) = One(Bottom(sc))
    BY <1>1, <1>2, AfterOne
  <2>2. Product(sc, One(Bottom(sc)), fp) = fp
    BY ProductOne
  <2>3. Equal(sc, fp, fp)
    BY EqualSelf
  <2>4. Transforms!ShiftedBy(0, p) = p /\ Transforms!Power(0) = One(256)
    BY NoShift
  <2> QED  BY <1>3, <1>4, <2>1, <2>2, <2>3, <2>4
<1>6. ASSUME NEW e \in S PROVE e + 1 \in S
  <2>1. SUFFICES ASSUME e + 1 < 256
                 PROVE  /\ Transforms!ShiftedBy(e + 1, p) \in Polys
                        /\ Equal(sc, Product(sc, After(sc, l, Transforms!Power(e + 1)), fp),
                                     After(sc, l, Transforms!ShiftedBy(e + 1, p)))
    BY <1>4
  <2>2. e \in Nat /\ e < 256 /\ e < 255
    BY <1>4, <2>1
  <2>3. PICK x \in Polys, y \in Polys, sh \in Polys, sh2 \in Polys :
            /\ x = Transforms!Power(e) /\ y = Transforms!Power(e + 1) /\ y = Turned(sc, 256, x)
            /\ sh = Transforms!ShiftedBy(e, p) /\ sh2 = Transforms!ShiftedBy(e + 1, p)
            /\ sh2 = Turned(sc, 256, sh)
    <3>1. Transforms!Power(e + 1) = Turned(sc, 256, Transforms!Power(e))
      BY <2>2, PowerTurned
    <3>2. /\ Transforms!ShiftedBy(e, p) \in Polys
          /\ Transforms!ShiftedBy(e + 1, p) = Turned(sc, 256, Transforms!ShiftedBy(e, p))
      BY <2>2, ShiftTurned
    <3>3. 0 \in Nat /\ 0 <= Levels(sc) /\ Size(0) = 256
      BY <1>1 DEF Size
    <3>4. Turned(sc, Size(0), Transforms!ShiftedBy(e, p)) \in Polys
      BY <3>2, <3>3, TurnedIn
    <3> QED  BY <3>1, <3>2, <3>3, <3>4, PowerIn
  <2>4. PICK fx \in Polys, fy \in Polys, fs \in Polys, fs2 \in Polys :
            fx = After(sc, l, x) /\ fy = After(sc, l, y) /\ fs = After(sc, l, sh) /\ fs2 = After(sc, l, sh2)
    BY <1>1, AfterIn
  <2>5. PICK tx \in Polys, ts \in Polys :
            tx = Turned(sc, Bottom(sc), fx) /\ ts = Turned(sc, Bottom(sc), fs)
    BY <1>1, <1>2, TurnedIn
  <2>6. Equal(sc, fy, tx) /\ Equal(sc, fs2, ts)
    <3>1. Equal(sc, After(sc, l, Turned(sc, 256, x)), Turned(sc, Size(l), After(sc, l, x)))
      BY <1>1, AfterTurned
    <3>2. Equal(sc, After(sc, l, Turned(sc, 256, sh)), Turned(sc, Size(l), After(sc, l, sh)))
      BY <1>1, AfterTurned
    <3> QED  BY <1>2, <2>3, <2>4, <2>5, <3>1, <3>2
  <2>7. PICK a \in Polys, b \in Polys, c \in Polys :
            a = Product(sc, fy, fp) /\ b = Product(sc, tx, fp) /\ c = Product(sc, fx, fp)
    BY ProductIn
  <2>8. Equal(sc, a, b)
    <3>1. Equal(sc, fp, fp)
      BY EqualSelf
    <3> QED  BY <2>6, <2>7, <3>1, ProductSame
  <2>9. b = Turned(sc, Bottom(sc), c)
    BY <2>5, <2>7, ProductTurned
  <2>10. Equal(sc, c, fs)
    BY <1>4, <2>2, <2>3, <2>4, <2>7
  <2>11. Equal(sc, b, ts)
    BY <1>1, <1>2, <2>5, <2>9, <2>10, TurnedIn
  <2>12. Equal(sc, ts, fs2)
    BY <2>6, EqualTurned
  <2>13. Equal(sc, a, ts)
    BY <2>8, <2>11, EqualThrough
  <2>14. Equal(sc, a, fs2)
    BY <2>12, <2>13, EqualThrough
  <2> QED  BY <2>3, <2>4, <2>7, <2>14
<1>7. \A e \in Nat : e \in S
  BY <1>5, <1>6, Induction
<1> QED  BY <1>1, <1>3, <1>4, <1>7

LEMMA LoopsAre ==
    ASSUME NEW sc \in Arithmetics
    PROVE  /\ Transforms!Loops(sc) = Levels(sc)
           /\ \A n \in Nat : n < Levels(sc) => Transforms!Lens(sc)[n + 1] = Width(n)
           /\ \A n \in Nat : n < Levels(sc) => Transforms!InvLen(sc, n + 1) = Width(Levels(sc) - 1 - n)
           /\ 256 \div Transforms!InvLen(sc, 1) = Nodes(sc)
<1>1. Transforms!Loops(sc) = Levels(sc)
  BY DEF Transforms!Loops, Transforms!Lens, Levels
<1>2. ASSUME NEW n \in Nat, n < Levels(sc) PROVE Transforms!Lens(sc)[n + 1] = Width(n)
  <2>1. CASE sc = "kyber"
    BY <1>2, <2>1, SMT DEF Transforms!Lens, Levels, Width
  <2>2. CASE sc # "kyber"
    BY <1>2, <2>2, SMT DEF Transforms!Lens, Levels, Width
  <2> QED  BY <2>1, <2>2
<1>3. ASSUME NEW n \in Nat, n < Levels(sc)
      PROVE  Transforms!InvLen(sc, n + 1) = Width(Levels(sc) - 1 - n)
  <2>1. PICK m \in Nat : m = Levels(sc) - 1 - n /\ m < Levels(sc) /\ Levels(sc) + 1 - (n + 1) = m + 1
    BY <1>3 DEF Levels
  <2>2. Transforms!InvLen(sc, n + 1) = Transforms!Lens(sc)[m + 1]
    BY <1>1, <2>1 DEF Transforms!InvLen
  <2> QED  BY <1>2, <2>1, <2>2
<1>4. Transforms!InvLen(sc, 1) = Width(Levels(sc) - 1)
  <2>1. 0 + 1 = 1 /\ 0 < Levels(sc) /\ Levels(sc) - 1 - 0 = Levels(sc) - 1
    BY DEF Levels
  <2> QED  BY <1>3, <2>1
<1>5. 256 \div Width(Levels(sc) - 1) = Nodes(sc)
  BY SMT DEF Levels, Width, Nodes
<1> QED  BY <1>1, <1>2, <1>3, <1>4, <1>5

Small(sc, x) == x \in Int /\ (sc \in Kems => AtMost(3840, x))

LEMMA SmallIs == ASSUME NEW sc \in Arithmetics, NEW x, Transforms!Small(sc, x) PROVE Small(sc, x)
<1>1. ASSUME sc \in Kems PROVE AtMost(3840, x)
  <2>1. x \in -3840 .. 3840
    BY <1>1 DEF Kems, Transforms!Small
  <2> QED  BY <2>1 DEF AtMost
<1> QED  BY <1>1 DEF Small, Transforms!Small

LEMMA CongruentIs ==
    ASSUME NEW sc \in Arithmetics, NEW x \in Int, NEW y \in Int, Transforms!Congruent(sc, x, y)
    PROVE  Same(Transforms!Modulus(sc), x, y)
<1>1. PICK q \in Nat \ {0} : q = Transforms!Modulus(sc)
  BY Moduli
<1>2. (x - y) % q = 0
  BY <1>1 DEF Transforms!Congruent
<1> QED  BY <1>1, <1>2, SameZero

(* What TableFits says of one entry of zetas. *)
LEMMA ZetasFit ==
    ASSUME NEW sc \in Arithmetics, Transforms!TableFits(sc)
    PROVE  /\ \A n \in 1 .. Nodes(sc) - 1 : Small(sc, Transforms!Zeta(sc, n))
           /\ Transforms!Congruent(sc, Transforms!Square(sc, 1), -Transforms!Mont(sc))
           /\ \A n \in 1 .. Nodes(sc) \div 2 - 1 :
                  /\ Transforms!Congruent(sc, Transforms!Square(sc, 2 * n), Transforms!Zeta(sc, n))
                  /\ Transforms!Congruent(sc, Transforms!Square(sc, 2 * n + 1), -Transforms!Zeta(sc, n))
<1>1. Transforms!Entries(sc) = Nodes(sc)
  BY LoopsAre DEF Transforms!Entries
<1>2. Transforms!RootsFit(sc)
  BY DEF Transforms!TableFits
<1> QED  BY <1>1, <1>2, SmallIs DEF Transforms!RootsFit

LEMMA MontInverse ==
    ASSUME NEW sc \in Arithmetics
    PROVE  /\ Transforms!Mont(sc) \in Int
           /\ Same(Transforms!Modulus(sc), Transforms!Mont(sc) * Inverse(sc), 1)
<1>1. CASE sc = "kyber"
  <2>1. 2285 * 169 - 1 = 116 * 3329
    OBVIOUS
  <2>2. Transforms!Mont(sc) = 2285 /\ Inverse(sc) = 169 /\ Transforms!Modulus(sc) = 3329
    BY <1>1 DEF Transforms!Mont, Inverse, Transforms!Modulus
  <2> QED  BY <2>1, <2>2 DEF Same
<1>2. CASE sc = "aigis_enc"
  <2>1. 4088 * 900 - 1 = 479 * 7681
    OBVIOUS
  <2>2. Transforms!Mont(sc) = 4088 /\ Inverse(sc) = 900 /\ Transforms!Modulus(sc) = 7681
    BY <1>2 DEF Transforms!Mont, Inverse, Transforms!Modulus
  <2> QED  BY <2>1, <2>2 DEF Same
<1>3. CASE sc = "ml_dsa"
  <2>1. PICK d \in Int : (-4186625) * 8265825 - 1 = d * 8380417
    BY SMT
  <2>2. Transforms!Mont(sc) = -4186625 /\ Inverse(sc) = 8265825 /\ Transforms!Modulus(sc) = 8380417
    BY SMT, <1>3 DEF Transforms!Mont, Inverse, Transforms!Modulus
  <2>3. -4186625 \in Int
    BY SMT
  <2> QED  BY SMT, <2>1, <2>2, <2>3 DEF Same
<1> QED  BY <1>1, <1>2, <1>3 DEF Arithmetics

(* A root is the entry of the table over what the reduction divides by. *)
LEMMA Squared ==
    ASSUME NEW q \in Nat \ {0}, NEW c \in Int, NEW z \in Int, NEW y \in Int, NEW f \in Int,
           NEW p \in Int, NEW m \in Int, IsTimes(p, z, z), IsTimes(m, p, c), Same(q, f, m), Same(q, f, y)
    PROVE  \E r \in Int, r2 \in Int, T \in Int :
              IsTimes(r, z, c) /\ IsTimes(r2, r, r) /\ IsTimes(T, y, c) /\ Same(q, r2, T)
<1>1. PICK r \in Int : r = z * c
  OBVIOUS
<1>2. PICK r2 \in Int : r2 = r * r
  OBVIOUS
<1>3. PICK T \in Int : T = y * c
  OBVIOUS
<1>4. r2 = m * c
  <2>1. p = z * z /\ m = p * c
    BY DEF IsTimes
  <2>2. (z * c) * (z * c) = ((z * z) * c) * c
    OBVIOUS
  <2> QED  BY <1>1, <1>2, <2>1, <2>2
<1>5. Same(q, m, y)
  <2>1. Same(q, m, f)
    BY SameTurned
  <2> QED  BY <2>1, SameThrough
<1>6. IsTimes(r, z, c) /\ IsTimes(r2, r, r) /\ IsTimes(T, y, c) /\ IsTimes(r2, m, c)
  BY <1>1, <1>2, <1>3, <1>4 DEF IsTimes
<1>7. Same(q, r2, T)
  BY <1>5, <1>6, TimesSame
<1> QED  BY <1>6, <1>7

(* An entry, and the root it stands for. *)
LEMMA ZetaIs ==
    ASSUME NEW sc \in Arithmetics, Transforms!TableFits(sc), NEW n \in Nat \ {0}, n < Nodes(sc)
    PROVE  /\ Transforms!Zeta(sc, n) \in Int /\ Small(sc, Transforms!Zeta(sc, n))
           /\ Root(sc, n) = Transforms!Zeta(sc, n) * Inverse(sc)
<1>1. n \in 1 .. Nodes(sc) - 1
  BY DEF Nodes
<1>2. Small(sc, Transforms!Zeta(sc, n))
  BY <1>1, ZetasFit
<1> QED  BY <1>2 DEF Small, Root, Transforms!Zeta

Halfway(sc, n, m) == m \in 1 .. Nodes(sc) \div 2 - 1 /\ (n = 2 * m \/ n = 2 * m + 1)

LEMMA HalfwayTo ==
    ASSUME NEW sc \in Arithmetics, NEW n \in Nat, n > 1, n < Nodes(sc)
    PROVE  \E m \in Nat : Halfway(sc, n, m)
<1>1. PICK m : m = n \div 2
  OBVIOUS
<1>2. m \in Nat /\ Halfway(sc, n, m)
  BY <1>1, SMT DEF Halfway, Nodes
<1> QED  BY <1>2

LEMMA Roots ==
    ASSUME NEW sc \in Arithmetics, Transforms!TableFits(sc)
    PROVE  AllRooted(sc)
<1>1. PICK q \in Nat \ {0}, c \in Int : q = Transforms!Modulus(sc) /\ c = Inverse(sc)
  BY Moduli
<1>2. ASSUME NEW n \in Nat \ {0}, n < Nodes(sc) PROVE Rooted(sc, n)
  <2>1. PICK z \in Int : z = Transforms!Zeta(sc, n) /\ Root(sc, n) = z * c
    BY <1>1, <1>2, ZetaIs
  <2>2. PICK f \in Int, p \in Int, m \in Int :
            f = Transforms!Square(sc, n) /\ IsTimes(p, z, z) /\ IsTimes(m, p, c) /\ Same(q, f, m)
    <3>1. Reduces(sc, Transforms!FqMul(sc, z, z), z, z)
      BY FqMulReduces
    <3>2. Transforms!Square(sc, n) = Transforms!FqMul(sc, z, z)
      BY <2>1 DEF Transforms!Square
    <3> QED  BY <1>1, <3>1, <3>2 DEF Reduces
  <2>3. ASSUME NEW y \in Int, Transforms!Congruent(sc, f, y)
        PROVE  \E r \in Int, r2 \in Int, T \in Int :
                   r = Root(sc, n) /\ IsTimes(r2, r, r) /\ IsTimes(T, y, c) /\ Same(q, r2, T)
    <3>1. Same(q, f, y)
      BY <1>1, <2>3, CongruentIs
    <3>2. PICK r \in Int, r2 \in Int, T \in Int :
              IsTimes(r, z, c) /\ IsTimes(r2, r, r) /\ IsTimes(T, y, c) /\ Same(q, r2, T)
      BY <2>2, <3>1, Squared
    <3>3. r = Root(sc, n)
      BY <2>1, <3>2 DEF IsTimes
    <3> QED  BY <3>2, <3>3
  <2>4. CASE n = 1
    <3>1. PICK y \in Int, W \in Int : W = Transforms!Mont(sc) /\ y = -W
      BY MontInverse
    <3>2. Transforms!Congruent(sc, f, y)
      BY <2>2, <2>4, <3>1, ZetasFit
    <3>3. PICK r \in Int, r2 \in Int, T \in Int :
              r = Root(sc, n) /\ IsTimes(r2, r, r) /\ IsTimes(T, y, c) /\ Same(q, r2, T)
      BY <2>3, <3>2
    <3>4. Same(q, T, -1)
      <4>1. Same(q, W * c, 1)
        BY <1>1, <3>1, MontInverse
      <4>2. PICK d \in Int : W * c - 1 = d * q
        BY <4>1 DEF Same
      <4>3. T = -(W * c)
        <5>1. T = y * c
          BY <3>3 DEF IsTimes
        <5> QED  BY <3>1, <5>1
      <4>4. T - (-1) = (-d) * q /\ -d \in Int
        BY <4>2, <4>3
      <4> QED  BY <4>4 DEF Same
    <3>5. Same(q, r2, -1)
      BY <3>3, <3>4, SameThrough
    <3>6. Turn(sc, n) = -1 /\ -1 \in Int
      BY <2>4 DEF Turn
    <3> QED  BY <1>1, <3>3, <3>5, <3>6 DEF Rooted
  <2>5. CASE n > 1
    <3>1. PICK m2 \in Nat : Halfway(sc, n, m2)
      BY <1>2, <2>5, HalfwayTo
    <3>2. m2 \in Nat \ {0} /\ m2 < Nodes(sc) /\ m2 \in 1 .. Nodes(sc) \div 2 - 1
      BY <3>1 DEF Halfway, Nodes
    <3>3. PICK x \in Int, xc \in Int : x = Transforms!Zeta(sc, m2) /\ xc = x * c /\ Root(sc, m2) = xc
      BY <1>1, <3>2, ZetaIs
    <3>4. \E y \in Int : Transforms!Congruent(sc, f, y) /\ Turn(sc, n) = y * c
      <4>1. CASE n = 2 * m2
        <5>1. Turn(sc, n) = x * c
          BY <3>2, <3>3, <4>1, Turns2
        <5>2. Transforms!Congruent(sc, f, x)
          BY <2>2, <3>2, <3>3, <4>1, ZetasFit
        <5> QED  BY <5>1, <5>2
      <4>2. CASE n = 2 * m2 + 1
        <5>1. Turn(sc, n) = -xc
          BY <3>2, <3>3, <4>2, Turns2
        <5>2. Transforms!Congruent(sc, f, -x)
          BY <2>2, <3>2, <3>3, <4>2, ZetasFit
        <5>3. -xc = (-x) * c /\ -x \in Int
          BY <3>3
        <5> QED  BY <5>1, <5>2, <5>3
      <4> QED  BY <3>1, <4>1, <4>2 DEF Halfway
    <3>5. PICK y \in Int : Transforms!Congruent(sc, f, y) /\ Turn(sc, n) = y * c
      BY <3>4
    <3>6. PICK r \in Int, r2 \in Int, T \in Int :
              r = Root(sc, n) /\ IsTimes(r2, r, r) /\ IsTimes(T, y, c) /\ Same(q, r2, T)
      BY <2>3, <3>5
    <3>7. Turn(sc, n) = T
      BY <3>5, <3>6 DEF IsTimes
    <3> QED  BY <1>1, <3>6, <3>7 DEF Rooted
  <2>6. n = 1 \/ n > 1
    OBVIOUS
  <2> QED  BY <2>4, <2>5, <2>6
<1> QED  BY <1>2 DEF AllRooted

-----------------------------------------------------------------------------
(* A coefficient that fits its word, where words are modelled. *)
Fits(sc, bound, x) == x \in Int /\ (sc \in Kems => AtMost(bound, x))

LEMMA StoreIs ==
    ASSUME NEW sc \in Arithmetics, NEW x, Fits(sc, 32767, x)
    PROVE  /\ Transforms!Store(sc, x) \in Int /\ Same(Transforms!Modulus(sc), Transforms!Store(sc, x), x)
           /\ sc \in Kems => Transforms!Store(sc, x) = x /\ Transforms!Int16(x) = x
<1>1. PICK q \in Nat \ {0} : q = Transforms!Modulus(sc)
  BY Moduli
<1>2. x \in Int
  BY DEF Fits
<1>3. CASE sc \in Kems
  <2>1. Word16(x)
    BY <1>3 DEF Fits, AtMost, Word16
  <2>2. Transforms!Int16(x) = x
    BY <2>1, NotWrapped
  <2>3. Transforms!Store(sc, x) = x
    BY <1>3, <2>2 DEF Transforms!Store, Kems
  <2> QED  BY <1>1, <1>2, <2>2, <2>3, SameSelf
<1>4. CASE sc = "ml_dsa"
  <2>1. Transforms!Store(sc, x) = x % q
    BY SMT, <1>1, <1>4 DEF Transforms!Store, Transforms!Modulus
  <2>2. x % q \in Int /\ Same(q, x % q, x)
    BY <1>2, ReducedSame
  <2> QED  BY <1>1, <1>4, <2>1, <2>2 DEF Kems
<1> QED  BY <1>3, <1>4 DEF Arithmetics, Kems

(* The product with an entry is the product with its root. *)
LEMMA ByRoot ==
    ASSUME NEW sc \in Arithmetics, NEW z \in Int, NEW x \in Int, NEW f, f = Transforms!FqMul(sc, z, x)
    PROVE  f \in Int /\ Same(Transforms!Modulus(sc), f, (z * Inverse(sc)) * x)
<1>1. PICK q \in Nat \ {0}, c \in Int : q = Transforms!Modulus(sc) /\ c = Inverse(sc)
  BY Moduli
<1>2. PICK g \in Int, p \in Int, m \in Int :
          g = f /\ IsTimes(p, z, x) /\ IsTimes(m, p, c) /\ Same(q, g, m)
  <2>1. Reduces(sc, Transforms!FqMul(sc, z, x), z, x)
    BY FqMulReduces
  <2> QED  BY <1>1, <2>1 DEF Reduces
<1>3. (z * c) * x = m
  <2>1. p = z * x /\ m = p * c
    BY <1>2 DEF IsTimes
  <2>2. (z * c) * x = (z * x) * c
    OBVIOUS
  <2> QED  BY <2>1, <2>2
<1> QED  BY <1>1, <1>2, <1>3

LEMMA Partners ==
    ASSUME NEW len \in Widths2, NEW j \in Index, NEW size, size = 2 * len
    PROVE  /\ j \div size \in Nat /\ j \div size < 128 \div len
           /\ j % size < len => j + len \in Index
           /\ ~(j % size < len) =>
                  /\ j - len \in Index /\ (j - len) % size < len /\ (j - len) \div size = j \div size
                  /\ j - len + len = j
<1>1. PICK e \in Nat, p \in Nat, i \in Nat : InBlock(len, j, e, p, i)
  BY Blocks
<1>2. len \in Nat \ {0} /\ size \in Nat \ {0}
  BY DEF Widths2
<1>3. /\ j = p + i /\ i < size /\ e < 128 \div len
      /\ \A y \in Nat : y < size => p + y \in Index /\ (p + y) \div size = e /\ (p + y) % size = y
  BY <1>1 DEF InBlock, Inside
<1>4. j \div size = e /\ j % size = i
  BY <1>3
<1>5. CASE i < len
  <2>1. i + len \in Nat /\ i + len < size /\ p + (i + len) = j + len
    BY <1>2, <1>3, <1>5
  <2>2. p + (i + len) \in Index
    BY <1>3, <2>1
  <2> QED  BY <1>3, <1>4, <1>5, <2>1, <2>2
<1>6. CASE ~(i < len)
  <2>1. PICK y \in Nat : y = i - len /\ y < len /\ y < size /\ p + y = j - len /\ j - len + len = j
    BY <1>2, <1>3, <1>6
  <2>2. p + y \in Index /\ (p + y) \div size = e /\ (p + y) % size = y
    BY <1>3, <2>1
  <2> QED  BY <1>3, <1>4, <1>6, <2>1, <2>2
<1> QED  BY <1>5, <1>6

(* A level at one coefficient. *)
LEMMA LevelAt ==
    ASSUME NEW sc, NEW len \in Widths2, NEW j \in Index, NEW V, NEW size, size = 2 * len,
           NEW n, n = 128 \div len, NEW e, e = j \div size
    PROVE  /\ j % size < len => Level(sc, len, V)[j] = V[j] + Root(sc, n + e) * V[j + len]
           /\ ~(j % size < len) => Level(sc, len, V)[j] = V[j - len] - Root(sc, n + e) * V[j]
<1>1. Level(sc, len, V) =
          [x \in Index |-> IF x % size < len THEN V[x] + Root(sc, n + x \div size) * V[x + len]
                           ELSE V[x - len] - Root(sc, n + x \div size) * V[x]]
  BY DEF Level
<1> QED  BY <1>1

LEMMA PutReduced ==
    ASSUME NEW sc \in Kems, NEW x, Fits(sc, 32767, x), NEW p, p = Transforms!Barrett(sc, Transforms!Int16(x))
    PROVE  p \in Int /\ Same(Transforms!Modulus(sc), p, x) /\ AtMost(Reduced16(sc), p)
<1>1. AtMost(32767, x) /\ sc \in Arithmetics
  BY DEF Fits, Kems, Arithmetics
<1>2. Transforms!Int16(x) = x
  BY <1>1, StoreIs
<1>3. p = Transforms!Barrett(sc, x)
  BY <1>2
<1>4. /\ AtMost(Reduced16(sc), Transforms!Barrett(sc, x))
      /\ Same(Transforms!Modulus(sc), Transforms!Barrett(sc, x), x)
  BY <1>1, BarrettIs
<1> QED  BY <1>3, <1>4 DEF AtMost

LEMMA ButterflyAt ==
    ASSUME NEW sc, NEW len, NEW j \in Index, NEW V, NEW size, size = 2 * len,
           NEW n, NEW reduces
    PROVE  LET u == Transforms!Butterflies(sc, V, len, n, reduces)
               Turning(x) == Transforms!FqMul(sc, Transforms!Zeta(sc, n + x \div size), V[x + len])
               Put(x) == IF reduces THEN Transforms!Barrett(sc, Transforms!Int16(x)) ELSE Transforms!Store(sc, x)
           IN  /\ j % size < len => u[j] = Put(V[j] + Turning(j))
               /\ ~(j % size < len) => u[j] = Put(V[j - len] - Turning(j - len))
BY DEF Transforms!Butterflies, Transforms!Zeta, Index

LEMMA ButterfliesIn ==
    ASSUME NEW sc, NEW V, NEW len, NEW n, NEW reduces,
           NEW u, u = Transforms!Butterflies(sc, V, len, n, reduces), \A j \in Index : u[j] \in Int
    PROVE  u \in Polys
BY DEF Transforms!Butterflies, Index, Polys

LEMMA Wider ==
    ASSUME NEW sc \in Arithmetics, NEW x, NEW b \in Nat, NEW b2 \in Nat, Fits(sc, b, x), b <= b2
    PROVE  Fits(sc, b2, x)
BY DEF Fits, AtMost

LEMMA ZetaTimes ==
    ASSUME NEW sc \in Arithmetics, Transforms!TableFits(sc), NEW n \in Nat \ {0}, n < Nodes(sc),
           NEW x, Fits(sc, 32768, x)
    PROVE  LET f == Transforms!FqMul(sc, Transforms!Zeta(sc, n), x)
           IN  Fits(sc, Product16(sc), f) /\ Same(Transforms!Modulus(sc), f, Root(sc, n) * x)
<1>1. PICK z \in Int : z = Transforms!Zeta(sc, n) /\ Small(sc, z) /\ Root(sc, n) = z * Inverse(sc)
  BY ZetaIs
<1>2. PICK f : f = Transforms!FqMul(sc, z, x)
  OBVIOUS
<1>3. x \in Int
  BY DEF Fits
<1>4. f \in Int /\ Same(Transforms!Modulus(sc), f, (z * Inverse(sc)) * x)
  BY <1>2, <1>3, ByRoot
<1>5. ASSUME sc \in Kems PROVE AtMost(Product16(sc), f)
  BY <1>1, <1>2, <1>5, FqMulSmall DEF Small, Fits
<1> QED  BY <1>1, <1>2, <1>4, <1>5 DEF Fits

LEMMA ButterfliesAre ==
    ASSUME NEW sc \in Arithmetics, Transforms!TableFits(sc), NEW l \in Nat, l < Levels(sc),
           NEW len, len = Width(l), NEW V \in Polys, NEW bound \in Nat, \A j \in Index : Fits(sc, bound, V[j]),
           bound + Product16(sc) <= 32767, NEW reduces \in BOOLEAN, reduces => sc \in Kems,
           NEW u, u = Transforms!Butterflies(sc, V, len, 128 \div len, reduces)
    PROVE  /\ u \in Polys /\ Equal(sc, u, Level(sc, len, V))
           /\ \A j \in Index : Fits(sc, IF reduces THEN Reduced16(sc) ELSE bound + Product16(sc), u[j])
<1>1. PICK q \in Nat \ {0} : q = Transforms!Modulus(sc)
  BY Moduli
<1>9. PICK lv : lv = Level(sc, len, V)
  OBVIOUS
<1>2. PICK size \in Nat \ {0}, n \in Nat \ {0} :
          size = 2 * len /\ n = 128 \div len /\ 2 * n <= Nodes(sc) /\ len \in Widths2
  <2>1. len \in Widths2 /\ 128 \div len \in Nat \ {0} /\ 2 * (128 \div len) <= Nodes(sc)
    BY Widths
  <2>2. 2 * len \in Nat \ {0}
    BY <2>1 DEF Widths2
  <2> QED  BY <2>1, <2>2
<1>3. PICK grown \in Nat : grown = bound + Product16(sc) /\ grown <= 32767 /\ Product16(sc) \in Nat
  BY DEF Product16
<1>4. ASSUME NEW x, NEW y, Fits(sc, grown, x), y \in Int, Same(q, x, y), NEW p,
             p = IF reduces THEN Transforms!Barrett(sc, Transforms!Int16(x)) ELSE Transforms!Store(sc, x)
      PROVE  p \in Int /\ Same(q, p, y) /\ Fits(sc, IF reduces THEN Reduced16(sc) ELSE grown, p)
  <2>1. Fits(sc, 32767, x) /\ x \in Int
    BY <1>3, <1>4, Wider DEF Fits
  <2>2. CASE reduces
    <3>1. p \in Int /\ Same(q, p, x) /\ AtMost(Reduced16(sc), p)
      BY <1>1, <1>4, <2>1, <2>2, PutReduced
    <3>2. Same(q, p, y)
      BY <1>4, <2>1, <3>1, SameThrough
    <3>3. Fits(sc, Reduced16(sc), p)
      BY <3>1 DEF Fits
    <3> QED  BY <2>2, <3>1, <3>2, <3>3
  <2>3. CASE ~reduces
    <3>1. p \in Int /\ Same(q, p, x) /\ (sc \in Kems => p = x)
      BY <1>1, <1>4, <2>1, <2>3, StoreIs
    <3>2. Same(q, p, y)
      BY <1>4, <2>1, <3>1, SameThrough
    <3>3. Fits(sc, grown, p)
      BY <1>4, <3>1 DEF Fits
    <3> QED  BY <2>3, <3>1, <3>2, <3>3
  <2> QED  BY <2>2, <2>3
<1>5. ASSUME NEW x \in Index, NEW y \in Index, NEW e \in Nat, e < n,
             NEW f, f = Transforms!FqMul(sc, Transforms!Zeta(sc, n + e), V[y]),
             NEW r, r = Root(sc, n + e)
      PROVE  /\ Fits(sc, grown, V[x] + f) /\ Fits(sc, grown, V[x] - f)
             /\ Same(q, V[x] + f, V[x] + r * V[y]) /\ Same(q, V[x] - f, V[x] - r * V[y])
             /\ V[x] + r * V[y] \in Int /\ V[x] - r * V[y] \in Int
  <2>1. PICK m \in Nat \ {0} : m = n + e /\ m < Nodes(sc)
    <3>1. Nodes(sc) \in Nat
      BY DEF Nodes
    <3> QED  BY <1>2, <1>5, <3>1
  <2>2. PICK c \in Int, d \in Int : c = V[x] /\ d = V[y]
    BY DEF Polys
  <2>3. Fits(sc, bound, c) /\ Fits(sc, bound, d)
    BY <2>2
  <2>4. Fits(sc, 32768, d)
    <3>1. bound <= 32768
      BY <1>3
    <3> QED  BY <2>3, <3>1, Wider
  <2>5. Fits(sc, Product16(sc), f) /\ Same(q, f, r * d)
    BY <1>1, <1>5, <2>1, <2>2, <2>4, ZetaTimes
  <2>6. Fits(sc, grown, c + f) /\ Fits(sc, grown, c - f)
    BY <1>3, <2>3, <2>5 DEF Fits, AtMost
  <2>7. PICK s2 \in Int : s2 = r * d
    <3>1. Transforms!TableFits(sc) /\ Root(sc, m) = Transforms!Zeta(sc, m) * Inverse(sc) /\ Transforms!Zeta(sc, m) \in Int
      BY <2>1, ZetaIs
    <3>2. PICK z \in Int, ic \in Int : z = Transforms!Zeta(sc, m) /\ ic = Inverse(sc)
      BY <3>1, Moduli
    <3>3. r = z * ic
      BY <1>5, <2>1, <3>1, <3>2
    <3> QED  BY <3>3
  <2>8. f \in Int /\ Same(q, c, c) /\ Same(q, f, s2)
    BY <2>5, <2>7, SameSelf DEF Fits
  <2>9. Same(q, c + f, c + s2) /\ Same(q, c - f, c - s2)
    BY <2>8, SameSum
  <2> QED  BY <2>2, <2>6, <2>7, <2>9
<1>6. ASSUME NEW j \in Index
      PROVE  u[j] \in Int /\ Same(q, u[j], lv[j]) /\ Fits(sc, IF reduces THEN Reduced16(sc) ELSE grown, u[j])
  <2>1. PICK e \in Nat : e = j \div size /\ e < n
    BY <1>2, Partners
  <2>2. CASE j % size < len
    <3>1. PICK y \in Index : y = j + len
      BY <1>2, <2>2, Partners
    <3>2. PICK f, r : f = Transforms!FqMul(sc, Transforms!Zeta(sc, n + e), V[y]) /\ r = Root(sc, n + e)
      OBVIOUS
    <3>3. u[j] = IF reduces THEN Transforms!Barrett(sc, Transforms!Int16(V[j] + f)) ELSE Transforms!Store(sc, V[j] + f)
      BY <1>2, <2>1, <2>2, <3>1, <3>2, ButterflyAt
    <3>4. lv[j] = V[j] + r * V[y]
      BY <1>2, <1>9, <2>1, <2>2, <3>1, <3>2, LevelAt
    <3>5. Fits(sc, grown, V[j] + f) /\ Same(q, V[j] + f, V[j] + r * V[y]) /\ V[j] + r * V[y] \in Int
      BY <1>5, <2>1, <3>2
    <3>6. PICK x1, y1 : x1 = V[j] + f /\ y1 = V[j] + r * V[y]
      OBVIOUS
    <3>7. /\ Fits(sc, grown, x1) /\ Same(q, x1, y1) /\ y1 \in Int /\ lv[j] = y1
          /\ u[j] = IF reduces THEN Transforms!Barrett(sc, Transforms!Int16(x1)) ELSE Transforms!Store(sc, x1)
      BY <3>3, <3>4, <3>5, <3>6
    <3> QED  BY <1>4, <3>7
  <2>3. CASE ~(j % size < len)
    <3>1. PICK x \in Index : x = j - len /\ x \div size = e /\ x + len = j
      BY <1>2, <2>1, <2>3, Partners
    <3>2. PICK f, r : f = Transforms!FqMul(sc, Transforms!Zeta(sc, n + e), V[j]) /\ r = Root(sc, n + e)
      OBVIOUS
    <3>3. u[j] = IF reduces THEN Transforms!Barrett(sc, Transforms!Int16(V[x] - f)) ELSE Transforms!Store(sc, V[x] - f)
      BY <1>2, <2>3, <3>1, <3>2, ButterflyAt
    <3>4. lv[j] = V[x] - r * V[j]
      BY <1>2, <1>9, <2>1, <2>3, <3>1, <3>2, LevelAt
    <3>5. Fits(sc, grown, V[x] - f) /\ Same(q, V[x] - f, V[x] - r * V[j]) /\ V[x] - r * V[j] \in Int
      BY <1>5, <2>1, <3>2
    <3>6. PICK x1, y1 : x1 = V[x] - f /\ y1 = V[x] - r * V[j]
      OBVIOUS
    <3>7. /\ Fits(sc, grown, x1) /\ Same(q, x1, y1) /\ y1 \in Int /\ lv[j] = y1
          /\ u[j] = IF reduces THEN Transforms!Barrett(sc, Transforms!Int16(x1)) ELSE Transforms!Store(sc, x1)
      BY <3>3, <3>4, <3>5, <3>6
    <3> QED  BY <1>4, <3>7
  <2> QED  BY <2>2, <2>3
<1>7. u \in Polys
  BY <1>6, ButterfliesIn
<1> QED  BY <1>1, <1>3, <1>6, <1>7, <1>9 DEF Equal

Last(sc, len) == sc = "aigis_enc" /\ len = 128

(* What the last loop of Aigis-enc multiplies by besides. *)
Gain(sc, len) == IF Last(sc, len) THEN 256 * Inverse(sc) ELSE 1

LEMMA GainIn == ASSUME NEW sc \in Arithmetics, NEW len PROVE Gain(sc, len) \in Int
BY DEF Gain, Last, Inverse

(* The entry of the way back undoes the root of its block. *)
Undoes(sc, len, m, root) ==
    /\ Small(sc, root)
    /\ \E r \in Int : r = root * Inverse(sc)
          /\ \E p \in Int : p = r * Root(sc, m) /\ Same(Transforms!Modulus(sc), p, Gain(sc, len))

LEMMA BlocksFit ==
    ASSUME NEW sc \in Arithmetics, NEW l \in Nat, l < Levels(sc)
    PROVE  128 \div Width(l) = 1 <=> Width(l) = 128
<1>1. l \in 0 .. 7
  BY DEF Levels
<1> QED  BY <1>1, SMT DEF Width

LEMMA Undone ==
    ASSUME NEW q \in Nat \ {0}, NEW c \in Int, NEW root \in Int, NEW z \in Int, NEW f \in Int,
           NEW g \in Int, Same(q, f, (root * c) * z), Same(q, f, g), NEW g2 \in Int, Same(q, g * c, g2),
           NEW r \in Int, r = root * c, NEW rt \in Int, rt = z * c, NEW p \in Int, p = r * rt
    PROVE  Same(q, p, g2)
<1>1. PICK x \in Int : x = r * z
  OBVIOUS
<1>2. Same(q, f, x)
  BY <1>1
<1>3. Same(q, x, f)
  BY <1>2, SameTurned
<1>4. Same(q, x, g)
  BY <1>3, SameThrough
<1>5. PICK xc \in Int, gc \in Int : xc = x * c /\ gc = g * c
  OBVIOUS
<1>6. IsTimes(xc, x, c) /\ IsTimes(gc, g, c)
  BY <1>5 DEF IsTimes
<1>7. Same(q, xc, gc)
  BY <1>4, <1>6, TimesSame
<1>8. Same(q, gc, g2)
  BY <1>5
<1>9. p = xc
  <2>1. r * (z * c) = (r * z) * c
    OBVIOUS
  <2> QED  BY <1>1, <1>5, <2>1
<1> QED  BY <1>7, <1>8, <1>9, SameThrough

(* The entry a loop of the way back takes for block e. *)
IsInverse(sc, l, len, n, e, m, root) ==
    /\ l \in Nat /\ l < Levels(sc) /\ len = Width(l)
    /\ n \in Nat \ {0} /\ n = 128 \div len /\ e \in Nat /\ e < n /\ m \in Nat \ {0} /\ m = n + e
    /\ root = Transforms!InvRoot(sc, Nodes(sc) - 2 * n + e)

LEMMA InversesUndo ==
    ASSUME NEW sc \in Arithmetics, Transforms!TableFits(sc), NEW l, NEW len, NEW n, NEW e, NEW m, NEW root,
           IsInverse(sc, l, len, n, e, m, root)
    PROVE  Undoes(sc, len, m, root)
<1> USE DEF IsInverse
<1>1. PICK q \in Nat \ {0}, c \in Int : q = Transforms!Modulus(sc) /\ c = Inverse(sc)
  BY Moduli
<1>2. Transforms!InverseFits(sc, n, e)
  <2>1. l + 1 \in 1 .. Transforms!Loops(sc) /\ Transforms!Lens(sc)[l + 1] = len
    <3>1. Transforms!Loops(sc) = Levels(sc) /\ Transforms!Lens(sc)[l + 1] = len
      BY LoopsAre
    <3>2. l + 1 \in 1 .. Levels(sc)
      BY DEF Levels
    <3> QED  BY <3>1, <3>2
  <2>2. e \in 0 .. n - 1
    OBVIOUS
  <2> QED  BY <2>1, <2>2 DEF Transforms!TableFits
<1>3. Transforms!Entries(sc) = Nodes(sc)
  BY LoopsAre DEF Transforms!Entries
<1>4. /\ Transforms!Small(sc, root)
      /\ Transforms!Congruent(sc, Transforms!FqMul(sc, root, Transforms!Zeta(sc, m)),
                        IF sc = "aigis_enc" /\ n = 1 THEN 256 ELSE Transforms!Mont(sc))
  BY <1>2, <1>3 DEF Transforms!InverseFits
<1>5. Small(sc, root) /\ root \in Int
  BY <1>4, SmallIs DEF Small
<1>6. m < Nodes(sc)
  <2>1. 2 * n <= Nodes(sc)
    BY Widths
  <2> QED  BY <2>1 DEF Nodes
<1>7. PICK z \in Int : z = Transforms!Zeta(sc, m) /\ Root(sc, m) = z * c
  BY <1>1, <1>6, ZetaIs
<1>8. PICK f \in Int : f = Transforms!FqMul(sc, root, z) /\ Same(q, f, (root * c) * z)
  <2>1. PICK f : f = Transforms!FqMul(sc, root, z)
    OBVIOUS
  <2>2. f \in Int /\ Same(Transforms!Modulus(sc), f, (root * Inverse(sc)) * z)
    BY <1>5, <2>1, ByRoot
  <2> QED  BY <1>1, <2>1, <2>2
<1>9. n = 1 <=> len = 128
  BY BlocksFit
<1>10. PICK g \in Int, g2 \in Int :
          Same(q, f, g) /\ g2 = Gain(sc, len) /\ Same(q, g * c, g2)
  <2>1. CASE Last(sc, len)
    <3>1. Transforms!Congruent(sc, f, 256)
      BY <1>4, <1>7, <1>8, <1>9, <2>1 DEF Last
    <3>2. Same(q, f, 256)
      BY <1>1, <3>1, CongruentIs
    <3>3. Gain(sc, len) = 256 * c
      BY <1>1, <2>1 DEF Gain
    <3>4. PICK y \in Int : y = 256 * c
      OBVIOUS
    <3>5. Same(q, y, y)
      BY SameSelf
    <3> QED  BY <3>2, <3>3, <3>4, <3>5
  <2>2. CASE ~Last(sc, len)
    <3>1. PICK g \in Int : g = Transforms!Mont(sc) /\ Same(q, g * c, 1)
      BY <1>1, MontInverse
    <3>2. Transforms!Congruent(sc, f, g)
      BY <1>4, <1>7, <1>8, <1>9, <2>2, <3>1 DEF Last
    <3>3. Same(q, f, g)
      BY <1>1, <3>2, CongruentIs
    <3>4. Gain(sc, len) = 1
      BY <2>2 DEF Gain
    <3> QED  BY <3>1, <3>3, <3>4
  <2> QED  BY <2>1, <2>2
<1>11. PICK r \in Int, rt \in Int : r = root * c /\ rt = z * c
  BY <1>5
<1>12. PICK p \in Int : p = r * rt
  OBVIOUS
<1>13. Same(q, p, g2)
  BY <1>5, <1>8, <1>10, <1>11, <1>12, Undone
<1> QED  BY <1>1, <1>5, <1>7, <1>10, <1>11, <1>12, <1>13 DEF Undoes

-----------------------------------------------------------------------------
InvStep(sc, len, size, n, u, V, k, reduces) ==
    \A j \in Index : j \div size \in 0 .. n - 1 =>
        /\ j % size < len =>
              /\ reduces => u[j] = Transforms!Barrett(sc, Transforms!Int16(V[j] + V[j + len]))
              /\ ~reduces /\ Last(sc, len) => u[j] = Transforms!FqMul(sc, 256, Transforms!Int16(V[j] + V[j + len]))
              /\ ~reduces /\ ~Last(sc, len) => u[j] = Transforms!Store(sc, V[j] + V[j + len])
        /\ ~(j % size < len) =>
              u[j] = Transforms!FqMul(sc, Transforms!InvRoot(sc, k + j \div size),
                         IF sc = "aigis_enc" THEN V[j - len] - V[j] ELSE Transforms!Store(sc, V[j - len] - V[j]))

LEMMA InvAt ==
    ASSUME NEW sc, NEW len, NEW V, NEW size, size = 2 * len, NEW n, n = 128 \div len,
           NEW k, NEW reduces, NEW u, u = Transforms!InvButterflies(sc, V, len, k, reduces),
           reduces => ~Last(sc, len)
    PROVE  InvStep(sc, len, size, n, u, V, k, reduces)
BY DEF Transforms!InvButterflies, Index, Last, InvStep

LEMMA InvIn ==
    ASSUME NEW sc, NEW V, NEW len, NEW n, NEW reduces,
           NEW u, u = Transforms!InvButterflies(sc, V, len, n, reduces), \A j \in Index : u[j] \in Int
    PROVE  u \in Polys
BY DEF Transforms!InvButterflies, Index, Polys

(* The provers compute with products; these hide them. *)
ScaledBy(q, f, g, x) == Same(q, f, g * x)
Doubled(q, x, c, a) == Same(q, x, (2 * c) * a)
DoubledRoot(q, x, c, rt, b) == Same(q, x, (2 * c) * (rt * b))
Twice(c2, c, g) == c2 = (2 * c) * g
Undo(q, r, rt, g) == \E p \in Int : p = r * rt /\ Same(q, p, g)
IsUp(x, a, rt, b) == x = a + rt * b
IsDown(x, a, rt, b) == x = a - rt * b

LEMMA UpAndDown ==
    ASSUME NEW q \in Nat \ {0}, NEW c \in Int, NEW a \in Int, NEW b \in Int, NEW rt \in Int,
           NEW x \in Int, NEW y \in Int, NEW ax, NEW ay, IsUp(ax, a, rt, b), IsDown(ay, a, rt, b),
           ScaledBy(q, x, c, ax), ScaledBy(q, y, c, ay)
    PROVE  Doubled(q, x + y, c, a) /\ DoubledRoot(q, x - y, c, rt, b)
<1> USE DEF IsUp, IsDown, ScaledBy, Doubled, DoubledRoot
<1>1. PICK s1 \in Int, s2 \in Int : s1 = c * ax /\ s2 = c * ay /\ Same(q, x, s1) /\ Same(q, y, s2)
  <2>1. ax \in Int /\ ay \in Int
    OBVIOUS
  <2>2. c * ax \in Int /\ c * ay \in Int
    BY <2>1
  <2> QED  BY <2>2
<1>2. Same(q, x + y, s1 + s2) /\ Same(q, x - y, s1 - s2)
  BY <1>1, SameSum
<1>3. s1 + s2 = (2 * c) * a /\ s1 - s2 = (2 * c) * (rt * b)
  <2>1. c * (a + rt * b) = c * a + c * (rt * b) /\ c * (a - rt * b) = c * a - c * (rt * b)
    OBVIOUS
  <2> QED  BY <1>1, <2>1
<1> QED  BY <1>2, <1>3

(* The sums, times g. *)
LEMMA TimesGain ==
    ASSUME NEW q \in Nat \ {0}, NEW g \in Int, NEW c \in Int, NEW a \in Int, NEW x \in Int, NEW f \in Int,
           NEW c2, ScaledBy(q, f, g, x), Doubled(q, x, c, a), Twice(c2, c, g)
    PROVE  ScaledBy(q, f, c2, a)
<1>1. PICK y \in Int, gx \in Int, gy \in Int : y = (2 * c) * a /\ gx = g * x /\ gy = g * y
  OBVIOUS
<1>2. Same(q, x, y) /\ Same(q, f, gx)
  BY <1>1 DEF ScaledBy, Doubled
<1>3. IsTimes(gx, x, g) /\ IsTimes(gy, y, g)
  BY <1>1 DEF IsTimes
<1>4. Same(q, gx, gy)
  BY <1>2, <1>3, TimesSame
<1>5. Same(q, f, gy)
  BY <1>2, <1>4, SameThrough
<1>6. gy = ((2 * c) * g) * a
  BY <1>1
<1> QED  BY <1>5, <1>6 DEF ScaledBy, Twice

(* The differences, times what undoes the root. *)
LEMMA TimesUndone ==
    ASSUME NEW q \in Nat \ {0}, NEW g \in Int, NEW c \in Int, NEW b \in Int, NEW d \in Int, NEW f \in Int,
           NEW r \in Int, NEW rt \in Int, NEW c2, Undo(q, r, rt, g), ScaledBy(q, f, r, d),
           DoubledRoot(q, d, c, rt, b), Twice(c2, c, g)
    PROVE  ScaledBy(q, f, c2, b)
<1>1. PICK y \in Int, rd \in Int, ry \in Int, cb \in Int :
          y = (2 * c) * (rt * b) /\ rd = r * d /\ ry = r * y /\ cb = (2 * c) * b
  OBVIOUS
<1>2. Same(q, d, y) /\ Same(q, f, rd)
  BY <1>1 DEF ScaledBy, DoubledRoot
<1>3. IsTimes(rd, d, r) /\ IsTimes(ry, y, r)
  BY <1>1 DEF IsTimes
<1>4. Same(q, rd, ry)
  BY <1>2, <1>3, TimesSame
<1>5. Same(q, f, ry)
  BY <1>2, <1>4, SameThrough
<1>6. PICK p \in Int : p = r * rt /\ Same(q, p, g)
  BY DEF Undo
<1>7. PICK pc2 \in Int, gc2 \in Int : pc2 = p * cb /\ gc2 = g * cb
  OBVIOUS
<1>8. IsTimes(pc2, p, cb) /\ IsTimes(gc2, g, cb)
  BY <1>7 DEF IsTimes
<1>9. Same(q, pc2, gc2)
  BY <1>6, <1>8, TimesSame
<1>10. ry = pc2
  <2>1. r * ((2 * c) * (rt * b)) = (r * rt) * ((2 * c) * b)
    OBVIOUS
  <2> QED  BY <1>1, <1>6, <1>7, <2>1
<1>11. gc2 = ((2 * c) * g) * b
  BY <1>1, <1>7
<1>12. Same(q, f, gc2)
  BY <1>5, <1>9, <1>10, SameThrough
<1> QED  BY <1>11, <1>12 DEF ScaledBy, Twice

Settled(sc) == IF sc = "kyber" THEN 3584 ELSE 6140

(* The bound of a coefficient after a loop of the way back. *)
Bounded(sc, bound, reduces, x) ==
    (reduces => Fits(sc, Settled(sc), x)) /\ (~reduces => Fits(sc, 2 * bound, x))

LEMMA SmallProduct ==
    ASSUME NEW sc \in Arithmetics, NEW bound \in Nat, Product16(sc) <= 2 * bound,
           NEW f, Fits(sc, Product16(sc), f)
    PROVE  Fits(sc, Settled(sc), f) /\ Fits(sc, 2 * bound, f)
BY DEF Fits, AtMost, Product16, Settled, Kems

(* The sum, of a pair of coefficients whose level is undone. *)
LEMMA SumUndone ==
    ASSUME NEW sc \in Arithmetics, NEW q, q = Transforms!Modulus(sc), NEW len,
           NEW bound \in Nat, 2 * bound <= 32767, Product16(sc) <= 2 * bound,
           NEW reduces \in BOOLEAN, reduces => sc \in Kems /\ ~Last(sc, len),
           NEW c \in Int, NEW g \in Int, g = Gain(sc, len), NEW c2 \in Int, Twice(c2, c, g),
           NEW a \in Int, NEW x, Fits(sc, 2 * bound, x), Doubled(q, x, c, a),
           NEW f, reduces => f = Transforms!Barrett(sc, Transforms!Int16(x)),
           ~reduces /\ Last(sc, len) => f = Transforms!FqMul(sc, 256, Transforms!Int16(x)),
           ~reduces /\ ~Last(sc, len) => f = Transforms!Store(sc, x)
    PROVE  f \in Int /\ ScaledBy(q, f, c2, a) /\ Bounded(sc, bound, reduces, f)
<1>1. q \in Nat \ {0}
  BY Moduli
<1>2. Fits(sc, 32767, x) /\ Fits(sc, 32768, x) /\ x \in Int
  BY DEF Fits, AtMost
<1>3. ASSUME ~Last(sc, len), f \in Int, Same(q, f, x) PROVE ScaledBy(q, f, c2, a)
  <2>1. g = 1
    BY <1>3 DEF Gain
  <2>2. g * x = x
    BY <1>2, <2>1
  <2>3. ScaledBy(q, f, g, x)
    BY <1>3, <2>2 DEF ScaledBy
  <2> QED  BY <1>1, <1>2, <1>3, <2>3, TimesGain
<1>4. CASE reduces
  <2>1. f = Transforms!Barrett(sc, Transforms!Int16(x)) /\ sc \in Kems /\ ~Last(sc, len)
    BY <1>4
  <2>2. f \in Int /\ Same(q, f, x) /\ AtMost(Reduced16(sc), f)
    BY <1>2, <2>1, PutReduced
  <2>3. Fits(sc, Settled(sc), f)
    BY <2>2 DEF Fits, AtMost, Settled, Reduced16
  <2>4. ScaledBy(q, f, c2, a)
    BY <1>3, <2>1, <2>2
  <2> QED  BY <1>4, <2>2, <2>3, <2>4 DEF Bounded
<1>5. CASE ~reduces /\ Last(sc, len)
  <2>1. sc = "aigis_enc" /\ sc \in Kems
    BY <1>5 DEF Last, Kems
  <2>2. Transforms!Int16(x) = x
    BY <1>2, <2>1, StoreIs
  <2>3. f = Transforms!FqMul(sc, 256, x)
    BY <1>5, <2>2
  <2>4. f \in Int /\ Same(q, f, (256 * Inverse(sc)) * x)
    BY <1>2, <2>3, ByRoot
  <2>5. g = 256 * Inverse(sc)
    BY <1>5 DEF Gain
  <2>6. ScaledBy(q, f, g, x)
    BY <2>4, <2>5 DEF ScaledBy
  <2>7. ScaledBy(q, f, c2, a)
    BY <1>1, <1>2, <2>4, <2>6, TimesGain
  <2>8. AtMost(Product16(sc), f)
    <3>1. AtMost(3840, 256) /\ AtMost(32768, x)
      BY <1>2, <2>1 DEF Fits, AtMost
    <3> QED  BY <2>1, <2>3, <3>1, FqMulSmall
  <2>9. Fits(sc, 2 * bound, f)
    <3>1. Fits(sc, Product16(sc), f)
      BY <2>8 DEF Fits, AtMost
    <3> QED  BY <3>1, SmallProduct
  <2> QED  BY <1>5, <2>4, <2>7, <2>9 DEF Bounded
<1>6. CASE ~reduces /\ ~Last(sc, len)
  <2>1. f = Transforms!Store(sc, x)
    BY <1>6
  <2>2. f \in Int /\ Same(q, f, x) /\ (sc \in Kems => f = x)
    BY <1>2, <2>1, StoreIs
  <2>3. Fits(sc, 2 * bound, f)
    BY <2>2 DEF Fits
  <2>4. ScaledBy(q, f, c2, a)
    BY <1>3, <1>6, <2>2
  <2> QED  BY <1>6, <2>2, <2>3, <2>4 DEF Bounded
<1> QED  BY <1>4, <1>5, <1>6

(* The difference. *)
LEMMA DifferenceUndone ==
    ASSUME NEW sc \in Arithmetics, NEW q, q = Transforms!Modulus(sc), NEW len, NEW m, NEW root,
           Undoes(sc, len, m, root), NEW bound \in Nat, 2 * bound <= 32767, Product16(sc) <= 2 * bound,
           NEW reduces \in BOOLEAN,
           NEW c \in Int, NEW g \in Int, g = Gain(sc, len), NEW c2 \in Int, Twice(c2, c, g),
           NEW b \in Int, NEW rt \in Int, rt = Root(sc, m),
           NEW x, Fits(sc, 2 * bound, x), DoubledRoot(q, x, c, rt, b),
           NEW f, f = Transforms!FqMul(sc, root, IF sc = "aigis_enc" THEN x ELSE Transforms!Store(sc, x))
    PROVE  f \in Int /\ ScaledBy(q, f, c2, b) /\ Bounded(sc, bound, reduces, f)
<1>1. q \in Nat \ {0}
  BY Moduli
<1>2. Fits(sc, 32767, x) /\ Fits(sc, 32768, x) /\ x \in Int
  BY DEF Fits, AtMost
<1>3. PICK d \in Int : /\ d = IF sc = "aigis_enc" THEN x ELSE Transforms!Store(sc, x)
                       /\ Same(q, d, x) /\ (sc \in Kems => d = x)
  <2>1. /\ Transforms!Store(sc, x) \in Int /\ Same(q, Transforms!Store(sc, x), x)
        /\ sc \in Kems => Transforms!Store(sc, x) = x
    BY <1>2, StoreIs
  <2>2. Same(q, x, x)
    BY <1>1, <1>2, SameSelf
  <2> QED  BY <1>2, <2>1, <2>2
<1>4. PICK r \in Int : r = root * Inverse(sc) /\ Undo(q, r, rt, g) /\ root \in Int
  BY DEF Undoes, Small, Undo
<1>5. f = Transforms!FqMul(sc, root, d)
  BY <1>3
<1>6. f \in Int /\ ScaledBy(q, f, r, d)
  BY <1>4, <1>5, ByRoot DEF ScaledBy
<1>7. DoubledRoot(q, d, c, rt, b)
  <2>1. PICK T \in Int : T = (2 * c) * (rt * b)
    OBVIOUS
  <2>2. Same(q, x, T)
    BY <2>1 DEF DoubledRoot
  <2>3. Same(q, d, T)
    BY <1>1, <1>2, <1>3, <2>2, SameThrough
  <2> QED  BY <2>1, <2>3 DEF DoubledRoot
<1>8. ScaledBy(q, f, c2, b)
  BY <1>1, <1>4, <1>6, <1>7, TimesUndone
<1>9. ASSUME sc \in Kems PROVE AtMost(Product16(sc), f)
  <2>1. AtMost(3840, root) /\ AtMost(32768, d)
    BY <1>2, <1>3, <1>9 DEF Undoes, Small, Fits
  <2> QED  BY <1>5, <1>9, <2>1, FqMulSmall
<1>10. Fits(sc, Settled(sc), f) /\ Fits(sc, 2 * bound, f)
  <2>1. Fits(sc, Product16(sc), f)
    BY <1>6, <1>9 DEF Fits
  <2> QED  BY <2>1, SmallProduct
<1> QED  BY <1>6, <1>8, <1>10 DEF Bounded

LEMMA SecondHalf ==
    ASSUME NEW len \in Widths2, NEW x \in Index, NEW size, size = 2 * len, x % size < len, NEW y, y = x + len
    PROVE  /\ x \div size \in Nat /\ x \div size < 128 \div len
           /\ y \in Index /\ ~(y % size < len) /\ y \div size = x \div size /\ y - len = x
<1>1. PICK e \in Nat, p \in Nat, i \in Nat : InBlock(len, x, e, p, i)
  BY Blocks
<1>2. len \in Nat \ {0} /\ size \in Nat \ {0}
  BY DEF Widths2
<1>3. /\ x = p + i /\ i < size /\ e < 128 \div len
      /\ \A z \in Nat : z < size => p + z \in Index /\ (p + z) \div size = e /\ (p + z) % size = z
  BY <1>1 DEF InBlock, Inside
<1>4. x \div size = e /\ x % size = i
  BY <1>3
<1>5. i + len \in Nat /\ i + len < size /\ p + (i + len) = y /\ ~(i + len < len) /\ y - len = x
  BY <1>2, <1>3, <1>4
<1>6. p + (i + len) \in Index /\ (p + (i + len)) \div size = e /\ (p + (i + len)) % size = i + len
  BY <1>3, <1>5
<1> QED  BY <1>3, <1>4, <1>5, <1>6

(* One pair of a loop of the way back. *)
Undoing(sc, len, u, V, root, reduces, x, y) ==
    /\ reduces => u[x] = Transforms!Barrett(sc, Transforms!Int16(V[x] + V[y]))
    /\ ~reduces /\ Last(sc, len) => u[x] = Transforms!FqMul(sc, 256, Transforms!Int16(V[x] + V[y]))
    /\ ~reduces /\ ~Last(sc, len) => u[x] = Transforms!Store(sc, V[x] + V[y])
    /\ u[y] = Transforms!FqMul(sc, root, IF sc = "aigis_enc" THEN V[x] - V[y] ELSE Transforms!Store(sc, V[x] - V[y]))

IsPair(sc, q, len, m, root, bound, reduces, c, g, c2, V, x, y, a, b, rt, ax, ay, u) ==
    /\ q = Transforms!Modulus(sc) /\ Undoes(sc, len, m, root)
    /\ reduces => sc \in Kems /\ ~Last(sc, len)
    /\ g = Gain(sc, len) /\ Twice(c2, c, g)
    /\ Fits(sc, bound, V[x]) /\ Fits(sc, bound, V[y]) /\ rt = Root(sc, m)
    /\ IsUp(ax, a, rt, b) /\ IsDown(ay, a, rt, b) /\ ScaledBy(q, V[x], c, ax) /\ ScaledBy(q, V[y], c, ay)
    /\ Undoing(sc, len, u, V, root, reduces, x, y)

LEMMA PairUndone ==
    ASSUME NEW sc \in Arithmetics, NEW q, NEW len, NEW m, NEW root,
           NEW bound \in Nat, 2 * bound <= 32767, Product16(sc) <= 2 * bound, NEW reduces \in BOOLEAN,
           NEW c \in Int, NEW g \in Int, NEW c2 \in Int, NEW V, NEW x, NEW y,
           NEW a \in Int, NEW b \in Int, NEW rt \in Int, NEW ax, NEW ay, NEW u,
           IsPair(sc, q, len, m, root, bound, reduces, c, g, c2, V, x, y, a, b, rt, ax, ay, u)
    PROVE  /\ u[x] \in Int /\ ScaledBy(q, u[x], c2, a) /\ Bounded(sc, bound, reduces, u[x])
           /\ u[y] \in Int /\ ScaledBy(q, u[y], c2, b) /\ Bounded(sc, bound, reduces, u[y])
<1>0. /\ q = Transforms!Modulus(sc) /\ Undoes(sc, len, m, root)
      /\ reduces => sc \in Kems /\ ~Last(sc, len)
      /\ g = Gain(sc, len) /\ Twice(c2, c, g)
      /\ Fits(sc, bound, V[x]) /\ Fits(sc, bound, V[y]) /\ rt = Root(sc, m)
      /\ IsUp(ax, a, rt, b) /\ IsDown(ay, a, rt, b) /\ ScaledBy(q, V[x], c, ax) /\ ScaledBy(q, V[y], c, ay)
      /\ Undoing(sc, len, u, V, root, reduces, x, y)
  BY DEF IsPair
<1>1. PICK vx \in Int, vy \in Int : vx = V[x] /\ vy = V[y]
  BY <1>0 DEF Fits
<1>2. q \in Nat \ {0}
  BY <1>0, Moduli
<1>3. Doubled(q, vx + vy, c, a) /\ DoubledRoot(q, vx - vy, c, rt, b)
  BY <1>0, <1>1, <1>2, UpAndDown
<1>4. Fits(sc, 2 * bound, vx + vy) /\ Fits(sc, 2 * bound, vx - vy)
  <2>1. Fits(sc, bound, vx) /\ Fits(sc, bound, vy)
    BY <1>0, <1>1
  <2> QED  BY <2>1 DEF Fits, AtMost
<1>5. PICK S, d, f, H : S = vx + vy /\ d = vx - vy /\ f = u[x] /\ H = u[y]
  OBVIOUS
<1>6. /\ reduces => f = Transforms!Barrett(sc, Transforms!Int16(S))
      /\ ~reduces /\ Last(sc, len) => f = Transforms!FqMul(sc, 256, Transforms!Int16(S))
      /\ ~reduces /\ ~Last(sc, len) => f = Transforms!Store(sc, S)
      /\ H = Transforms!FqMul(sc, root, IF sc = "aigis_enc" THEN d ELSE Transforms!Store(sc, d))
  BY <1>0, <1>1, <1>5 DEF Undoing
<1>7. Doubled(q, S, c, a) /\ DoubledRoot(q, d, c, rt, b) /\ Fits(sc, 2 * bound, S) /\ Fits(sc, 2 * bound, d)
  BY <1>3, <1>4, <1>5
<1>8. f \in Int /\ ScaledBy(q, f, c2, a) /\ Bounded(sc, bound, reduces, f)
  BY <1>0, <1>6, <1>7, SumUndone
<1>9. H \in Int /\ ScaledBy(q, H, c2, b) /\ Bounded(sc, bound, reduces, H)
  BY <1>0, <1>6, <1>7, DifferenceUndone
<1> QED  BY <1>5, <1>8, <1>9

IsPoly(u) == u \in Polys

WaysBack(sc, l, len, V, bound, reduces, W, c, c2, u) ==
    /\ l < Levels(sc) /\ len = Width(l) /\ 2 * bound <= 32767 /\ Product16(sc) <= 2 * bound
    /\ reduces => sc \in Kems /\ ~Last(sc, len)
    /\ Twice(c2, c, Gain(sc, len))
    /\ \A j \in Index : /\ Fits(sc, bound, V[j])
                        /\ ScaledBy(Transforms!Modulus(sc), V[j], c, Level(sc, len, W)[j])
    /\ u = Transforms!InvButterflies(sc, V, len, Nodes(sc) - 2 * (128 \div len), reduces)

LEMMA InversesAre ==
    ASSUME NEW sc \in Arithmetics, Transforms!TableFits(sc), NEW l \in Nat, NEW len, NEW V \in Polys,
           NEW bound \in Nat, NEW reduces \in BOOLEAN, NEW W \in Polys, NEW c \in Int, NEW c2 \in Int, NEW u,
           WaysBack(sc, l, len, V, bound, reduces, W, c, c2, u)
    PROVE  /\ IsPoly(u)
           /\ \A j \in Index : ScaledBy(Transforms!Modulus(sc), u[j], c2, W[j]) /\ Bounded(sc, bound, reduces, u[j])
<1>0. /\ l < Levels(sc) /\ len = Width(l) /\ 2 * bound <= 32767 /\ Product16(sc) <= 2 * bound
      /\ reduces => sc \in Kems /\ ~Last(sc, len)
      /\ Twice(c2, c, Gain(sc, len))
      /\ \A j \in Index : Fits(sc, bound, V[j]) /\ ScaledBy(Transforms!Modulus(sc), V[j], c, Level(sc, len, W)[j])
      /\ u = Transforms!InvButterflies(sc, V, len, Nodes(sc) - 2 * (128 \div len), reduces)
  BY DEF WaysBack
<1>1. PICK q \in Nat \ {0} : q = Transforms!Modulus(sc)
  BY Moduli
<1>2. PICK size \in Nat \ {0}, n \in Nat \ {0} :
          size = 2 * len /\ n = 128 \div len /\ 2 * n <= Nodes(sc) /\ len \in Widths2
  <2>1. len \in Widths2 /\ 128 \div len \in Nat \ {0} /\ 2 * (128 \div len) <= Nodes(sc)
    BY <1>0, Widths
  <2>2. 2 * len \in Nat \ {0}
    BY <2>1 DEF Widths2
  <2> QED  BY <2>1, <2>2
<1>3. PICK k : k = Nodes(sc) - 2 * n
  OBVIOUS
<1>4. PICK g \in Int : g = Gain(sc, len)
  BY GainIn
<1>5. PICK lw : lw = Level(sc, len, W)
  OBVIOUS
<1>6. InvStep(sc, len, size, n, u, V, k, reduces)
  BY <1>0, <1>2, <1>3, InvAt
<1>7. ASSUME NEW x \in Index, x % size < len, NEW y, y = x + len
      PROVE  /\ y \in Index
             /\ u[x] \in Int /\ ScaledBy(q, u[x], c2, W[x]) /\ Bounded(sc, bound, reduces, u[x])
             /\ u[y] \in Int /\ ScaledBy(q, u[y], c2, W[y]) /\ Bounded(sc, bound, reduces, u[y])
  <2>1. PICK e \in Nat : e = x \div size /\ e < n /\ y \in Index /\ ~(y % size < len) /\ y \div size = e /\ y - len = x
    BY <1>2, <1>7, SecondHalf
  <2>2. PICK m \in Nat \ {0} : m = n + e /\ m < Nodes(sc)
    <3>1. Nodes(sc) \in Nat
      BY DEF Nodes
    <3> QED  BY <1>2, <2>1, <3>1
  <2>3. PICK root : root = Transforms!InvRoot(sc, k + e)
    OBVIOUS
  <2>4. IsInverse(sc, l, len, n, e, m, root)
    BY <1>0, <1>2, <1>3, <2>1, <2>2, <2>3 DEF IsInverse
  <2>5. Undoes(sc, len, m, root)
    BY <2>4, InversesUndo
  <2>6. PICK rt \in Int : rt = Root(sc, m)
    <3>1. PICK z \in Int : z = Transforms!Zeta(sc, m) /\ Root(sc, m) = z * Inverse(sc)
      BY <2>2, ZetaIs
    <3>2. PICK ic \in Int : ic = Inverse(sc)
      BY Moduli
    <3> QED  BY <3>1, <3>2
  <2>7. IsUp(lw[x], W[x], rt, W[y]) /\ IsDown(lw[y], W[x], rt, W[y])
    <3>1. lw[x] = W[x] + Root(sc, n + e) * W[x + len]
      BY <1>2, <1>5, <1>7, <2>1, LevelAt
    <3>2. lw[y] = W[y - len] - Root(sc, n + e) * W[y]
      BY <1>2, <1>5, <2>1, LevelAt
    <3>3. lw[x] = W[x] + rt * W[y]
      BY <1>7, <2>2, <2>6, <3>1
    <3>4. lw[y] = W[x] - rt * W[y]
      BY <2>1, <2>2, <2>6, <3>2
    <3> QED  BY <3>3, <3>4 DEF IsUp, IsDown
  <2>8. ScaledBy(q, V[x], c, lw[x]) /\ ScaledBy(q, V[y], c, lw[y])
    BY <1>0, <1>1, <1>5, <2>1
  <2>9. Undoing(sc, len, u, V, root, reduces, x, y)
    <3>1. e \in 0 .. n - 1
      BY <2>1
    <3>2. /\ reduces => u[x] = Transforms!Barrett(sc, Transforms!Int16(V[x] + V[x + len]))
          /\ ~reduces /\ Last(sc, len) => u[x] = Transforms!FqMul(sc, 256, Transforms!Int16(V[x] + V[x + len]))
          /\ ~reduces /\ ~Last(sc, len) => u[x] = Transforms!Store(sc, V[x] + V[x + len])
      BY <1>6, <1>7, <2>1, <3>1 DEF InvStep
    <3>3. u[y] = Transforms!FqMul(sc, Transforms!InvRoot(sc, k + y \div size),
                     IF sc = "aigis_enc" THEN V[y - len] - V[y] ELSE Transforms!Store(sc, V[y - len] - V[y]))
      BY <1>6, <2>1, <3>1 DEF InvStep
    <3>4. u[y] = Transforms!FqMul(sc, root, IF sc = "aigis_enc" THEN V[x] - V[y] ELSE Transforms!Store(sc, V[x] - V[y]))
      BY <2>1, <2>3, <3>3
    <3> QED  BY <1>7, <3>2, <3>4 DEF Undoing
  <2>10. Fits(sc, bound, V[x]) /\ Fits(sc, bound, V[y]) /\ W[x] \in Int /\ W[y] \in Int
    BY <1>0, <2>1 DEF Polys
  <2>11. Twice(c2, c, g)
    BY <1>0, <1>4
  <2>12. PICK a \in Int, b \in Int : a = W[x] /\ b = W[y]
    BY <2>10
  <2>13. PICK ax, ay : ax = lw[x] /\ ay = lw[y]
    OBVIOUS
  <2>14. IsUp(ax, a, rt, b) /\ IsDown(ay, a, rt, b) /\ ScaledBy(q, V[x], c, ax) /\ ScaledBy(q, V[y], c, ay)
    BY <2>7, <2>8, <2>12, <2>13
  <2>15. /\ u[x] \in Int /\ ScaledBy(q, u[x], c2, a) /\ Bounded(sc, bound, reduces, u[x])
         /\ u[y] \in Int /\ ScaledBy(q, u[y], c2, b) /\ Bounded(sc, bound, reduces, u[y])
    <3>1. IsPair(sc, q, len, m, root, bound, reduces, c, g, c2, V, x, y, a, b, rt, ax, ay, u)
      BY <1>0, <1>1, <1>4, <2>5, <2>6, <2>9, <2>10, <2>11, <2>14 DEF IsPair
    <3> QED  BY <1>0, <3>1, PairUndone
  <2> QED  BY <2>1, <2>12, <2>15
<1>8. ASSUME NEW j \in Index PROVE u[j] \in Int /\ ScaledBy(q, u[j], c2, W[j]) /\ Bounded(sc, bound, reduces, u[j])
  <2>1. CASE j % size < len
    BY <1>7, <2>1
  <2>2. CASE ~(j % size < len)
    <3>1. PICK x \in Index : x = j - len /\ x % size < len /\ j = x + len
      BY <1>2, <2>2, Partners
    <3> QED  BY <1>7, <3>1
  <2> QED  BY <2>1, <2>2
<1>9. IsPoly(u)
  BY <1>0, <1>8, InvIn DEF IsPoly
<1> QED  BY <1>1, <1>8, <1>9

(* The transform after l loops, and how far the coefficients have grown.   *)
Grown(sc, l) ==
    CASE sc = "kyber"     -> 3328 + 3584 * l
      [] sc = "aigis_enc" -> 6140 + 5760 * ((l + 1) % 3)
      [] sc = "ml_dsa"    -> 6140

Forward(sc, l, p, u) ==
    u \in Polys /\ Equal(sc, u, After(sc, l, p)) /\ \A j \in Index : Fits(sc, Grown(sc, l), u[j])

LEMMA GrownIs ==
    ASSUME NEW sc \in Arithmetics, NEW l \in Nat, l < Levels(sc)
    PROVE  /\ Grown(sc, l) \in Nat /\ Grown(sc, l) + Product16(sc) <= 32767
           /\ Transforms!ReducesSum(sc, l + 1) \in BOOLEAN
           /\ Transforms!ReducesSum(sc, l + 1) => sc = "aigis_enc" /\ Reduced16(sc) = Grown(sc, l + 1)
           /\ ~Transforms!ReducesSum(sc, l + 1) /\ sc \in Kems => Grown(sc, l) + Product16(sc) = Grown(sc, l + 1)
<1>1. CASE sc = "kyber"
  <2>1. Grown(sc, l) = 3328 + 3584 * l /\ Grown(sc, l + 1) = 3328 + 3584 * (l + 1) /\ l <= 6
    BY <1>1 DEF Grown, Levels
  <2> QED  BY <1>1, <2>1 DEF Product16, Transforms!ReducesSum
<1>2. CASE sc = "aigis_enc"
  <2>1. /\ l \in 0 .. 7
        /\ Grown(sc, l) = 6140 + 5760 * ((l + 1) % 3)
        /\ Grown(sc, l + 1) = 6140 + 5760 * ((l + 2) % 3)
    <3>1. l + 1 + 1 = l + 2
      OBVIOUS
    <3>2. l \in 0 .. 7
      BY <1>2 DEF Levels
    <3> QED  BY <1>2, <3>1, <3>2 DEF Grown
  <2>2. /\ Transforms!ReducesSum(sc, l + 1) <=> l + 1 \in {2, 5, 8}
        /\ Product16(sc) = 5760 /\ Reduced16(sc) = 6140
    BY <1>2 DEF Transforms!ReducesSum, Product16, Reduced16
  <2>3. PICK r, g, g2 : r \in BOOLEAN /\ g = Grown(sc, l) /\ g2 = Grown(sc, l + 1) /\ r = Transforms!ReducesSum(sc, l + 1)
    <3>1. Transforms!ReducesSum(sc, l + 1) \in BOOLEAN
      BY DEF Transforms!ReducesSum
    <3> QED  BY <3>1
  <2>4. /\ g \in Nat /\ g + 5760 <= 32767
        /\ r => 6140 = g2
        /\ ~r => g + 5760 = g2
    <3>1. CASE l \in {0, 3, 6}
      BY <2>1, <2>2, <2>3, <3>1, SMT
    <3>2. CASE l \in {1, 4, 7}
      BY <2>1, <2>2, <2>3, <3>2, SMT
    <3>3. CASE l \in {2, 5}
      BY <2>1, <2>2, <2>3, <3>3, SMT
    <3>4. l \in {0, 3, 6} \/ l \in {1, 4, 7} \/ l \in {2, 5}
      BY <2>1
    <3> QED  BY <3>1, <3>2, <3>3, <3>4
  <2> QED  BY <1>2, <2>2, <2>3, <2>4
<1>3. CASE sc = "ml_dsa"
  BY <1>3 DEF Grown, Product16, Transforms!ReducesSum, Kems
<1> QED  BY <1>1, <1>2, <1>3 DEF Arithmetics

LEMMA ForwardStep ==
    ASSUME NEW sc \in Arithmetics, Transforms!TableFits(sc), NEW l \in Nat, l < Levels(sc),
           NEW p \in Polys, NEW u, Forward(sc, l, p, u),
           NEW len, len = Transforms!Lens(sc)[l + 1],
           NEW x, x = Transforms!Butterflies(sc, u, len, 128 \div len, Transforms!ReducesSum(sc, l + 1))
    PROVE  Forward(sc, l + 1, p, x)
<1>1. len = Width(l) /\ len \in Widths2 /\ l \in 0 .. 7
  BY LoopsAre, Widths
<1>2. PICK reduces \in BOOLEAN : reduces = Transforms!ReducesSum(sc, l + 1)
  BY GrownIs
<1>3. PICK bound \in Nat, next \in {Grown(sc, l + 1)} : bound = Grown(sc, l)
  BY GrownIs
<1>4. /\ bound + Product16(sc) <= 32767
      /\ reduces => sc \in Kems /\ Reduced16(sc) = next
      /\ ~reduces /\ sc \in Kems => bound + Product16(sc) = next
  BY <1>2, <1>3, GrownIs DEF Kems
<1>5. PICK W \in Polys : W = u /\ Equal(sc, W, After(sc, l, p)) /\ \A j \in Index : Fits(sc, bound, W[j])
  BY <1>3 DEF Forward
<1>6. x = Transforms!Butterflies(sc, W, len, 128 \div len, reduces)
  BY <1>2, <1>5
<1>7. /\ x \in Polys /\ Equal(sc, x, Level(sc, len, W))
      /\ \A j \in Index : Fits(sc, IF reduces THEN Reduced16(sc) ELSE bound + Product16(sc), x[j])
  BY <1>1, <1>4, <1>5, <1>6, ButterfliesAre
<1>8. AllRooted(sc)
  BY Roots
<1>9. PICK ap \in Polys : ap = After(sc, l, p)
  <2>1. l <= Levels(sc)
    BY DEF Levels
  <2> QED  BY <1>8, <2>1, AfterIn
<1>10. PICK lw \in Polys, lp \in Polys : lw = Level(sc, len, W) /\ lp = Level(sc, len, ap) /\ Equal(sc, lw, lp)
  <2>1. \A m \in Nat \ {0} : m < 2 * (128 \div len) => Root(sc, m) \in Int
    BY <1>1, <1>8, RootsAre
  <2>2. Level(sc, len, W) \in Polys /\ Level(sc, len, ap) \in Polys
    BY <1>1, <2>1, LevelIn
  <2>3. Equal(sc, Level(sc, len, W), Level(sc, len, ap))
    BY <1>1, <1>5, <1>9, <2>1, LevelSame
  <2> QED  BY <2>2, <2>3
<1>11. Equal(sc, x, lp)
  BY <1>7, <1>10, EqualThrough
<1>12. lp = After(sc, l + 1, p)
  BY <1>1, <1>9, <1>10, AfterStep
<1>13. ASSUME NEW j \in Index PROVE Fits(sc, next, x[j])
  <2>1. CASE sc \in Kems
    <3>1. (IF reduces THEN Reduced16(sc) ELSE bound + Product16(sc)) = next
      BY <1>4, <2>1
    <3> QED  BY <1>7, <3>1
  <2>2. CASE sc \notin Kems
    BY <1>7, <2>2 DEF Fits
  <2> QED  BY <2>1, <2>2
<1> QED  BY <1>3, <1>7, <1>11, <1>12, <1>13 DEF Forward

-----------------------------------------------------------------------------
(* The way back after l loops: what is left of the transform, times a      *)
(* factor.                                                                 *)
Two(l) == CASE l = 0 -> 1 [] l = 1 -> 2 [] l = 2 -> 4 [] l = 3 -> 8 [] l = 4 -> 16
            [] l = 5 -> 32 [] l = 6 -> 64 [] l = 7 -> 128 [] l = 8 -> 256

Start(sc) == IF sc = "aigis_enc" THEN (5569 * Inverse(sc)) * Inverse(sc) ELSE Inverse(sc)
Scale(sc, l) == (Two(l) * Start(sc)) * (IF sc = "aigis_enc" /\ l = 8 THEN 256 * Inverse(sc) ELSE 1)

Held(sc, l) == CASE sc = "kyber"     -> 3584
                 [] sc = "aigis_enc" -> IF l \in {0, 2, 4, 6} THEN 6140 ELSE IF l = 8 THEN 24560 ELSE 12280
                 [] sc = "ml_dsa"    -> 6140

Backward(sc, l, p, u) ==
    /\ u \in Polys
    /\ \A j \in Index : /\ ScaledBy(Transforms!Modulus(sc), u[j], Scale(sc, l), After(sc, Levels(sc) - l, p)[j])
                        /\ Fits(sc, Held(sc, l), u[j])

LEMMA Doubles == ASSUME NEW l \in 0 .. 7 PROVE Two(l) \in Int /\ Two(l + 1) = 2 * Two(l)
BY SMT DEF Two

LEMMA StartIn == ASSUME NEW sc \in Arithmetics PROVE Start(sc) \in Int
<1>1. PICK c \in Int : c = Inverse(sc)
  BY Moduli
<1> QED  BY <1>1 DEF Start

LEMMA Scales ==
    ASSUME NEW sc \in Arithmetics, NEW l \in Nat, l < Levels(sc)
    PROVE  /\ Scale(sc, l) \in Int /\ Scale(sc, l + 1) \in Int
           /\ Twice(Scale(sc, l + 1), Scale(sc, l), Gain(sc, Width(Levels(sc) - 1 - l)))
<1>1. PICK c \in Int, st \in Int : c = Inverse(sc) /\ st = Start(sc)
  BY Moduli, StartIn
<1>2. l \in 0 .. 7
  BY DEF Levels
<1>3. PICK T \in Int : T = Two(l) /\ Two(l + 1) = 2 * T
  BY <1>2, Doubles
<1>4. Last(sc, Width(Levels(sc) - 1 - l)) <=> sc = "aigis_enc" /\ l = 7
  <2>1. CASE sc = "aigis_enc"
    <3>1. Levels(sc) - 1 - l = 7 - l
      BY <2>1 DEF Levels
    <3>2. Width(7 - l) = 128 <=> l = 7
      BY <1>2, SMT DEF Width
    <3> QED  BY <2>1, <3>1, <3>2 DEF Last
  <2>2. CASE sc # "aigis_enc"
    BY <2>2 DEF Last
  <2> QED  BY <2>1, <2>2
<1>5. Scale(sc, l) = T * st
  <2>1. l # 8
    BY <1>2
  <2> QED  BY <1>1, <1>3, <2>1 DEF Scale
<1>6. CASE sc = "aigis_enc" /\ l = 7
  <2>1. Gain(sc, Width(Levels(sc) - 1 - l)) = 256 * c
    BY <1>1, <1>4, <1>6 DEF Gain
  <2>2. l + 1 = 8
    BY <1>6
  <2>3. Scale(sc, l + 1) = ((2 * T) * st) * (256 * c)
    BY <1>1, <1>3, <1>6, <2>2 DEF Scale
  <2>4. ((2 * T) * st) * (256 * c) = (2 * (T * st)) * (256 * c)
    OBVIOUS
  <2>5. T * st \in Int /\ ((2 * T) * st) * (256 * c) \in Int
    OBVIOUS
  <2> QED  BY <1>5, <2>1, <2>3, <2>4, <2>5 DEF Twice
<1>7. CASE ~(sc = "aigis_enc" /\ l = 7)
  <2>1. Gain(sc, Width(Levels(sc) - 1 - l)) = 1
    BY <1>4, <1>7 DEF Gain
  <2>2. l + 1 = 8 <=> l = 7
    OBVIOUS
  <2>3. Scale(sc, l + 1) = ((2 * T) * st) * 1
    BY <1>1, <1>3, <1>7, <2>2 DEF Scale
  <2>4. ((2 * T) * st) * 1 = (2 * (T * st)) * 1
    OBVIOUS
  <2>5. T * st \in Int /\ ((2 * T) * st) * 1 \in Int
    OBVIOUS
  <2> QED  BY <1>5, <2>1, <2>3, <2>4, <2>5 DEF Twice
<1> QED  BY <1>6, <1>7

LEMMA HeldIs ==
    ASSUME NEW sc \in Arithmetics, NEW l \in Nat, l < Levels(sc)
    PROVE  /\ Held(sc, l) \in Nat /\ 2 * Held(sc, l) <= 32767 /\ Product16(sc) <= 2 * Held(sc, l)
           /\ Transforms!InvReducesSum(sc, l + 1) \in BOOLEAN
           /\ Transforms!InvReducesSum(sc, l + 1) =>
                 /\ sc \in Kems /\ ~Last(sc, Width(Levels(sc) - 1 - l)) /\ Settled(sc) = Held(sc, l + 1)
           /\ ~Transforms!InvReducesSum(sc, l + 1) /\ sc \in Kems => 2 * Held(sc, l) = Held(sc, l + 1)
<1>1. CASE sc = "kyber"
  BY <1>1 DEF Held, Product16, Settled, Transforms!InvReducesSum, Kems, Last
<1>2. CASE sc = "aigis_enc"
  <2>1. l \in 0 .. 7 /\ Levels(sc) - 1 - l = 7 - l
    BY <1>2 DEF Levels
  <2>2. Transforms!InvReducesSum(sc, l + 1) <=> l + 1 \in {2, 4, 6}
    BY <1>2 DEF Transforms!InvReducesSum
  <2>3. Product16(sc) = 5760 /\ Settled(sc) = 6140 /\ sc \in Kems
    BY <1>2 DEF Product16, Settled, Kems
  <2>4. /\ Held(sc, l) = IF l \in {0, 2, 4, 6} THEN 6140 ELSE IF l = 8 THEN 24560 ELSE 12280
        /\ Held(sc, l + 1) = IF l + 1 \in {0, 2, 4, 6} THEN 6140 ELSE IF l + 1 = 8 THEN 24560 ELSE 12280
    BY <1>2 DEF Held
  <2>5. Last(sc, Width(7 - l)) <=> l = 7
    BY <1>2, <2>1, SMT DEF Last, Width
  <2>6. PICK r, g, g2 : r \in BOOLEAN /\ g = Held(sc, l) /\ g2 = Held(sc, l + 1) /\ r = Transforms!InvReducesSum(sc, l + 1)
    <3>1. Transforms!InvReducesSum(sc, l + 1) \in BOOLEAN
      BY DEF Transforms!InvReducesSum
    <3> QED  BY <3>1
  <2>7. /\ g \in Nat /\ 2 * g <= 32767 /\ 5760 <= 2 * g
        /\ r => 6140 = g2 /\ l # 7
        /\ ~r => 2 * g = g2
    <3>1. CASE l \in {0, 2, 4, 6}
      BY <2>1, <2>2, <2>4, <2>6, <3>1, SMT
    <3>2. CASE l \in {1, 3, 5}
      BY <2>1, <2>2, <2>4, <2>6, <3>2, SMT
    <3>3. CASE l = 7
      BY <2>1, <2>2, <2>4, <2>6, <3>3, SMT
    <3>4. l \in {0, 2, 4, 6} \/ l \in {1, 3, 5} \/ l = 7
      BY <2>1
    <3> QED  BY <3>1, <3>2, <3>3, <3>4
  <2> QED  BY <2>1, <2>3, <2>5, <2>6, <2>7
<1>3. CASE sc = "ml_dsa"
  BY <1>3 DEF Held, Product16, Transforms!InvReducesSum, Kems
<1> QED  BY <1>1, <1>2, <1>3 DEF Arithmetics

LoopBack(sc, l, len, u, x) ==
    /\ len = Transforms!InvLen(sc, l + 1)
    /\ x = Transforms!InvButterflies(sc, u, len, Nodes(sc) - 2 * (128 \div len), Transforms!InvReducesSum(sc, l + 1))

LEMMA BackwardStep ==
    ASSUME NEW sc \in Arithmetics, Transforms!TableFits(sc), NEW l \in Nat, l < Levels(sc),
           NEW p \in Polys, NEW u, Backward(sc, l, p, u),
           NEW len, NEW x, LoopBack(sc, l, len, u, x)
    PROVE  Backward(sc, l + 1, p, x)
<1>0. /\ len = Transforms!InvLen(sc, l + 1)
      /\ x = Transforms!InvButterflies(sc, u, len, Nodes(sc) - 2 * (128 \div len), Transforms!InvReducesSum(sc, l + 1))
  BY DEF LoopBack
<1>1. PICK m \in Nat : m = Levels(sc) - 1 - l /\ m < Levels(sc) /\ m + 1 = Levels(sc) - l /\ m = Levels(sc) - (l + 1)
  BY DEF Levels
<1>2. len = Width(m) /\ m \in 0 .. 7
  BY <1>0, <1>1, LoopsAre, Widths
<1>3. PICK reduces \in BOOLEAN : reduces = Transforms!InvReducesSum(sc, l + 1)
  BY HeldIs
<1>4. PICK bound \in Nat, next \in {Held(sc, l + 1)} : bound = Held(sc, l)
  BY HeldIs
<1>5. /\ 2 * bound <= 32767 /\ Product16(sc) <= 2 * bound
      /\ reduces => sc \in Kems /\ ~Last(sc, len) /\ Settled(sc) = next
      /\ ~reduces /\ sc \in Kems => 2 * bound = next
  BY <1>1, <1>2, <1>3, <1>4, HeldIs
<1>6. PICK c \in Int, c2 \in Int : c = Scale(sc, l) /\ c2 = Scale(sc, l + 1) /\ Twice(c2, c, Gain(sc, len))
  BY <1>1, <1>2, Scales
<1>7. AllRooted(sc)
  BY Roots
<1>8. PICK W \in Polys : W = After(sc, m, p)
  <2>1. m <= Levels(sc)
    BY <1>1 DEF Levels
  <2> QED  BY <1>7, <2>1, AfterIn
<1>9. Level(sc, len, W) = After(sc, Levels(sc) - l, p)
  BY <1>1, <1>2, <1>8, AfterStep
<1>10. PICK y \in Polys : y = u
  BY DEF Backward
<1>11. \A j \in Index : ScaledBy(Transforms!Modulus(sc), y[j], c, Level(sc, len, W)[j]) /\ Fits(sc, bound, y[j])
  BY <1>4, <1>6, <1>9, <1>10 DEF Backward
<1>12. x = Transforms!InvButterflies(sc, y, len, Nodes(sc) - 2 * (128 \div len), reduces)
  BY <1>0, <1>3, <1>10
<1>13. /\ x \in Polys
       /\ \A j \in Index : ScaledBy(Transforms!Modulus(sc), x[j], c2, W[j]) /\ Bounded(sc, bound, reduces, x[j])
  <2>1. WaysBack(sc, m, len, y, bound, reduces, W, c, c2, x)
    BY <1>1, <1>2, <1>5, <1>6, <1>11, <1>12 DEF WaysBack
  <2>2. IsPoly(x)
    BY <2>1, InversesAre
  <2>3. \A j \in Index : ScaledBy(Transforms!Modulus(sc), x[j], c2, W[j]) /\ Bounded(sc, bound, reduces, x[j])
    BY <2>1, InversesAre
  <2> QED  BY <2>2, <2>3 DEF IsPoly
<1>14. ASSUME NEW j \in Index PROVE Fits(sc, next, x[j])
  <2>1. CASE sc \in Kems
    BY <1>5, <1>13, <2>1 DEF Bounded
  <2>2. CASE sc \notin Kems
    BY <1>13, <2>2 DEF Bounded, Fits
  <2> QED  BY <2>1, <2>2
<1> QED  BY <1>1, <1>4, <1>6, <1>8, <1>13, <1>14 DEF Backward

LEMMA Corners2 ==
    ASSUME NEW x, NEW y, AtMost(6144, x), AtMost(20480, y)
    PROVE  \A p : IsTimes(p, x, y) => Corner(p)
<1>1. x \in Int /\ y \in Int /\ -6144 <= x /\ x <= 6144 /\ -20480 <= y /\ y <= 20480
  BY DEF AtMost
<1>2. PICK c, d, e, f \in Nat : c = 6144 - x /\ d = 6144 + x /\ e = 20480 - y /\ f = 20480 + y
  BY <1>1
<1>3. PICK p \in Int : p = x * y
  BY <1>1
<1>4. PICK cf, df, ce, de \in Nat : cf = c * f /\ df = d * f /\ ce = c * e /\ de = d * e
  OBVIOUS
<1>5. cf = 6144 * y + 125829120 - p - 20480 * x
  BY <1>1, <1>2, <1>3, <1>4
<1>6. df = 6144 * y + 125829120 + p + 20480 * x
  BY <1>1, <1>2, <1>3, <1>4
<1>7. ce = 125829120 - 6144 * y - 20480 * x + p
  BY <1>1, <1>2, <1>3, <1>4
<1>8. de = 125829120 - 6144 * y + 20480 * x - p
  BY <1>1, <1>2, <1>3, <1>4
<1>9. -125829120 <= p /\ p <= 125829120
  BY <1>1, <1>5, <1>6, <1>7, <1>8
<1> QED  BY <1>3, <1>9 DEF IsTimes, Corner

(* A product, over what the reduction divides by. *)
OverBy(q, f, c, a, b) == Same(q, f, c * (a * b))

LEMMA ByInverse ==
    ASSUME NEW sc \in Arithmetics, NEW q, q = Transforms!Modulus(sc), NEW c, c = Inverse(sc),
           NEW a \in Int, NEW b \in Int, NEW f, f = Transforms!FqMul(sc, a, b)
    PROVE  f \in Int /\ OverBy(q, f, c, a, b)
<1>1. f \in Int /\ Same(q, f, (a * c) * b)
  BY ByRoot
<1>2. c \in Int
  BY Moduli
<1>3. (a * c) * b = c * (a * b)
  BY <1>2
<1> QED  BY <1>1, <1>3 DEF OverBy

(* A product of Aigis-enc. *)
LEMMA AigisPoint ==
    ASSUME NEW a, NEW b, AtMost(6140, a), AtMost(6140, b), NEW f, f = Transforms!FqMul("aigis_enc", 5569, b),
           NEW g, g = Transforms!FqMul("aigis_enc", a, f), NEW r, r = Transforms!Barrett("aigis_enc", g),
           NEW q, q = Transforms!Modulus("aigis_enc")
    PROVE  r \in Int /\ OverBy(q, r, Start("aigis_enc"), a, b) /\ AtMost(6140, r)
<1>1. "aigis_enc" \in Kems /\ "aigis_enc" \in Arithmetics /\ a \in Int /\ b \in Int /\ 5569 \in Int
  BY DEF Kems, Arithmetics, AtMost
<1>2. PICK c \in Int : c = Inverse("aigis_enc") /\ q \in Nat \ {0}
  BY <1>1, Moduli
<1>3. f \in Int /\ OverBy(q, f, c, 5569, b)
  BY <1>1, <1>2, ByInverse
<1>4. g \in Int /\ OverBy(q, g, c, a, f)
  BY <1>1, <1>2, <1>3, ByInverse
<1>5. AtMost(5760, f)
  <2>1. AtMost(6144, 5569) /\ AtMost(20480, b)
    BY DEF AtMost
  <2>2. \A p : IsTimes(p, 5569, b) => Corner(p)
    BY <2>1, Corners2
  <2>3. AtMost(Product16("aigis_enc"), f)
    BY <1>1, <2>2, FqMulCorner
  <2> QED  BY <2>3 DEF Product16
<1>6. AtMost(5760, g)
  <2>1. AtMost(6144, a) /\ AtMost(20480, f)
    BY <1>5 DEF AtMost
  <2>2. \A p : IsTimes(p, a, f) => Corner(p)
    BY <2>1, Corners2
  <2>3. AtMost(Product16("aigis_enc"), g)
    BY <1>1, <1>3, <2>2, FqMulCorner
  <2> QED  BY <2>3 DEF Product16
<1>7. AtMost(6140, r) /\ Same(q, r, g)
  <2>1. AtMost(32767, g)
    BY <1>6 DEF AtMost
  <2>2. /\ AtMost(Reduced16("aigis_enc"), Transforms!Barrett("aigis_enc", g))
        /\ Same(Transforms!Modulus("aigis_enc"), Transforms!Barrett("aigis_enc", g), g)
    BY <1>1, <2>1, BarrettIs
  <2> QED  BY <2>2 DEF Reduced16
<1>8. PICK m \in Int, cam \in Int, ca \in Int, caf \in Int :
          m = c * (5569 * b) /\ ca = c * a /\ cam = m * ca /\ caf = f * ca
  BY <1>1, <1>2, <1>3
<1>9. Same(q, f, m) /\ Same(q, g, c * (a * f))
  BY <1>3, <1>4, <1>8 DEF OverBy
<1>10. c * (a * f) = caf
  BY <1>1, <1>3, <1>8
<1>11. Same(q, caf, cam)
  <2>1. IsTimes(caf, f, ca) /\ IsTimes(cam, m, ca)
    BY <1>8 DEF IsTimes
  <2> QED  BY <1>2, <1>3, <1>9, <2>1, TimesSame
<1>12. cam = ((5569 * c) * c) * (a * b)
  <2>1. (c * (5569 * b)) * (c * a) = ((5569 * c) * c) * (a * b)
    BY <1>1, <1>2
  <2> QED  BY <1>8, <2>1
<1>13. Same(q, g, caf)
  BY <1>9, <1>10
<1>14. r \in Int
  BY <1>7 DEF AtMost
<1>15. Same(q, r, caf)
  BY <1>2, <1>4, <1>7, <1>13, <1>14, SameThrough
<1>16. Same(q, r, cam)
  BY <1>2, <1>11, <1>14, <1>15, SameThrough
<1>17. Start("aigis_enc") = (5569 * c) * c
  BY <1>2 DEF Start
<1> QED  BY <1>7, <1>12, <1>14, <1>16, <1>17 DEF OverBy

-----------------------------------------------------------------------------
(* A product of two pairs of Kyber. *)
LEMMA KyberProduct ==
    ASSUME NEW a, NEW b, AtMost(3840, a), AtMost(3840, b), NEW f, f = Transforms!FqMul("kyber", a, b),
           NEW q, q = Transforms!Modulus("kyber"), NEW c, c = Inverse("kyber")
    PROVE  f \in Int /\ OverBy(q, f, c, a, b) /\ AtMost(3584, f)
<1>1. "kyber" \in Kems /\ "kyber" \in Arithmetics /\ a \in Int /\ b \in Int
  BY DEF Kems, Arithmetics, AtMost
<1>2. f \in Int /\ OverBy(q, f, c, a, b)
  BY <1>1, ByInverse
<1>3. AtMost(32768, b)
  BY DEF AtMost
<1>4. AtMost(Product16("kyber"), f)
  BY <1>1, <1>3, FqMulSmall
<1> QED  BY <1>2, <1>4 DEF Product16

(* The sum of two products, reduced. *)
LEMMA KyberSum ==
    ASSUME NEW x, NEW y, AtMost(3584, x), AtMost(3584, y), NEW r,
           r = Transforms!Barrett("kyber", Transforms!Int16(x + y)), NEW q, q = Transforms!Modulus("kyber")
    PROVE  r \in Int /\ Same(q, r, x + y) /\ AtMost(1700, r)
<1>1. PICK z : z = x + y
  OBVIOUS
<1>2. "kyber" \in Kems /\ Fits("kyber", 32767, z)
  BY <1>1 DEF Kems, Fits, AtMost
<1>3. r = Transforms!Barrett("kyber", Transforms!Int16(z))
  BY <1>1
<1>4. r \in Int /\ Same(q, r, z) /\ AtMost(Reduced16("kyber"), r)
  BY <1>2, <1>3, PutReduced
<1> QED  BY <1>1, <1>4 DEF Reduced16

LEMMA KyberEven ==
    ASSUME NEW a, NEW b, NEW a2, NEW b2, NEW z, AtMost(1700, a), AtMost(1700, b), AtMost(1700, a2),
           AtMost(1700, b2), AtMost(3840, z), NEW T, NEW c, c = Inverse("kyber"), IsTimes(T, z, c),
           NEW r, r = Transforms!Barrett("kyber", Transforms!Int16(
                         Transforms!FqMul("kyber", Transforms!FqMul("kyber", a2, b2), z)
                            + Transforms!FqMul("kyber", a, b))),
           NEW q, q = Transforms!Modulus("kyber"), NEW m, IsSum(m, a, b, T, a2, b2)
    PROVE  r \in Int /\ ScaledBy(q, r, c, m) /\ AtMost(1700, r)
<1>1. /\ AtMost(3840, a) /\ AtMost(3840, b) /\ AtMost(3840, a2) /\ AtMost(3840, b2)
      /\ a \in Int /\ b \in Int /\ a2 \in Int /\ b2 \in Int /\ z \in Int
  BY DEF AtMost
<1>2. c \in Int /\ q \in Nat \ {0}
  BY Moduli DEF Arithmetics
<1>3. PICK f, g, H : f = Transforms!FqMul("kyber", a2, b2) /\ g = Transforms!FqMul("kyber", f, z)
                     /\ H = Transforms!FqMul("kyber", a, b)
  OBVIOUS
<1>4. f \in Int /\ OverBy(q, f, c, a2, b2) /\ AtMost(3584, f)
  BY <1>1, <1>3, KyberProduct
<1>5. H \in Int /\ OverBy(q, H, c, a, b) /\ AtMost(3584, H)
  BY <1>1, <1>3, KyberProduct
<1>6. g \in Int /\ OverBy(q, g, c, f, z) /\ AtMost(3584, g)
  <2>1. AtMost(3840, f)
    BY <1>4 DEF AtMost
  <2> QED  BY <1>3, <2>1, KyberProduct
<1>7. r \in Int /\ Same(q, r, g + H) /\ AtMost(1700, r)
  BY <1>3, <1>5, <1>6, KyberSum
<1>8. PICK fm \in Int, cz \in Int, gf \in Int, gm \in Int :
          fm = c * (a2 * b2) /\ cz = c * z /\ gf = f * cz /\ gm = fm * cz
  BY <1>1, <1>2, <1>4
<1>9. Same(q, gf, gm)
  <2>1. IsTimes(gf, f, cz) /\ IsTimes(gm, fm, cz)
    BY <1>8 DEF IsTimes
  <2>2. Same(q, f, fm)
    BY <1>4, <1>8 DEF OverBy
  <2> QED  BY <1>2, <1>4, <2>1, <2>2, TimesSame
<1>10. Same(q, g, gf)
  <2>1. c * (f * z) = gf
    BY <1>1, <1>2, <1>4, <1>8
  <2> QED  BY <1>6, <2>1 DEF OverBy
<1>11. Same(q, g, gm)
  BY <1>2, <1>6, <1>9, <1>10, SameThrough
<1>12. PICK hm \in Int : hm = c * (a * b) /\ Same(q, H, hm)
  BY <1>1, <1>2, <1>5 DEF OverBy
<1>13. Same(q, g + H, gm + hm)
  BY <1>2, <1>5, <1>6, <1>11, <1>12, SameSum
<1>14. gm + hm = c * m
  <2>1. m = a * b + (z * c) * (a2 * b2)
    BY DEF IsTimes, IsSum
  <2>2. PICK x \in Int, y \in Int : x = a * b /\ y = a2 * b2
    BY <1>1
  <2>3. gm = (c * y) * (c * z) /\ hm = c * x
    BY <1>8, <1>12, <2>2
  <2>4. (c * y) * (c * z) + c * x = c * (x + (z * c) * y)
    BY <1>1, <1>2
  <2> QED  BY <2>1, <2>2, <2>3, <2>4
<1>15. PICK gh \in Int, s2 \in Int : gh = g + H /\ s2 = gm + hm
  BY <1>5, <1>6
<1>16. Same(q, r, s2)
  BY <1>2, <1>7, <1>13, <1>15, SameThrough
<1> QED  BY <1>7, <1>14, <1>15, <1>16 DEF ScaledBy

LEMMA KyberOdd ==
    ASSUME NEW a, NEW b, NEW a2, NEW b2, AtMost(1700, a), AtMost(1700, b), AtMost(1700, a2), AtMost(1700, b2),
           NEW c, c = Inverse("kyber"),
           NEW r, r = Transforms!Barrett("kyber", Transforms!Int16(
                         Transforms!FqMul("kyber", a, b) + Transforms!FqMul("kyber", a2, b2))),
           NEW q, q = Transforms!Modulus("kyber"), NEW m, IsSum(m, a, b, 1, a2, b2)
    PROVE  r \in Int /\ ScaledBy(q, r, c, m) /\ AtMost(1700, r)
<1>1. /\ AtMost(3840, a) /\ AtMost(3840, b) /\ AtMost(3840, a2) /\ AtMost(3840, b2)
      /\ a \in Int /\ b \in Int /\ a2 \in Int /\ b2 \in Int
  BY DEF AtMost
<1>2. c \in Int /\ q \in Nat \ {0}
  BY Moduli DEF Arithmetics
<1>3. PICK f, H : f = Transforms!FqMul("kyber", a2, b2) /\ H = Transforms!FqMul("kyber", a, b)
  OBVIOUS
<1>4. f \in Int /\ OverBy(q, f, c, a2, b2) /\ AtMost(3584, f)
  BY <1>1, <1>3, KyberProduct
<1>5. H \in Int /\ OverBy(q, H, c, a, b) /\ AtMost(3584, H)
  BY <1>1, <1>3, KyberProduct
<1>6. r \in Int /\ Same(q, r, H + f) /\ AtMost(1700, r)
  BY <1>3, <1>4, <1>5, KyberSum
<1>7. PICK x \in Int, y \in Int : x = a * b /\ y = a2 * b2 /\ m = x + 1 * y
  BY <1>1 DEF IsSum
<1>8. PICK hm \in Int, fm \in Int : hm = c * x /\ fm = c * y /\ Same(q, H, hm) /\ Same(q, f, fm)
  BY <1>2, <1>4, <1>5, <1>7 DEF OverBy
<1>9. Same(q, H + f, hm + fm)
  BY <1>2, <1>4, <1>5, <1>8, SameSum
<1>10. hm + fm = c * m
  <2>1. c * x + c * y = c * (x + 1 * y)
    BY <1>2
  <2> QED  BY <1>7, <1>8, <2>1
<1>11. PICK fh \in Int, s2 \in Int : fh = H + f /\ s2 = hm + fm
  BY <1>4, <1>5
<1>12. Same(q, r, s2)
  BY <1>2, <1>6, <1>9, <1>11, SameThrough
<1> QED  BY <1>6, <1>10, <1>11, <1>12 DEF ScaledBy

Places4(j) ==
    LET n == 64 + j \div 4
    IN  /\ n \in Nat \ {0} /\ n < 128 /\ 64 + j \div 4 + 1 = 65 + j \div 4
        /\ j % 2 = 0 => IF j % 4 < 2 THEN 128 + j \div 2 = 2 * n ELSE 128 + j \div 2 = 2 * n + 1

LEMMA Fours4 == ASSUME NEW j \in Index PROVE Places4(j)
BY SMT DEF Places4, Index

(* The entry a pair of Kyber is multiplied with. *)
PairZeta(j) == IF j % 4 < 2 THEN Transforms!KyberZetas[65 + j \div 4] ELSE -Transforms!KyberZetas[65 + j \div 4]

LEMMA PairZetaIs ==
    ASSUME Transforms!TableFits("kyber"), NEW j \in Index, j % 2 = 0
    PROVE  AtMost(3840, PairZeta(j)) /\ IsTimes(Turn("kyber", 128 + j \div 2), PairZeta(j), Inverse("kyber"))
<1>1. PICK n \in Nat \ {0} : n = 64 + j \div 4 /\ n < 128 /\ n + 1 = 65 + j \div 4
  BY Fours4 DEF Places4
<1>2. IF j % 4 < 2 THEN 128 + j \div 2 = 2 * n ELSE 128 + j \div 2 = 2 * n + 1
  BY <1>1, Fours4 DEF Places4
<1>3. "kyber" \in Arithmetics /\ "kyber" \in Kems
  BY DEF Arithmetics, Kems
<1>4. PICK z \in Int : z = Transforms!Zeta("kyber", n) /\ AtMost(3840, z) /\ Root("kyber", n) = z * Inverse("kyber")
  <2>1. n < Nodes("kyber")
    BY <1>1 DEF Nodes
  <2> QED  BY <1>3, <2>1, ZetaIs DEF Small
<1>5. z = Transforms!KyberZetas[65 + j \div 4]
  <2>1. Transforms!Zeta("kyber", n) = Transforms!KyberZetas[n + 1]
    BY DEF Transforms!Zeta, Transforms!Zetas
  <2> QED  BY <1>1, <1>4, <2>1
<1>6. PICK c \in Int : c = Inverse("kyber")
  BY <1>3, Moduli
<1>7. CASE j % 4 < 2
  <2>1. PairZeta(j) = z
    BY <1>5, <1>7 DEF PairZeta
  <2>2. Turn("kyber", 128 + j \div 2) = Root("kyber", n)
    BY <1>2, <1>7, Turns2
  <2> QED  BY <1>4, <2>1, <2>2 DEF IsTimes
<1>8. CASE ~(j % 4 < 2)
  <2>1. PairZeta(j) = -z
    BY <1>5, <1>8 DEF PairZeta
  <2>2. Turn("kyber", 128 + j \div 2) = -Root("kyber", n)
    BY <1>2, <1>8, Turns2
  <2>3. AtMost(3840, -z)
    BY <1>4 DEF AtMost
  <2>4. -Root("kyber", n) = (-z) * c
    <3>1. -(z * c) = (-z) * c
      OBVIOUS
    <3> QED  BY <1>4, <1>6, <3>1
  <2> QED  BY <1>6, <2>1, <2>2, <2>3, <2>4 DEF IsTimes
<1> QED  BY <1>7, <1>8

LEMMA BaseMulAt ==
    ASSUME NEW j \in Index, NEW u, NEW V
    PROVE  /\ j % 2 = 0 =>
                Transforms!BaseMul(u, V)[j] =
                    Transforms!Int16(Transforms!FqMul("kyber", Transforms!FqMul("kyber", u[j + 1], V[j + 1]), PairZeta(j))
                                       + Transforms!FqMul("kyber", u[j], V[j]))
           /\ j % 2 # 0 =>
                Transforms!BaseMul(u, V)[j] =
                    Transforms!Int16(Transforms!FqMul("kyber", u[j - 1], V[j]) + Transforms!FqMul("kyber", u[j], V[j - 1]))
BY DEF Transforms!BaseMul, Index, PairZeta

(* The products in the transformed domain. *)
LEMMA PointwiseAre ==
    ASSUME NEW sc \in Arithmetics, Transforms!TableFits(sc), NEW u \in Polys, NEW V \in Polys,
           \A j \in Index : Fits(sc, Reduced16(sc), u[j]) /\ Fits(sc, Reduced16(sc), V[j]),
           NEW x, x = Transforms!Pointwise(sc, u, V), NEW m, m = Product(sc, u, V)
    PROVE  /\ IsPoly(x)
           /\ \A j \in Index : ScaledBy(Transforms!Modulus(sc), x[j], Start(sc), m[j]) /\ Fits(sc, Held(sc, 0), x[j])
<1>1. PICK q \in Nat \ {0}, c \in Int : q = Transforms!Modulus(sc) /\ c = Inverse(sc)
  BY Moduli
<1>2. CASE sc = "kyber"
  <2>0. \A j \in Index : AtMost(1700, u[j]) /\ AtMost(1700, V[j])
    BY <1>2 DEF Fits, Reduced16, Kems
  <2>1. PICK r : r = Transforms!BaseMul(u, V)
    OBVIOUS
  <2>2. x = [j \in Index |-> Transforms!Barrett("kyber", r[j])]
    BY <1>2, <2>1 DEF Transforms!Pointwise, Index
  <2>3. Start(sc) = c
    BY <1>1, <1>2 DEF Start
  <2>4. ASSUME NEW j \in Index PROVE x[j] \in Int /\ ScaledBy(q, x[j], c, m[j]) /\ AtMost(1700, x[j])
    <3>1. CASE j % 2 = 0
      <4>1. PICK y \in Index : y = j + 1
        BY <3>1, Pairs
      <4>2. PICK z, T : z = PairZeta(j) /\ T = Turn("kyber", 128 + j \div 2)
        OBVIOUS
      <4>3. AtMost(3840, z) /\ IsTimes(T, z, c)
        BY <1>1, <1>2, <3>1, <4>2, PairZetaIs
      <4>4. PICK b, a, b2, a2 : a = u[j] /\ b = V[j] /\ a2 = u[y] /\ b2 = V[y]
        OBVIOUS
      <4>5. x[j] = Transforms!Barrett("kyber", Transforms!Int16(
                       Transforms!FqMul("kyber", Transforms!FqMul("kyber", a2, b2), z) + Transforms!FqMul("kyber", a, b)))
        BY <2>1, <2>2, <3>1, <4>1, <4>2, <4>4, BaseMulAt
      <4>6. IsSum(m[j], a, b, T, a2, b2)
        BY <1>2, <3>1, <4>1, <4>2, <4>4 DEF Product, IsSum
      <4>7. AtMost(1700, a) /\ AtMost(1700, b) /\ AtMost(1700, a2) /\ AtMost(1700, b2)
        BY <2>0, <4>4
      <4> QED  BY <1>1, <1>2, <4>3, <4>5, <4>6, <4>7, KyberEven
    <3>2. CASE j % 2 # 0
      <4>1. PICK y \in Index : y = j - 1
        BY <3>2, Pairs
      <4>2. PICK a, b, a2, b2 : a = u[y] /\ b = V[j] /\ a2 = u[j] /\ b2 = V[y]
        OBVIOUS
      <4>3. x[j] = Transforms!Barrett("kyber", Transforms!Int16(
                       Transforms!FqMul("kyber", a, b) + Transforms!FqMul("kyber", a2, b2)))
        BY <2>1, <2>2, <3>2, <4>1, <4>2, BaseMulAt
      <4>4. AtMost(1700, a) /\ AtMost(1700, b) /\ AtMost(1700, a2) /\ AtMost(1700, b2)
        BY <2>0, <4>2
      <4>5. IsSum(m[j], a, b, 1, a2, b2)
        <5>1. m[j] = u[j] * V[y] + u[y] * V[j]
          BY <1>2, <3>2, <4>1 DEF Product
        <5>2. m[j] = a2 * b2 + a * b
          BY <4>2, <5>1
        <5>3. a2 \in Int /\ b2 \in Int /\ a \in Int /\ b \in Int
          BY <4>4 DEF AtMost
        <5>4. a2 * b2 + a * b = a * b + 1 * (a2 * b2)
          BY <5>3
        <5> QED  BY <5>2, <5>4 DEF IsSum
      <4> QED  BY <1>1, <1>2, <4>3, <4>4, <4>5, KyberOdd
    <3> QED  BY <3>1, <3>2
  <2>5. IsPoly(x)
    <3>1. x = [j \in Index |-> x[j]]
      BY <2>2
    <3> QED  BY <2>4, <3>1 DEF IsPoly, Polys
  <2>6. \A j \in Index : Fits(sc, Held(sc, 0), x[j])
    BY <1>2, <2>4 DEF Fits, Held, AtMost
  <2> QED  BY <1>1, <2>3, <2>4, <2>5, <2>6
<1>3. CASE sc = "aigis_enc"
  <2>1. x = [j \in Index |-> Transforms!Barrett(sc, Transforms!FqMul(sc, u[j], Transforms!FqMul(sc, 5569, V[j])))]
    <3>1. Transforms!Pointwise(sc, u, V) =
              [j \in 0 .. 255 |-> Transforms!Barrett(sc, Transforms!FqMul(sc, u[j], Transforms!FqMul(sc, 5569, V[j])))]
      <4>1. sc # "kyber" /\ sc # "ml_dsa"
        BY <1>3
      <4>2. sc = "aigis_enc" => Transforms!Pointwise(sc, u, V) =
              [j \in 0 .. 255 |-> Transforms!Barrett(sc, Transforms!FqMul(sc, u[j], Transforms!FqMul(sc, 5569, V[j])))]
        BY <4>1, Zenon DEF Transforms!Pointwise
      <4> QED  BY <1>3, <4>2
    <3> QED  BY <3>1 DEF Index
  <2>2. m = [j \in Index |-> u[j] * V[j]]
    BY <1>3 DEF Product
  <2>3. \A j \in Index : AtMost(6140, u[j]) /\ AtMost(6140, V[j])
    BY <1>3 DEF Fits, Reduced16, Kems
  <2>4. ASSUME NEW j \in Index PROVE x[j] \in Int /\ ScaledBy(q, x[j], Start(sc), m[j]) /\ AtMost(6140, x[j])
    <3>1. PICK a, b, f, g : a = u[j] /\ b = V[j] /\ f = Transforms!FqMul("aigis_enc", 5569, b) /\ g = Transforms!FqMul("aigis_enc", a, f)
      OBVIOUS
    <3>2. AtMost(6140, a) /\ AtMost(6140, b)
      BY <2>3, <3>1
    <3>3. x[j] = Transforms!Barrett("aigis_enc", g)
      BY <1>3, <2>1, <3>1
    <3>4. x[j] \in Int /\ OverBy(q, x[j], Start("aigis_enc"), a, b) /\ AtMost(6140, x[j])
      BY <1>1, <1>3, <3>1, <3>2, <3>3, AigisPoint
    <3>5. m[j] = a * b
      BY <2>2, <3>1
    <3> QED  BY <1>3, <3>4, <3>5 DEF OverBy, ScaledBy
  <2>5. IsPoly(x)
    <3>1. x = [j \in Index |-> x[j]]
      BY <2>1
    <3> QED  BY <2>4, <3>1 DEF IsPoly, Polys
  <2>6. \A j \in Index : Fits(sc, Held(sc, 0), x[j])
    BY <1>3, <2>4 DEF Fits, Held, AtMost
  <2> QED  BY <1>1, <2>4, <2>5, <2>6
<1>4. CASE sc = "ml_dsa"
  <2>1. x = [j \in Index |-> Transforms!FqMul("ml_dsa", u[j], V[j])]
    BY <1>4 DEF Transforms!Pointwise, Index
  <2>2. m = [j \in Index |-> u[j] * V[j]]
    BY <1>4 DEF Product
  <2>3. Start(sc) = c
    BY <1>1, <1>4 DEF Start
  <2>4. ASSUME NEW j \in Index PROVE x[j] \in Int /\ ScaledBy(q, x[j], Start(sc), m[j])
    <3>1. PICK a \in Int, b \in Int : a = u[j] /\ b = V[j]
      BY DEF Polys
    <3>2. x[j] = Transforms!FqMul(sc, a, b)
      BY <1>4, <2>1, <3>1
    <3>3. x[j] \in Int /\ OverBy(q, x[j], c, a, b)
      BY <1>1, <3>2, ByInverse
    <3>4. m[j] = a * b
      BY <2>2, <3>1
    <3> QED  BY <2>3, <3>3, <3>4 DEF OverBy, ScaledBy
  <2>5. IsPoly(x)
    <3>1. x = [j \in Index |-> x[j]]
      BY <2>1
    <3> QED  BY <2>4, <3>1 DEF IsPoly, Polys
  <2>6. \A j \in Index : Fits(sc, Held(sc, 0), x[j])
    BY <1>4, <2>4 DEF Fits, Kems
  <2> QED  BY <1>1, <2>4, <2>5, <2>6
<1> QED  BY <1>2, <1>3, <1>4 DEF Arithmetics

(* The product of two polynomials after their transforms is what the way   *)
(* back begins with.                                                       *)
LEMMA BackwardStart ==
    ASSUME NEW sc \in Arithmetics, Transforms!TableFits(sc), NEW e \in Nat, e < 256, NEW p \in Polys,
           NEW u \in Polys, NEW V \in Polys,
           Equal(sc, u, After(sc, Levels(sc), Transforms!Power(e))), Equal(sc, V, After(sc, Levels(sc), p)),
           \A j \in Index : Fits(sc, Reduced16(sc), u[j]) /\ Fits(sc, Reduced16(sc), V[j]),
           NEW x, x = Transforms!Pointwise(sc, u, V)
    PROVE  Transforms!ShiftedBy(e, p) \in Polys /\ Backward(sc, 0, Transforms!ShiftedBy(e, p), x)
<1>1. PICK q \in Nat \ {0} : q = Transforms!Modulus(sc)
  BY Moduli
<1>2. AllRooted(sc)
  BY Roots
<1>3. PICK l \in Nat : l = Levels(sc) /\ l <= Levels(sc) /\ Levels(sc) - 0 = l
  BY DEF Levels
<1>4. PICK y \in Polys, sh \in Polys : y = Transforms!Power(e) /\ sh = Transforms!ShiftedBy(e, p)
  BY <1>2, PowerIn, TransformMultiplies
<1>5. PICK fy \in Polys, fp \in Polys, fs \in Polys :
          fy = After(sc, l, y) /\ fp = After(sc, l, p) /\ fs = After(sc, l, sh)
  BY <1>2, <1>3, AfterIn
<1>6. PICK m \in Polys, mf \in Polys : m = Product(sc, u, V) /\ mf = Product(sc, fy, fp)
  BY <1>2, ProductIn
<1>7. Equal(sc, m, mf)
  <2>1. Equal(sc, u, fy) /\ Equal(sc, V, fp)
    BY <1>3, <1>4, <1>5
  <2> QED  BY <1>2, <1>6, <2>1, ProductSame
<1>8. Equal(sc, mf, fs)
  BY <1>2, <1>3, <1>4, <1>5, <1>6, TransformMultiplies
<1>9. Equal(sc, m, fs)
  BY <1>7, <1>8, EqualThrough
<1>10. /\ IsPoly(x)
       /\ \A j \in Index : ScaledBy(q, x[j], Start(sc), m[j]) /\ Fits(sc, Held(sc, 0), x[j])
  BY <1>1, <1>6, PointwiseAre
<1>11. PICK st \in Int : st = Start(sc) /\ Scale(sc, 0) = st
  <2>1. PICK st \in Int : st = Start(sc)
    BY StartIn
  <2>2. Scale(sc, 0) = (1 * st) * 1
    BY <2>1, SMT DEF Scale, Two
  <2> QED  BY <2>1, <2>2
<1>12. ASSUME NEW j \in Index PROVE ScaledBy(q, x[j], st, fs[j])
  <2>1. PICK xj \in Int, a \in Int, b \in Int : xj = x[j] /\ a = m[j] /\ b = fs[j]
    BY <1>10 DEF IsPoly, Polys
  <2>2. Same(q, a, b)
    BY <1>1, <1>9, <2>1 DEF Equal
  <2>3. PICK sa \in Int, sb \in Int : sa = st * a /\ sb = st * b
    OBVIOUS
  <2>4. Same(q, xj, sa)
    BY <1>10, <1>11, <2>1, <2>3 DEF ScaledBy
  <2>5. Same(q, sa, sb)
    BY <2>2, <2>3, SameTimes
  <2>6. Same(q, xj, sb)
    BY <2>4, <2>5, SameThrough
  <2> QED  BY <2>1, <2>3, <2>6 DEF ScaledBy
<1> QED  BY <1>1, <1>3, <1>4, <1>5, <1>10, <1>11, <1>12 DEF Backward, IsPoly

(* The last multiplication, and the factor that is left by then. *)
Final(sc) == CASE sc = "kyber" -> 1441 * Inverse(sc) [] sc = "ml_dsa" -> 41978 * Inverse(sc) [] OTHER -> 1

LEMMA FactorsUndo ==
    ASSUME NEW sc \in Arithmetics
    PROVE  Final(sc) \in Int /\ Scale(sc, Levels(sc)) \in Int
           /\ Same(Transforms!Modulus(sc), Final(sc) * Scale(sc, Levels(sc)), 1)
<1>1. CASE sc = "kyber"
  <2>1. Final(sc) = 243529 /\ Scale(sc, Levels(sc)) = 21632 /\ Transforms!Modulus(sc) = 3329
    BY <1>1, SMT DEF Final, Scale, Levels, Start, Inverse, Two, Transforms!Modulus
  <2>2. 243529 * 21632 - 1 = 1582463 * 3329
    BY SMT
  <2> QED  BY <2>1, <2>2, SMT DEF Same
<1>2. CASE sc = "aigis_enc"
  <2>1. Final(sc) = 1 /\ Transforms!Modulus(sc) = 7681
    BY <1>2, SMT DEF Final, Transforms!Modulus
  <2>2. Scale(sc, Levels(sc)) = (256 * ((5569 * 900) * 900)) * (256 * 900)
    BY <1>2, SMT DEF Scale, Levels, Start, Inverse, Two
  <2>3. PICK d \in Int : 1 * ((256 * ((5569 * 900) * 900)) * (256 * 900)) - 1 = d * 7681
    BY SMT
  <2> QED  BY <2>1, <2>2, <2>3, SMT DEF Same
<1>3. CASE sc = "ml_dsa"
  <2>1. Final(sc) = 41978 * 8265825 /\ Transforms!Modulus(sc) = 8380417
    BY <1>3, SMT DEF Final, Inverse, Transforms!Modulus
  <2>2. Scale(sc, Levels(sc)) = 256 * 8265825
    BY <1>3, SMT DEF Scale, Levels, Start, Inverse, Two
  <2>3. PICK d \in Int : d = 87612988021247
    BY SMT
  <2>4. (41978 * 8265825) * (256 * 8265825) - 1 = d * 8380417
    BY <2>3, SMT
  <2> QED  BY <2>1, <2>2, <2>4, SMT DEF Same
<1> QED  BY <1>1, <1>2, <1>3 DEF Arithmetics

LEMMA LastFactor ==
    ASSUME NEW q \in Nat \ {0}, NEW y \in Int, NEW x \in Int, NEW p \in Int, NEW S \in Int, NEW f \in Int,
           ScaledBy(q, x, S, p), ScaledBy(q, y, f, x), Same(q, f * S, 1)
    PROVE  Same(q, y, p)
<1>1. PICK sp \in Int, fx \in Int, fsp \in Int, g \in Int : sp = S * p /\ fx = f * x /\ fsp = f * sp /\ g = f * S
  OBVIOUS
<1>2. Same(q, x, sp) /\ Same(q, y, fx) /\ Same(q, g, 1)
  BY <1>1 DEF ScaledBy
<1>3. Same(q, fx, fsp)
  <2>1. IsTimes(fx, x, f) /\ IsTimes(fsp, sp, f)
    BY <1>1 DEF IsTimes
  <2> QED  BY <1>2, <2>1, TimesSame
<1>4. Same(q, y, fsp)
  BY <1>2, <1>3, SameThrough
<1>5. PICK gp \in Int : gp = g * p /\ gp = fsp
  <2>1. (f * S) * p = f * (S * p)
    OBVIOUS
  <2> QED  BY <1>1, <2>1
<1>6. Same(q, gp, p)
  <2>1. IsTimes(gp, g, p) /\ IsTimes(p, 1, p)
    BY <1>5 DEF IsTimes
  <2> QED  BY <1>2, <2>1, TimesSame
<1> QED  BY <1>4, <1>5, <1>6, SameThrough

LEMMA FinishAt ==
    ASSUME NEW sc \in Arithmetics, Transforms!TableFits(sc), NEW u \in Polys, NEW j \in Index,
           NEW x, x = Transforms!Finish(sc, u)
    PROVE  x[j] \in Int /\ ScaledBy(Transforms!Modulus(sc), x[j], Final(sc), u[j])
<1>1. PICK q \in Nat \ {0}, c \in Int, y \in Int : q = Transforms!Modulus(sc) /\ c = Inverse(sc) /\ y = u[j]
  BY Moduli DEF Polys
<1>2. CASE sc = "kyber"
  <2>1. Transforms!KyberZetasInv[128] = 1441
    BY <1>2 DEF Transforms!TableFits
  <2>2. x[j] = Transforms!FqMul(sc, y, 1441)
    BY <1>1, <1>2, <2>1 DEF Transforms!Finish, Index
  <2>3. x[j] \in Int /\ OverBy(q, x[j], c, y, 1441)
    BY <1>1, <2>2, ByInverse
  <2>4. c * (y * 1441) = (1441 * c) * y
    OBVIOUS
  <2>5. Final(sc) = 1441 * c
    BY <1>1, <1>2 DEF Final
  <2> QED  BY <1>1, <2>3, <2>4, <2>5 DEF OverBy, ScaledBy
<1>3. CASE sc = "ml_dsa"
  <2>2. x[j] = Transforms!FqMul(sc, y, 41978)
    BY <1>1, <1>3 DEF Transforms!Finish, Index
  <2>3. x[j] \in Int /\ OverBy(q, x[j], c, y, 41978)
    BY <1>1, <2>2, ByInverse
  <2>4. c * (y * 41978) = (41978 * c) * y
    OBVIOUS
  <2>5. Final(sc) = 41978 * c
    BY <1>1, <1>3 DEF Final
  <2> QED  BY <1>1, <2>3, <2>4, <2>5 DEF OverBy, ScaledBy
<1>4. CASE sc = "aigis_enc"
  <2>1. x = u
    BY <1>4 DEF Transforms!Finish
  <2>2. Final(sc) = 1
    BY <1>4 DEF Final
  <2>3. 1 * y = y /\ Same(q, y, y)
    BY SameSelf
  <2> QED  BY <1>1, <2>1, <2>2, <2>3 DEF ScaledBy
<1> QED  BY <1>2, <1>3, <1>4 DEF Arithmetics

LEMMA FinishIs ==
    ASSUME NEW sc \in Arithmetics, Transforms!TableFits(sc), NEW p \in Polys, NEW u,
           Backward(sc, Levels(sc), p, u), NEW x, x = Transforms!Finish(sc, u)
    PROVE  \A j \in Index : (x[j] - p[j]) % Transforms!Modulus(sc) = 0
<1>1. PICK q \in Nat \ {0} : q = Transforms!Modulus(sc)
  BY Moduli
<1>2. PICK S \in Int, f \in Int : S = Scale(sc, Levels(sc)) /\ f = Final(sc) /\ Same(q, f * S, 1)
  BY <1>1, FactorsUndo
<1>3. Levels(sc) - Levels(sc) = 0 /\ After(sc, 0, p) = p
  BY DEF Levels, After
<1>4. PICK V \in Polys : V = u
  BY DEF Backward
<1>5. ASSUME NEW j \in Index PROVE (x[j] - p[j]) % q = 0
  <2>1. PICK vj \in Int, pj \in Int : vj = V[j] /\ pj = p[j]
    BY DEF Polys
  <2>2. ScaledBy(q, vj, S, pj)
    BY <1>1, <1>2, <1>3, <1>4, <2>1 DEF Backward
  <2>3. PICK xj \in Int : xj = x[j] /\ ScaledBy(q, xj, f, vj)
    BY <1>1, <1>2, <1>4, <2>1, FinishAt
  <2>4. Same(q, xj, pj)
    BY <1>2, <2>2, <2>3, LastFactor
  <2>5. (xj - pj) % q = 0
    BY <2>4, SameZero
  <2> QED  BY <2>1, <2>3, <2>5
<1> QED  BY <1>1, <1>5

-----------------------------------------------------------------------------
(* A transform that has ended. *)
Ready(sc, p, u) ==
    /\ u \in Polys /\ Equal(sc, u, After(sc, Levels(sc), p))
    /\ \A j \in Index : Fits(sc, Reduced16(sc), u[j])

LEMMA ForwardStart ==
    ASSUME NEW sc \in Arithmetics, NEW u \in Polys,
           \A j \in Index : -1 <= u[j] /\ u[j] < Transforms!Modulus(sc)
    PROVE  Forward(sc, 0, u, u)
<1>1. After(sc, 0, u) = u /\ Equal(sc, u, u)
  BY EqualSelf DEF After
<1>2. ASSUME NEW j \in Index PROVE Fits(sc, Grown(sc, 0), u[j])
  <2>1. PICK x \in Int : x = u[j] /\ -1 <= x /\ x < Transforms!Modulus(sc)
    BY DEF Polys
  <2>2. CASE sc = "kyber"
    <3>1. Transforms!Modulus(sc) = 3329 /\ Grown(sc, 0) = 3328
      BY <2>2, SMT DEF Transforms!Modulus, Grown
    <3> QED  BY <2>1, <3>1 DEF Fits, AtMost
  <2>3. CASE sc = "aigis_enc"
    <3>1. Transforms!Modulus(sc) = 7681 /\ Grown(sc, 0) = 11900
      BY <2>3, SMT DEF Transforms!Modulus, Grown
    <3> QED  BY <2>1, <3>1 DEF Fits, AtMost
  <2>4. CASE sc = "ml_dsa"
    BY <2>1, <2>4 DEF Fits, Kems
  <2> QED  BY <2>2, <2>3, <2>4 DEF Arithmetics
<1> QED  BY <1>1, <1>2 DEF Forward

LEMMA PowerStarts ==
    ASSUME NEW sc \in Arithmetics, NEW e \in 0 .. 255 PROVE Forward(sc, 0, Transforms!Power(e), Transforms!Power(e))
<1>1. PICK u \in Polys : u = Transforms!Power(e)
  BY PowerIn
<1>2. \A j \in Index : u[j] = 0 \/ u[j] = 1
  BY <1>1 DEF Transforms!Power, Index
<1>3. PICK q \in Nat : q = Transforms!Modulus(sc) /\ q > 1
  BY SMT DEF Transforms!Modulus, Arithmetics
<1>4. \A j \in Index : -1 <= u[j] /\ u[j] < Transforms!Modulus(sc)
  BY <1>2, <1>3
<1> QED  BY <1>1, <1>4, ForwardStart

LEMMA FactorStarts ==
    ASSUME NEW sc \in Schemes
    PROVE  sc \in Arithmetics /\ Factors[sc] \in Polys /\ Forward(sc, 0, Factors[sc], Factors[sc])
<1>1. sc \in Arithmetics
  BY TransformAssumption DEF Arithmetics
<1>2. PICK u : u = Factors[sc]
  OBVIOUS
<1>3. PICK q \in Nat \ {0} : q = Transforms!Modulus(sc)
  BY <1>1, Moduli
<1>4. u \in [Index -> 0 .. q - 1]
  BY <1>2, <1>3, TransformAssumption DEF Index
<1>5. u \in Polys
  BY <1>4 DEF Polys
<1>6. \A j \in Index : -1 <= u[j] /\ u[j] < Transforms!Modulus(sc)
  <2>1. ASSUME NEW j \in Index PROVE -1 <= u[j] /\ u[j] < q
    <3>1. u[j] \in 0 .. q - 1
      BY <1>4
    <3> QED  BY <3>1
  <2> QED  BY <1>3, <2>1
<1> QED  BY <1>1, <1>2, <1>5, <1>6, ForwardStart

(* The last loop, and the reduction after it. *)
LEMMA ForwardEnds ==
    ASSUME NEW sc \in Arithmetics, NEW p, NEW x, Forward(sc, Levels(sc), p, x),
           After(sc, Levels(sc), p) \in Polys,
           NEW y, y = IF sc = "kyber" THEN [j \in 0 .. 255 |-> Transforms!Barrett("kyber", x[j])] ELSE x
    PROVE  Ready(sc, p, y)
<1>1. CASE sc = "kyber"
  <2>1. y = [j \in Index |-> Transforms!Barrett("kyber", x[j])] /\ sc \in Kems
    BY <1>1 DEF Index, Kems
  <2>2. Grown(sc, Levels(sc)) = 28416
    BY <1>1, SMT DEF Grown, Levels
  <2>3. x \in Polys /\ Equal(sc, x, After(sc, Levels(sc), p))
    BY DEF Forward
  <2>4. ASSUME NEW j \in Index PROVE /\ y[j] \in Int /\ Same(Transforms!Modulus(sc), y[j], x[j]) /\ AtMost(Reduced16(sc), y[j])
    <3>1. AtMost(32767, x[j])
      BY <2>1, <2>2 DEF Forward, Fits, AtMost
    <3>2. PICK z : z = x[j] /\ AtMost(32767, z)
      BY <3>1
    <3>3. /\ AtMost(Reduced16(sc), Transforms!Barrett(sc, z))
          /\ Same(Transforms!Modulus(sc), Transforms!Barrett(sc, z), z)
      BY <2>1, <3>2, BarrettIs
    <3>4. y[j] = Transforms!Barrett(sc, z)
      BY <1>1, <2>1, <3>2
    <3> QED  BY <3>2, <3>3, <3>4 DEF AtMost
  <2>5. y \in Polys
    BY <2>1, <2>4 DEF Polys
  <2>6. Equal(sc, y, x)
    BY <2>4 DEF Equal
  <2>7. Equal(sc, y, After(sc, Levels(sc), p))
    BY <2>3, <2>5, <2>6, EqualThrough
  <2> QED  BY <2>4, <2>5, <2>7 DEF Ready, Fits
<1>2. CASE sc = "aigis_enc"
  <2>1. Grown(sc, Levels(sc)) = Reduced16(sc)
    BY <1>2, SMT DEF Grown, Levels, Reduced16
  <2> QED  BY <1>2, <2>1 DEF Forward, Ready
<1>3. CASE sc = "ml_dsa"
  BY <1>3 DEF Forward, Ready, Fits, Kems
<1> QED  BY <1>1, <1>2, <1>3 DEF Arithmetics

-----------------------------------------------------------------------------
(* The index into the tables, before loop l of each way. *)
Blocks2(l) == 128 \div Width(l)
InvIndex(sc, l) == Nodes(sc) - 2 * Blocks2(Levels(sc) - 1 - l)

LEMMA Indexes ==
    ASSUME NEW sc \in Arithmetics
    PROVE  /\ Blocks2(0) = 1 /\ InvIndex(sc, 0) = 0
           /\ \A l \in Nat : l + 1 < Levels(sc) => Blocks2(l) + 128 \div Transforms!Lens(sc)[l + 1] = Blocks2(l + 1)
           /\ \A l \in Nat : l + 1 < Levels(sc) =>
                 InvIndex(sc, l) + 128 \div Transforms!InvLen(sc, l + 1) = InvIndex(sc, l + 1)
<1>1. Blocks2(0) = 1
  BY SMT DEF Blocks2, Width
<1>2. InvIndex(sc, 0) = 0
  BY SMT DEF InvIndex, Nodes, Levels, Blocks2, Width
<1>3. ASSUME NEW l \in 0 .. 6 PROVE Blocks2(l) \in Nat /\ Blocks2(l + 1) = 2 * Blocks2(l)
  BY SMT DEF Blocks2, Width
<1>4. ASSUME NEW l \in Nat, l + 1 < Levels(sc)
      PROVE  Blocks2(l) + 128 \div Transforms!Lens(sc)[l + 1] = Blocks2(l + 1)
  <2>1. l \in 0 .. 6 /\ l < Levels(sc)
    BY <1>4 DEF Levels
  <2>2. 128 \div Transforms!Lens(sc)[l + 1] = Blocks2(l)
    BY <2>1, LoopsAre DEF Blocks2
  <2> QED  BY <1>3, <2>1, <2>2
<1>5. ASSUME NEW l \in Nat, l + 1 < Levels(sc)
      PROVE  InvIndex(sc, l) + 128 \div Transforms!InvLen(sc, l + 1) = InvIndex(sc, l + 1)
  <2>1. PICK m \in 0 .. 6 : m = Levels(sc) - 1 - (l + 1) /\ Levels(sc) - 1 - l = m + 1
    BY <1>5 DEF Levels
  <2>2. 128 \div Transforms!InvLen(sc, l + 1) = Blocks2(m + 1)
    <3>1. l < Levels(sc)
      BY <1>5 DEF Levels
    <3> QED  BY <2>1, <3>1, LoopsAre DEF Blocks2
  <2>3. InvIndex(sc, l) = Nodes(sc) - 2 * Blocks2(m + 1) /\ InvIndex(sc, l + 1) = Nodes(sc) - 2 * Blocks2(m)
    BY <2>1 DEF InvIndex
  <2>4. Nodes(sc) \in Nat
    BY DEF Nodes
  <2> QED  BY <1>3, <2>2, <2>3, <2>4
<1> QED  BY <1>1, <1>2, <1>4, <1>5

-----------------------------------------------------------------------------
(* How far a behaviour is. *)
NttStage(sc, e, p) ==
    \/ /\ stage = "ntt a" /\ loop \in Nat /\ loop < Levels(sc) /\ index = Blocks2(loop)
       /\ Forward(sc, loop, Transforms!Power(e), poly) /\ other = p
    \/ /\ stage = "ntt b" /\ loop \in Nat /\ loop < Levels(sc) /\ index = Blocks2(loop)
       /\ Ready(sc, Transforms!Power(e), poly) /\ Forward(sc, loop, p, other)
    \/ /\ stage = "multiply"
       /\ Ready(sc, Transforms!Power(e), poly) /\ Ready(sc, p, other)
    \/ /\ stage = "invntt" /\ loop \in Nat /\ loop <= Levels(sc)
       /\ loop < Levels(sc) => index = InvIndex(sc, loop)
       /\ Transforms!ShiftedBy(e, p) \in Polys /\ Backward(sc, loop, Transforms!ShiftedBy(e, p), poly)
    \/ /\ stage = "done"
       /\ \A j \in Index : (poly[j] - Transforms!ShiftedBy(e, p)[j]) % Transforms!Modulus(sc) = 0

NttInv ==
    stage # "none" =>
        /\ job \in [of : Schemes, exponent : Exponents]
        /\ NttStage(job.of, job.exponent, Factors[job.of])

LEMMA NttInit == Transforms!Init => NttInv
<1> SUFFICES ASSUME Transforms!Init PROVE NttInv
  OBVIOUS
<1>1. /\ job \in [of : Schemes, exponent : Exponents]
      /\ stage = "ntt a" /\ loop = 0 /\ index = 1
      /\ poly = Transforms!Power(job.exponent) /\ other = Factors[job.of]
  BY DEF Transforms!Init, Transforms!FirstZeta
<1>2. PICK sc \in Schemes, e \in 0 .. 255 : sc = job.of /\ e = job.exponent
  BY <1>1, TransformAssumption
<1>3. sc \in Arithmetics
  BY FactorStarts
<1>4. Forward(sc, 0, Transforms!Power(e), Transforms!Power(e))
  BY <1>3, PowerStarts
<1>5. 0 < Levels(sc) /\ Blocks2(0) = 1
  BY <1>3, Indexes DEF Levels
<1>6. NttStage(sc, e, Factors[sc])
  BY <1>1, <1>2, <1>4, <1>5 DEF NttStage
<1> QED  BY <1>1, <1>2, <1>6 DEF NttInv

(* The constants of a behaviour, as the lemmas have them. *)
Job(sc, e, p) ==
    /\ job \in [of : Schemes, exponent : Exponents] /\ sc = job.of /\ e = job.exponent /\ p = Factors[sc]
    /\ sc \in Arithmetics /\ sc \in Schemes /\ e \in Nat /\ e < 256 /\ e \in 0 .. 255
    /\ p \in Polys /\ Transforms!Power(e) \in Polys /\ Transforms!TableFits(sc)

LEMMA Jobs ==
    ASSUME job \in [of : Schemes, exponent : Exponents]
    PROVE  Job(job.of, job.exponent, Factors[job.of])
<1>1. PICK sc \in Schemes, e \in 0 .. 255 : sc = job.of /\ e = job.exponent
  BY TransformAssumption
<1>2. sc \in Arithmetics /\ Factors[sc] \in Polys
  BY FactorStarts
<1>3. Transforms!TableFits(sc)
  BY TransformAssumption DEF Transforms!TablesFit
<1>4. e \in Nat /\ e < 256
  OBVIOUS
<1> QED  BY <1>1, <1>2, <1>3, <1>4, PowerIn DEF Job

(* One loop of a transform. *)
LEMMA LoopForward ==
    ASSUME NEW sc, NEW e, NEW p, Job(sc, e, p), loop \in Nat, loop < Levels(sc), index = Blocks2(loop),
           NEW f \in Polys, NEW u, Forward(sc, loop, f, u), NEW y, y = Transforms!AfterLoops(Transforms!Transform(u))
    PROVE  /\ loop + 1 < Levels(sc) => Forward(sc, loop + 1, f, y)
           /\ ~(loop + 1 < Levels(sc)) => Ready(sc, f, y)
<1>1. /\ sc = job.of /\ sc \in Arithmetics /\ Transforms!TableFits(sc)
  BY DEF Job
<1>2. PICK len : len = Transforms!Lens(sc)[loop + 1] /\ index = 128 \div len
  BY <1>1, LoopsAre DEF Blocks2
<1>3. PICK x : x = Transforms!Butterflies(sc, u, len, 128 \div len, Transforms!ReducesSum(sc, loop + 1))
  OBVIOUS
<1>4. Transforms!Transform(u) = x
  BY <1>1, <1>2, <1>3 DEF Transforms!Transform
<1>5. Forward(sc, loop + 1, f, x)
  BY <1>1, <1>2, <1>3, ForwardStep
<1>6. Transforms!Loops(sc) = Levels(sc) /\ Levels(sc) \in Nat
  BY <1>1, LoopsAre DEF Levels
<1>7. y = IF sc = "kyber" /\ loop + 1 = Transforms!Loops("kyber") THEN [j \in 0 .. 255 |-> Transforms!Barrett("kyber", x[j])] ELSE x
  BY <1>1, <1>4 DEF Transforms!AfterLoops
<1>8. CASE loop + 1 < Levels(sc)
  <2>1. loop + 1 # Levels(sc)
    BY <1>6, <1>8
  <2> QED  BY <1>5, <1>6, <1>7, <1>8, <2>1
<1>9. CASE ~(loop + 1 < Levels(sc))
  <2>1. loop + 1 = Levels(sc)
    BY <1>6, <1>9
  <2>2. Forward(sc, Levels(sc), f, x)
    BY <1>5, <2>1
  <2>3. After(sc, Levels(sc), f) \in Polys
    <3>1. AllRooted(sc) /\ Levels(sc) <= Levels(sc)
      BY <1>1, <1>6, Roots
    <3> QED  BY <1>6, <3>1, AfterIn
  <2>4. y = IF sc = "kyber" THEN [j \in 0 .. 255 |-> Transforms!Barrett("kyber", x[j])] ELSE x
    BY <1>6, <1>7, <2>1
  <2>5. Ready(sc, f, y)
    BY <1>1, <2>2, <2>3, <2>4, ForwardEnds
  <2> QED  BY <1>9, <2>5
<1> QED  BY <1>8, <1>9

LEMMA NttLoopStep == ASSUME NttInv, Transforms!NttLoop PROVE NttInv'
<1>1. stage # "none" /\ job \in [of : Schemes, exponent : Exponents] /\ job' = job
  BY DEF Transforms!NttLoop, NttInv
<1>2. PICK sc, e, p : Job(sc, e, p) /\ sc = job.of /\ e = job.exponent /\ p = Factors[job.of]
  BY <1>1, Jobs
<1>3. NttStage(sc, e, p)
  BY <1>1, <1>2 DEF NttInv
<1>4. sc \in Arithmetics /\ p \in Polys /\ Transforms!Power(e) \in Polys /\ p = Factors[sc] /\ sc \in Schemes
  BY <1>2 DEF Job
<1>5. Transforms!Loops(sc) = Levels(sc) /\ Levels(sc) \in Nat /\ 0 < Levels(sc) /\ Blocks2(0) = 1
  BY <1>4, LoopsAre, Indexes DEF Levels
<1>6. loop \in Nat /\ loop < Levels(sc) /\ index = Blocks2(loop)
  BY <1>3 DEF Transforms!NttLoop, NttStage
<1>7. IF loop + 1 < Levels(sc)
      THEN loop' = loop + 1 /\ index' = Blocks2(loop + 1) /\ stage' = stage
      ELSE loop' = 0 /\ index' = 1 /\ stage' = IF stage = "ntt a" THEN "ntt b" ELSE "multiply"
  <2>1. IF loop + 1 < Levels(sc)
        THEN loop' = loop + 1 /\ index' = index + 128 \div Transforms!Lens(sc)[loop + 1] /\ stage' = stage
        ELSE loop' = 0 /\ index' = 1 /\ stage' = IF stage = "ntt a" THEN "ntt b" ELSE "multiply"
    BY <1>2, <1>5 DEF Transforms!NttLoop, Transforms!FirstZeta
  <2>2. CASE loop + 1 < Levels(sc)
    <3>1. Blocks2(loop) + 128 \div Transforms!Lens(sc)[loop + 1] = Blocks2(loop + 1)
      BY <1>4, <1>6, <2>2, Indexes
    <3> QED  BY <1>6, <2>1, <2>2, <3>1
  <2>3. CASE ~(loop + 1 < Levels(sc))
    BY <2>1, <2>3
  <2> QED  BY <2>2, <2>3
<1>8. loop + 1 \in Nat
  BY <1>6
<1>9. CASE stage = "ntt a"
  <2>1. Forward(sc, loop, Transforms!Power(e), poly) /\ other = p
    BY <1>3, <1>9 DEF NttStage
  <2>2. poly' = Transforms!AfterLoops(Transforms!Transform(poly)) /\ other' = other
    BY <1>9 DEF Transforms!NttLoop
  <2>3. /\ loop + 1 < Levels(sc) => Forward(sc, loop + 1, Transforms!Power(e), poly')
        /\ ~(loop + 1 < Levels(sc)) => Ready(sc, Transforms!Power(e), poly')
    BY <1>2, <1>4, <1>6, <2>1, <2>2, LoopForward
  <2>4. NttStage(sc, e, p)'
    <3>1. CASE loop + 1 < Levels(sc)
      BY <1>7, <1>8, <1>9, <2>1, <2>2, <2>3, <3>1 DEF NttStage
    <3>2. CASE ~(loop + 1 < Levels(sc))
      <4>1. Forward(sc, 0, p, p)
        BY <1>4, FactorStarts
      <4>2. /\ stage' = "ntt b" /\ loop' = 0 /\ index' = Blocks2(0)
            /\ Ready(sc, Transforms!Power(e), poly') /\ other' = p
        BY <1>5, <1>7, <1>9, <2>1, <2>2, <2>3, <3>2
      <4>3. Forward(sc, loop', p, other') /\ index' = Blocks2(loop') /\ loop' \in Nat /\ loop' < Levels(sc)
        BY <1>5, <4>1, <4>2
      <4> QED  BY <4>2, <4>3 DEF NttStage
    <3> QED  BY <3>1, <3>2
  <2> QED  BY <1>1, <1>2, <2>4 DEF NttInv
<1>10. CASE stage # "ntt a"
  <2>1. stage = "ntt b"
    BY <1>10 DEF Transforms!NttLoop
  <2>2. Ready(sc, Transforms!Power(e), poly) /\ Forward(sc, loop, p, other)
    BY <1>3, <2>1 DEF NttStage
  <2>3. other' = Transforms!AfterLoops(Transforms!Transform(other)) /\ poly' = poly
    BY <2>1 DEF Transforms!NttLoop
  <2>4. /\ loop + 1 < Levels(sc) => Forward(sc, loop + 1, p, other')
        /\ ~(loop + 1 < Levels(sc)) => Ready(sc, p, other')
    BY <1>2, <1>4, <1>6, <2>2, <2>3, LoopForward
  <2>5. NttStage(sc, e, p)'
    <3>1. CASE loop + 1 < Levels(sc)
      BY <1>7, <1>8, <2>1, <2>2, <2>3, <2>4, <3>1 DEF NttStage
    <3>2. CASE ~(loop + 1 < Levels(sc))
      BY <1>7, <2>1, <2>2, <2>3, <2>4, <3>2 DEF NttStage
    <3> QED  BY <3>1, <3>2
  <2> QED  BY <1>1, <1>2, <2>5 DEF NttInv
<1> QED  BY <1>9, <1>10

LEMMA MultiplyStep == ASSUME NttInv, Transforms!Multiply PROVE NttInv'
<1>1. /\ stage = "multiply" /\ stage # "none" /\ job \in [of : Schemes, exponent : Exponents] /\ job' = job
      /\ stage' = "invntt" /\ loop' = 0 /\ index' = 0 /\ poly' = Transforms!Pointwise(job.of, poly, other)
  BY DEF Transforms!Multiply, NttInv, Transforms!FirstRoot
<1>2. PICK sc, e, p : Job(sc, e, p) /\ sc = job.of /\ e = job.exponent /\ p = Factors[job.of]
  BY <1>1, Jobs
<1>3. NttStage(sc, e, p)
  BY <1>1, <1>2 DEF NttInv
<1>4. Ready(sc, Transforms!Power(e), poly) /\ Ready(sc, p, other)
  BY <1>1, <1>3 DEF NttStage
<1>5. PICK u \in Polys, g \in Polys : u = poly /\ g = other
  BY <1>4 DEF Ready
<1>6. /\ Equal(sc, u, After(sc, Levels(sc), Transforms!Power(e))) /\ Equal(sc, g, After(sc, Levels(sc), p))
      /\ \A j \in Index : Fits(sc, Reduced16(sc), u[j]) /\ Fits(sc, Reduced16(sc), g[j])
  BY <1>4, <1>5 DEF Ready
<1>7. sc \in Arithmetics /\ Transforms!TableFits(sc) /\ e \in Nat /\ e < 256 /\ p \in Polys
  BY <1>2 DEF Job
<1>8. PICK x : x = poly' /\ x = Transforms!Pointwise(sc, u, g)
  BY <1>1, <1>2, <1>5
<1>9. Transforms!ShiftedBy(e, p) \in Polys /\ Backward(sc, 0, Transforms!ShiftedBy(e, p), x)
  BY <1>6, <1>7, <1>8, BackwardStart
<1>10. InvIndex(sc, 0) = 0 /\ 0 <= Levels(sc)
  BY <1>7, Indexes DEF Levels
<1>11. NttStage(sc, e, p)'
  BY <1>1, <1>8, <1>9, <1>10 DEF NttStage
<1> QED  BY <1>1, <1>2, <1>11 DEF NttInv

LEMMA InvNttStep == ASSUME NttInv, Transforms!InvNttLoop PROVE NttInv'
<1>1. /\ stage = "invntt" /\ stage # "none" /\ job \in [of : Schemes, exponent : Exponents] /\ job' = job
      /\ stage' = stage /\ loop' = loop + 1
      /\ index' = index + 128 \div Transforms!InvLen(job.of, loop + 1)
      /\ loop < Transforms!Loops(job.of)
      /\ poly' = Transforms!InvButterflies(job.of, poly, Transforms!InvLen(job.of, loop + 1), index,
                                           Transforms!InvReducesSum(job.of, loop + 1))
  BY DEF Transforms!InvNttLoop, NttInv
<1>2. PICK sc, e, p : Job(sc, e, p) /\ sc = job.of /\ e = job.exponent /\ p = Factors[job.of]
  BY <1>1, Jobs
<1>3. NttStage(sc, e, p)
  BY <1>1, <1>2 DEF NttInv
<1>4. sc \in Arithmetics /\ Transforms!TableFits(sc)
  BY <1>2 DEF Job
<1>5. Transforms!Loops(sc) = Levels(sc) /\ Levels(sc) \in Nat
  BY <1>4, LoopsAre DEF Levels
<1>6. /\ loop \in Nat /\ loop < Levels(sc) /\ index = InvIndex(sc, loop)
      /\ Transforms!ShiftedBy(e, p) \in Polys /\ Backward(sc, loop, Transforms!ShiftedBy(e, p), poly)
  BY <1>1, <1>2, <1>3, <1>5 DEF NttStage
<1>7. PICK len, u, l, sh : /\ l = loop /\ len = Transforms!InvLen(sc, l + 1) /\ l \in Nat
                           /\ sh = Transforms!ShiftedBy(e, p) /\ sh \in Polys /\ u = poly
  BY <1>6
<1>8. index = Nodes(sc) - 2 * (128 \div len)
  BY <1>4, <1>6, <1>7, LoopsAre DEF InvIndex, Blocks2
<1>9. PICK x : x = poly' /\ x = Transforms!InvButterflies(sc, u, len, Nodes(sc) - 2 * (128 \div len),
                                                          Transforms!InvReducesSum(sc, l + 1))
  BY <1>1, <1>2, <1>7, <1>8
<1>10. LoopBack(sc, l, len, u, x)
  BY <1>7, <1>9 DEF LoopBack
<1>11. Backward(sc, l + 1, sh, x)
  BY <1>4, <1>6, <1>7, <1>10, BackwardStep
<1>12. loop' \in Nat /\ loop' <= Levels(sc)
  BY <1>1, <1>5, <1>6
<1>13. loop' < Levels(sc) => index' = InvIndex(sc, loop')
  <2>1. SUFFICES ASSUME loop + 1 < Levels(sc) PROVE index' = InvIndex(sc, loop + 1)
    BY <1>1
  <2>2. InvIndex(sc, loop) + 128 \div Transforms!InvLen(sc, loop + 1) = InvIndex(sc, loop + 1)
    BY <1>4, <1>6, <2>1, Indexes
  <2> QED  BY <1>1, <1>2, <1>6, <2>2
<1>14. NttStage(sc, e, p)'
  BY <1>1, <1>6, <1>7, <1>9, <1>11, <1>12, <1>13 DEF NttStage
<1> QED  BY <1>1, <1>2, <1>14 DEF NttInv

LEMMA FinishStep == ASSUME NttInv, Transforms!InvNttFinish PROVE NttInv'
<1>1. /\ stage = "invntt" /\ stage # "none" /\ job \in [of : Schemes, exponent : Exponents] /\ job' = job
      /\ stage' = "done" /\ loop = Transforms!Loops(job.of) /\ poly' = Transforms!Finish(job.of, poly)
  BY DEF Transforms!InvNttFinish, NttInv
<1>2. PICK sc, e, p : Job(sc, e, p) /\ sc = job.of /\ e = job.exponent /\ p = Factors[job.of]
  BY <1>1, Jobs
<1>3. NttStage(sc, e, p)
  BY <1>1, <1>2 DEF NttInv
<1>4. sc \in Arithmetics /\ Transforms!TableFits(sc)
  BY <1>2 DEF Job
<1>5. Transforms!ShiftedBy(e, p) \in Polys /\ Backward(sc, Levels(sc), Transforms!ShiftedBy(e, p), poly)
  <2>1. loop = Levels(sc)
    BY <1>1, <1>2, <1>4, LoopsAre
  <2> QED  BY <1>1, <1>3, <2>1 DEF NttStage
<1>6. PICK sh, u, x : /\ sh \in Polys /\ sh = Transforms!ShiftedBy(e, p)
                   /\ u = poly /\ x = poly' /\ x = Transforms!Finish(sc, u)
  BY <1>1, <1>2, <1>5
<1>7. \A j \in Index : (x[j] - sh[j]) % Transforms!Modulus(sc) = 0
  BY <1>4, <1>5, <1>6, FinishIs
<1>8. NttStage(sc, e, p)'
  BY <1>1, <1>6, <1>7 DEF NttStage
<1> QED  BY <1>1, <1>2, <1>8 DEF NttInv

LEMMA NttStep == NttInv /\ [Transforms!Next]_(Transforms!vars) => NttInv'
<1> SUFFICES ASSUME NttInv, [Transforms!Next]_(Transforms!vars) PROVE NttInv'
  OBVIOUS
<1>1. CASE UNCHANGED Transforms!vars
  BY <1>1 DEF Transforms!vars, NttInv, NttStage
<1> QED  BY <1>1, NttLoopStep, MultiplyStep, InvNttStep, FinishStep DEF Transforms!Next

LEMMA NttClaims == NttInv => Transforms!DomainMultiplies
<1> SUFFICES ASSUME NttInv, stage = "done"
             PROVE  \A j \in 0 .. 255 : (poly[j] - Transforms!ShiftedBy(job.exponent, Factors[job.of])[j])
                                            % Transforms!Modulus(job.of) = 0
  BY DEF Transforms!DomainMultiplies
<1>1. NttStage(job.of, job.exponent, Factors[job.of])
  BY DEF NttInv
<1> QED  BY <1>1 DEF NttStage, Index

-----------------------------------------------------------------------------
(* The machines together: what is not followed stands still. *)
PartsInv == PathInv /\ SigInv /\ BitsInv /\ NttInv

LEMMA PartsInit == MCInit => PartsInv
<1>1. NoW => PathInv
  <2>1. 0 \in 0 .. HighCount - 1 /\ 0 \in -(Q - 1) .. Q - 1 /\ 0 \in Coefficients
    BY SMT, HintBounds, QIs DEF Coefficients
  <2> QED  BY SMT, <2>1 DEF NoW, PathInv, TypeOK, KeySteps, ReducedRange, SplitIsLossless
<1>2. NoSig => SigInv
  BY DEF NoSig, SigInv, Sig!SplitIsLossless, Sig!Sets
<1>3. NoBit => BitsInv
  BY DEF NoBit, BitsInv
<1>4. NoTransform => NttInv
  BY DEF NoTransform, NttInv
<1> QED  BY <1>1, <1>2, <1>3, <1>4, PathInit, SigInit, BitsInit, NttInit DEF MCInit, PartsInv

LEMMA PartsStep ==
    /\ PartsInv
    /\ [MCNext]_<<subject, vars, sizeVars, nttVars, bitVars, sigVars>>
    => PartsInv'
<1> SUFFICES ASSUME PartsInv,
                    [MCNext]_<<subject, vars, sizeVars, nttVars, bitVars, sigVars>>
             PROVE  PartsInv'
  OBVIOUS
<1>1. Next \/ UNCHANGED vars
  BY DEF MCNext
<1>2. Sig!Next \/ UNCHANGED sigVars
  BY DEF MCNext
<1>3. Bits!Next \/ UNCHANGED bitVars
  BY DEF MCNext
<1>4. Transforms!Next \/ UNCHANGED nttVars
  BY DEF MCNext
<1>5. /\ UNCHANGED sigVars => UNCHANGED Sig!vars
      /\ UNCHANGED bitVars => UNCHANGED Bits!vars
      /\ UNCHANGED nttVars => UNCHANGED Transforms!vars
  BY DEF sigVars, Sig!vars, bitVars, Bits!vars, nttVars, Transforms!vars
<1> QED  BY <1>1, <1>2, <1>3, <1>4, <1>5, PathStep, SigStep, BitsStep, NttStep DEF PartsInv

(* The four invariants hold through every run of MCRounding. *)
THEOREM PartsHold == MCSpec => []PartsInv
BY PartsInit, PartsStep, PTL DEF MCSpec

(* From every sum that reduce32 admits, and every sum of a row in          *)
(* Aigis-sig, the halves of t fit their bits in the keys and lose nothing. *)
THEOREM KeysLoseNothing == MCSpec => []KeyCoefficients
<1>1. PartsInv => KeyCoefficients
  BY SigClaims DEF PartsInv, PathInv, KeyCoefficients
<1> QED  BY <1>1, PartsHold, PTL

(* Aigis-sig: whatever the products c*s2 and c*t0, the verifier recovers   *)
(* the w1 of every attempt that was kept.                                  *)
THEOREM VerifierAgrees == MCSpec => []VerifierRecovers
<1>1. PartsInv => VerifierRecovers
  BY SigClaims DEF PartsInv, VerifierRecovers
<1> QED  BY <1>1, PartsHold, PTL

(* Every coefficient, by either representative, and every noise up to the  *)
(* tolerated: the bit that was encrypted is the one read.                  *)
THEOREM BitArrives == MCSpec => []BitSurvives
<1>1. PartsInv => BitSurvives
  BY BitsClaims DEF PartsInv, BitSurvives
<1> QED  BY <1>1, PartsHold, PTL

(* Every power of X and every second factor of standard coefficients:      *)
(* transform, multiply, transform back gives the product modulo X^256 + 1  *)
(* and Q, in the arithmetic of each of the three schemes.                  *)
THEOREM TransformsGiveProducts == MCSpec => []DomainMultiplies
<1>1. PartsInv => DomainMultiplies
  BY NttClaims DEF PartsInv, DomainMultiplies
<1> QED  BY <1>1, PartsHold, PTL

=============================================================================
