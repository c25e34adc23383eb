---------------------------- MODULE AigisRounding ----------------------------
(***************************************************************************)
(* rounding.c of Aigis-sig and the calls around it in sign.c, with the     *)
(* constants of its three parameter sets.  Its decomposition divides by    *)
(* two other numbers than that of ML-DSA, and its signer does not trust    *)
(* the bound BETA2: a product c*s2 can exceed it, and an attempt whose     *)
(* high bits have moved is given up in a test of its own.                  *)
(*                                                                         *)
(* The machine follows one coefficient: of w through an attempt and the    *)
(* verification, or of t from the sum of a row to the two keys.  A         *)
(* coefficient is an unsigned word; a low part is stored with Q added.     *)
(***************************************************************************)
EXTENDS Integers

CONSTANTS Reach,    \* how far coefficients lie from the points that matter
          Spread    \* the same for the secret products

Sets == 1 .. 3                              \* PARAMS
Modulus(p) == IF p = 1 THEN 2021377 ELSE 3870721
Gamma2(p)  == IF p = 1 THEN 168448 ELSE 322560
Beta2(p)   == IF p = 1 THEN 175 ELSE 275
Eta2(p)    == IF p = 1 THEN 3 ELSE 5
D(p)       == IF p = 1 THEN 13 ELSE 14
Weight     == 60                            \* coefficients of a challenge

(* What the decomposition stands for. *)
Std(Q, GAMMA2) == INSTANCE HighBits
Reference(p, a) == Std(Modulus(p), Gamma2(p))!ReferenceDecompose(a)

-----------------------------------------------------------------------------
(* An unsigned difference that has the sign bit set gets m back. *)
SubtractOrKeep(a, m) == IF a < m THEN a ELSE a - m

(* freeze4q, and poly_freeze2q, which calls it *)
Freeze(p, a) == SubtractOrKeep(SubtractOrKeep(a, 2 * Modulus(p)), Modulus(p))

Power2Round(p, a) ==
    LET d == 2^D(p)
        t == (a % d) - (d \div 2 + 1)
        low == (IF t < 0 THEN t + d ELSE t) - (d \div 2 - 1)
    IN  [high |-> (a - low) \div d, low |-> Modulus(p) + low]

(* ((a*3) >> 20) + 1, one too many or exact, and then put right.           *)
Decompose(p, a) ==
    LET alpha == 2 * Gamma2(p)
        guess == (a * 3) \div (IF p = 1 THEN 1048576 ELSE 2097152) + 1
        rest  == a - guess * alpha
        u     == IF rest < 0 THEN guess - 1 ELSE guess
        m     == IF rest < 0 THEN rest + alpha ELSE rest
        t     == m - (alpha \div 2 + 1)
        low   == (IF t < 0 THEN t + alpha ELSE t) - (alpha \div 2 - 1)
        high  == IF low < 0 THEN u + 1 ELSE u
    IN  IF high = 6 THEN [high |-> 0, low |-> Modulus(p) + low - 1]
                    ELSE [high |-> high, low |-> Modulus(p) + low]

MakeHint(p, a, b) ==
    IF Decompose(p, a).high # Decompose(p, Freeze(p, a + b)).high THEN 1 ELSE 0

UseHint(p, a, hint) ==
    LET d == Decompose(p, a)
    IN  CASE hint = 0            -> d.high
          [] hint # 0 /\ d.low > Modulus(p) -> IF d.high = 5 THEN 0 ELSE d.high + 1
          [] OTHER               -> IF d.high = 0 THEN 5 ELSE d.high - 1

(* poly_chknorm of a standard coefficient. *)
NormExceeds(p, a, bound) ==
    (IF a > (Modulus(p) - 1) \div 2 THEN Modulus(p) - a ELSE a) >= bound

-----------------------------------------------------------------------------
VARIABLES set,          \* PARAMS
          pc,
          a,            \* a sum of a row; w; w - cs2; what the verifier computes
          cs2, ct0,     \* the coefficients of the secret products, below 2*Q
          high, low,    \* t1 and t0; w1 of the signer, and its copy of the low part
          h,            \* the hint
          v             \* the w1 of the verifier; the t of its public key

vars == <<set, pc, a, cs2, ct0, high, low, h, v>>

Near(S, reach) == {x + e : x \in S, e \in -reach .. reach}

(* A product of a challenge and coefficients up to n, at its ends and      *)
(* around what the signer tests, by either representative below 2*Q.       *)
Products(p, n, tests) ==
    Near({x + (IF x < 0 THEN 2 ELSE 0) * Modulus(p) :
            x \in {-n, 0, n} \cup tests \cup {-x : x \in tests}}
         \cup {Modulus(p) - 1, Modulus(p) + 1}, Spread) \cap 0 .. 2 * Modulus(p) - 1

(* Every boundary of the decomposition, as it is and moved by the bounds   *)
(* of cs2.                                                                 *)
EdgeWs(p) ==
    Near({k * Gamma2(p) + m : k \in 0 .. 12,
            m \in {0, Beta2(p), -Beta2(p), Weight * Eta2(p) - Beta2(p),
                   Beta2(p) - Weight * Eta2(p)}}, Reach) \cap 0 .. Modulus(p) - 1

(* Sums of a row and of s2, below 4*Q. *)
RowSums(p) ==
    {x + k * Modulus(p) :
       x \in Near({k * 2^(D(p) - 1) : k \in 0 .. Modulus(p) \div 2^(D(p) - 1)}
                  \cup {Modulus(p) - 1}, Reach) \cap 0 .. Modulus(p) - 1,
       k \in 0 .. 3}

Init ==
    /\ set \in Sets
    /\ \/ pc = "sum" /\ a \in RowSums(set) /\ cs2 = 0 /\ ct0 = 0
       \/ /\ pc = "decompose" /\ a \in EdgeWs(set)
          /\ cs2 \in Products(set, Weight * Eta2(set), {Beta2(set), Beta2(set) + 1})
          /\ ct0 \in Products(set, Weight * 2^(D(set) - 1), {1, Gamma2(set) - 1, Gamma2(set)})
    /\ high = 0 /\ low = 0 /\ h = 0 /\ v = 0

Q == Modulus(set)
Reduced(x) == Freeze(set, x)

-----------------------------------------------------------------------------
(* Keys: polyveck_freeze4q(&t); polyveck_power2round(&t1, &t0, &t), and    *)
(* polyveck_shiftl of the verifier.                                        *)
SplitT ==
    /\ pc = "sum"
    /\ LET t == Power2Round(set, Reduced(a))
       IN  high' = t.high /\ low' = t.low /\ v' = t.high * 2^D(set)
    /\ pc' = "keys"
    /\ UNCHANGED <<set, a, cs2, ct0, h>>

(* polyveck_decompose(&w1, &tmp, &w), of which the low part is not kept    *)
SplitW ==
    /\ pc = "decompose"
    /\ LET d == Decompose(set, a) IN high' = d.high /\ low' = d.low
    /\ pc' = "low"
    /\ UNCHANGED <<set, a, cs2, ct0, h, v>>

(* Mutant: the second test is taken to follow from the first.              *)
Trusted(x) == FALSE

(* tmp.vec[i].coeffs[j] != w1.vec[i].coeffs[j] *)
HighBitsMoved(x) == x # high

(* polyveck_sub(&wcs2, &w, &wcs2), its decomposition and both tests        *)
SubtractCs2 ==
    /\ pc = "low"
    /\ LET wcs2 == Reduced(a + 2 * Q - cs2)
           d == Decompose(set, wcs2)
       IN  /\ a' = wcs2 /\ low' = d.low
           /\ pc' = IF NormExceeds(set, Reduced(d.low), Gamma2(set) - Beta2(set))
                       \/ HighBitsMoved(d.high)
                    THEN "rejected" ELSE "hint"
    /\ UNCHANGED <<set, cs2, ct0, high, h, v>>

(* polyveck_add(&tmp, &wcs2, &ct0); polyveck_neg(&ct0); and                *)
(* polyveck_make_hint.  The verifier's A*z - c*t1*2^D is tmp modulo Q.     *)
HintCt0 ==
    /\ pc = "hint"
    /\ IF NormExceeds(set, Reduced(ct0), Gamma2(set))
       THEN pc' = "rejected" /\ UNCHANGED <<a, h>>
       ELSE LET tmp == Reduced(a + Reduced(ct0))
            IN  /\ a' = tmp
                /\ h' = MakeHint(set, tmp, 2 * Q - Reduced(ct0))
                /\ pc' = "verify"
    /\ UNCHANGED <<set, cs2, ct0, high, low, v>>

(* polyveck_freeze2q(&tmp1); polyveck_use_hint(&w1, &tmp1, &h) *)
Reconstruct ==
    /\ pc = "verify"
    /\ \E tmp1 \in {a, a + Q} : v' = UseHint(set, Reduced(tmp1), h)
    /\ pc' = "done"
    /\ UNCHANGED <<set, a, cs2, ct0, high, low, h>>

Next == SplitT \/ SplitW \/ SubtractCs2 \/ HintCt0 \/ Reconstruct

Spec == Init /\ [][Next]_vars

-----------------------------------------------------------------------------
(* The two halves of a coefficient of t fit the bits that pack_pk and      *)
(* pack_sk have for them, and what the verifier makes of the public one    *)
(* differs from t by the secret one: nothing is lost.                      *)
SplitIsLossless ==
    pc = "keys" => /\ high \in 0 .. 255
                   /\ Q + 2^(D(set) - 1) - low \in 0 .. 2^D(set) - 1
                   /\ v + low - Q = a % Q

(* The decomposition is the division by ALPHA, at the fold above the top   *)
(* interval too; and from every attempt that is kept, the verifier         *)
(* recovers the w1 that the signer has hashed, though c*s2 may be larger   *)
(* than the bound that is tested.                                          *)
VerifierRecovers ==
    /\ pc = "low" => [high |-> high, low |-> low - Q] = Reference(set, a)
    /\ pc = "done" => v = high

=============================================================================
