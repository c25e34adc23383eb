------------------------------ MODULE Rounding ------------------------------
(***************************************************************************)
(* reduce.c and rounding.c of ML-DSA and Dilithium (the same text in both  *)
(* directories): reductions modulo Q without a division; a division by     *)
(* 2 * GAMMA2 through the reciprocal 1025/2^22 or 11275/2^24, and the hint *)
(* functions on top of it.                                                 *)
(*                                                                         *)
(* The state machine follows one coefficient w = (Ay)[i][j] through a      *)
(* signature attempt and its verification, together with the coefficients  *)
(* cs2 and ct0 of the secret products: crypto_sign_signature_internal      *)
(* from polyveck_decompose to polyveck_make_hint, then                     *)
(* crypto_sign_verify_internal from its subtraction to polyveck_use_hint.  *)
(* Or it follows a coefficient w of t = A*s1 + s2 to the public key:       *)
(* reduced, made positive, and split by power2round, as                    *)
(* crypto_sign_keypair_internal does after it has summed the products of a *)
(* row.                                                                    *)
(***************************************************************************)
EXTENDS Integers

Q == 8380417
D == 13

CONSTANTS GAMMA2,   \* (Q-1)/88 or (Q-1)/32, by parameter set
          BETA,     \* bound on a coefficient of c*s1, c*s2
          Ws,       \* the coefficients of w that are explored
          Cs2,      \* the coefficients of c*s2, as the inverse transform gives them
          Ct0,      \* those of c*t0
          Sums      \* the accumulated int32_t coefficients of t

INSTANCE HighBits WITH Q <- Q, GAMMA2 <- GAMMA2

ASSUME GammaAssumption == GAMMA2 \in {(Q - 1) \div 88, (Q - 1) \div 32}
ASSUME BetaAssumption == BETA \in 1 .. 196
(* The inverse transform leaves its results in (-Q, Q).                    *)
ASSUME InputAssumption == /\ Ws \subseteq Coefficients
                          /\ Cs2 \subseteq -(Q - 1) .. Q - 1
                          /\ Ct0 \subseteq -(Q - 1) .. Q - 1
(* The comment above reduce32 admits sums up to 2143289343: the rounding   *)
(* term must not overflow.                                                 *)
ASSUME SumsAssumption == \A x \in Sums : x \in Int /\ -2147483647 - 1 <= x /\ x <= 2143289343

-----------------------------------------------------------------------------
(* Reductions.  The right shift of a negative int32_t rounds down, as \div *)
(* does.                                                                   *)

(* The shift alone, without the rounding term: floor instead of nearest. *)
FloorReduce(a) == a - (a \div 8388608) * Q

Reduce32(a) == a - ((a + 4194304) \div 8388608) * Q

CAddQ(a) == IF a < 0 THEN a + Q ELSE a

Freeze(a) == CAddQ(Reduce32(a))

Power2Round(a) ==
    LET a1 == (a + 4095) \div 8192
    IN  [high |-> a1, low |-> a - a1 * 8192]

-----------------------------------------------------------------------------
(* The reciprocal product truncated, where the code rounds to nearest. *)
TruncatedQuotient(a) ==
    LET b == (a + 127) \div 128
    IN  IF GAMMA2 = (Q - 1) \div 32 THEN ((b * 1025) \div 4194304) % 16
        ELSE LET q == (b * 11275) \div 16777216 IN IF q > 43 THEN 0 ELSE q

(* decompose's first half: a / (2 * GAMMA2), to nearest, Q-1 giving 0. *)
HighPart(a) ==
    LET b == (a + 127) \div 128
    IN  IF GAMMA2 = (Q - 1) \div 32
        THEN ((b * 1025 + 2097152) \div 4194304) % 16
        ELSE LET q == (b * 11275 + 8388608) \div 16777216
             IN  IF q > 43 THEN 0 ELSE q

(* and its second half: the remainder, brought down by Q for the top range *)
LowPart(a, a1) ==
    LET a0 == a - a1 * Alpha
    IN  IF a0 > (Q - 1) \div 2 THEN a0 - Q ELSE a0

Decompose(a) == [high |-> HighPart(a), low |-> LowPart(a, HighPart(a))]

UseHint(a, hint) == Corrected(Decompose(a), hint)

-----------------------------------------------------------------------------
VARIABLES pc,       \* the next step for this coefficient
          w,        \* the coefficient of Ay, in 0..Q-1, or of t
          s, t,     \* the coefficients of c*s2 and c*t0
          w1, w0,   \* polyveck w1, w0 of the signer; of a key t1, t0
          h,        \* the hint written to the signature
          v         \* what the verifier recovers

vars == <<pc, w, s, t, w1, w0, h, v>>

Init ==
    /\ \/ pc = "decompose" /\ w \in Ws /\ s \in Cs2 /\ t \in Ct0
       \/ pc = "accumulated" /\ w \in Sums /\ s = 0 /\ t = 0
    /\ w1 = 0 /\ w0 = 0 /\ h = 0 /\ v = 0

(* polyveck_decompose(&w1, &w0, &w1) *)
SplitW ==
    /\ pc = "decompose"
    /\ LET d == Decompose(w) IN w1' = d.high /\ w0' = d.low
    /\ pc' = "low"
    /\ UNCHANGED <<w, s, t, h, v>>

(* The bound with BETA added instead of subtracted. *)
LooseLowTest(a) == NormExceeds(a, GAMMA2 + BETA)

(* The second goto rej of the attempt. *)
LowTest(a) == NormExceeds(a, GAMMA2 - BETA)

(* polyveck_sub(&w0, &w0, &h); polyveck_reduce(&w0); polyveck_chknorm *)
SubtractCs2 ==
    /\ pc = "low"
    /\ w0' = Reduce32(w0 - s)
    /\ pc' = IF LowTest(Reduce32(w0 - s)) THEN "rejected" ELSE "hint"
    /\ UNCHANGED <<w, s, t, w1, h, v>>

(* polyveck_reduce(&h); polyveck_chknorm(&h, GAMMA2); polyveck_add; and    *)
(* polyveck_make_hint                                                      *)
HintCt0 ==
    /\ pc = "hint"
    /\ LET ct0 == Reduce32(t)
       IN  IF NormExceeds(ct0, GAMMA2)
           THEN pc' = "rejected" /\ UNCHANGED <<w0, h>>
           ELSE /\ w0' = w0 + ct0
                /\ h' = MakeHint(w0 + ct0, w1)
                /\ pc' = "verify"
    /\ UNCHANGED <<w, s, t, w1, v>>

(* The verifier's Az - c*t1*2^D equals w - cs2 + ct0 modulo Q; after       *)
(* polyveck_caddq it is the representative in 0..Q-1.                      *)
Reconstruct ==
    /\ pc = "verify"
    /\ v' = UseHint(Freeze(w - s + t), h)
    /\ pc' = "done"
    /\ UNCHANGED <<w, s, t, w1, w0, h>>

(* polyveck_reduce(&t1) *)
ReduceSum ==
    /\ pc = "accumulated"
    /\ w' = Reduce32(w)
    /\ pc' = "reduced"
    /\ UNCHANGED <<s, t, w1, w0, h, v>>

(* polyveck_caddq(&t1).  The inverse transform between the two is linear   *)
(* and leaves some residue in (-Q, Q); this one stands for all.            *)
MakePositive ==
    /\ pc = "reduced"
    /\ w' = CAddQ(w)
    /\ pc' = "positive"
    /\ UNCHANGED <<s, t, w1, w0, h, v>>

(* polyveck_power2round(&t1, &t0, &t1) *)
SplitT ==
    /\ pc = "positive"
    /\ LET d == Power2Round(w) IN w1' = d.high /\ w0' = d.low
    /\ pc' = "rounded"
    /\ UNCHANGED <<w, s, t, h, v>>

Next == \/ SplitW \/ SubtractCs2 \/ HintCt0 \/ Reconstruct
        \/ ReduceSum \/ MakePositive \/ SplitT

Spec == Init /\ [][Next]_vars

-----------------------------------------------------------------------------
KeySteps == {"accumulated", "reduced", "positive", "rounded"}

(* What holds of the coefficient at each step. *)
TypeOK ==
    /\ pc \in KeySteps \cup {"decompose", "low", "hint", "verify", "done", "rejected"}
    /\ pc \notin KeySteps => w \in Coefficients /\ w1 \in 0 .. HighCount - 1
    /\ w \in Int /\ s \in -(Q - 1) .. Q - 1 /\ t \in -(Q - 1) .. Q - 1
    /\ w1 \in Int /\ w0 \in Int /\ h \in 0 .. 1 /\ v \in Int

(* The range the comment above reduce32 gives for its result. *)
DocumentedRange == pc = "reduced" => w \in -6283009 .. 6283007

(* The range it really has, for every int32_t the comment admits.  Each    *)
(* bound is below Q, so that one conditional addition makes it standard.   *)
ReducedRange == pc = "reduced" => -6283009 <= w /\ w <= 6283008

(* What is split is the standard representative, as power2round assumes.   *)
(* The two halves of a public key coefficient fit the bits pack_pk and     *)
(* pack_sk give them, 10 and 13, and add up to it: nothing is lost.        *)
SplitIsLossless ==
    pc = "rounded" => /\ w \in Coefficients
                      /\ w1 * 8192 + w0 = w
                      /\ w1 \in 0 .. 1023
                      /\ 4096 - w0 \in 0 .. 8191

(* w0 and w1 make up w - cs2 before the hint, w - cs2 + ct0 after it, and  *)
(* neither test was failed on the way.  A sum is in range for the function *)
(* it is given to next.                                                    *)
PathInv ==
    /\ TypeOK
    /\ pc = "accumulated" => -2147483647 - 1 <= w /\ w <= 2143289343
    /\ ReducedRange
    /\ pc = "positive" => w \in Coefficients
    /\ SplitIsLossless
    /\ pc = "low" => [high |-> w1, low |-> w0] = ReferenceDecompose(w)
    /\ pc = "hint" => /\ ~LowTest(w0)
                      /\ (w1 * Alpha + w0) % Q = (w - s) % Q
    /\ pc = "verify" => /\ -Alpha < w0 /\ w0 < Alpha
                        /\ (w1 * Alpha + w0) % Q = (w - s + t) % Q
                        /\ h = MakeHint(w0, w1)
                        /\ ReferenceDecompose((w - s) % Q).high = w1
    /\ pc = "done" => v = w1 /\ ReferenceDecompose((w - s) % Q).high = w1

-----------------------------------------------------------------------------
(* The reciprocals are exact: for every coefficient the code's shifts and  *)
(* masks give the decomposition of the standard, at the wrap-around too.   *)
DecomposeExact == pc = "low" => [high |-> w1, low |-> w0] = ReferenceDecompose(w)

(* Whatever the verifier recovers from a coefficient that was not rejected *)
(* is the w1 the signer hashed.                                            *)
HintRecovers == pc = "done" => v = w1

(* The hint bit is set exactly when adding ct0 moves the high bits: a bit  *)
(* too many would waste one of the OMEGA positions, one too few would make *)
(* the signature fail.                                                     *)
HintIsExact ==
    pc = "verify" =>
        (h = 1 <=> ReferenceDecompose((w - s + t) % Q).high # w1)

(* Subtracting cs2 never changes the high bits of a coefficient that is    *)
(* kept: the challenge is a hash of w1, and w1 is HighBits(w - cs2) too.   *)
HighBitsKept ==
    pc \in {"hint", "verify", "done"} =>
        ReferenceDecompose((w - s) % Q).high = w1

=============================================================================
