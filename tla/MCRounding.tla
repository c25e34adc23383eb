----------------------------- MODULE MCRounding -----------------------------
(***************************************************************************)
(* What the schemes do to coefficients, with the real constants.  A        *)
(* behaviour is one of these; the others are at their end already.         *)
(*                                                                         *)
(* Rounding: a coefficient of w within Reach of a boundary of the          *)
(* decomposition: every odd multiple of GAMMA2 (where the high bits        *)
(* change), every even one (where the low bits change sign), and the two   *)
(* ends of 0..Q-1.  A coefficient of t: the sums around each point where   *)
(* the quotient of reduce32 changes, from one end of int32_t to the other, *)
(* and those around the multiples of the power of two that power2round     *)
(* divides by.                                                             *)
(*                                                                         *)
(* Growth: the ranges of all polynomials through every key generation,     *)
(* signature, verification, encryption and decryption.                     *)
(*                                                                         *)
(* NTT: X^i times a polynomial of 256 coefficients without a pattern,      *)
(* transformed with the real tables.                                       *)
(*                                                                         *)
(* Compression: a coefficient of a ciphertext within Margin of every step  *)
(* of the rounding.                                                        *)
(*                                                                         *)
(* AigisRounding: the same as the first, of Aigis-sig, within Reach.       *)
(***************************************************************************)
EXTENDS Rounding

CONSTANTS Parts, Reach, Spread, Schemes, Exponents, Factors, Margin

MCGAMMA2 == (8380417 - 1) \div Parts
Boundary == {k * MCGAMMA2 : k \in 0 .. Parts}
MCWs == {x \in UNION {b - Reach .. b + Reach : b \in Boundary} : x \in 0 .. 8380416}

(* Two of the products are given by their other representative. *)
MCCs2 == {-BETA, -1, 0, 8380417 - 1, BETA}
MCCt0 == {-MCGAMMA2, 8380417 - (MCGAMMA2 - 1), -1, 0, 1, MCGAMMA2 - 1}

QuotientSteps == {k * 8388608 - 4194304 + e : k \in -255 .. 255, e \in -1 .. 1}
RoundingSteps == {k * 8192 + e : k \in 0 .. 1023, e \in {-1, 0, 4095, 4096, 4097}}
MCSums == {x \in QuotientSteps \cup RoundingSteps : x <= 2143289343}
           \cup {-2147483647 - 1, -Q, -1, 0, Q - 1, Q, 2143289343}

(* The widths of v and of u: BITS_C2 and BITS_C1 of Aigis-enc, those of    *)
(* POLYCOMPRESSEDBYTES and POLYVECCOMPRESSEDBYTES in Kyber and ML-KEM.     *)
MCWidths == {<<"kyber", 4>>, <<"kyber", 5>>,
             <<"aigis_enc", 3>>, <<"aigis_enc", 4>>, <<"aigis_enc", 5>>}
MCUWidths == {<<"kyber", 10>>, <<"kyber", 11>>,
              <<"aigis_enc", 9>>, <<"aigis_enc", 10>>, <<"aigis_enc", 11>>}

(* Coefficients without a pattern, below each modulus.                     *)
Unpatterned(q) == [j \in 0 .. 255 |-> (j * j * j * 31 + j * 1009 + 5) % q]
MCFactors == [kyber |-> Unpatterned(3329), aigis_enc |-> Unpatterned(7681), ml_dsa |-> Unpatterned(Q)]

VARIABLES subject,                                  \* the module followed
          prog, at, level, range, stored, relied,   \* of Growth
          job, loop, index, poly, other, stage,     \* of NTT
          task, rounded, sent, pcBit,               \* of Compression
          set, pcSig, coeff, cs2, ct0, high, low, hint, found   \* of AigisRounding

Sizes == INSTANCE Growth
Transforms == INSTANCE NTT WITH pc <- stage, k <- index, a <- poly, b <- other
Bits == INSTANCE Compression WITH
            v <- rounded, pc <- pcBit, Widths <- MCWidths, UWidths <- MCUWidths
Sig == INSTANCE AigisRounding WITH a <- coeff, pc <- pcSig, h <- hint, v <- found

(* Every exponent, and every factor of standard coefficients.  That the    *)
(* tables hold roots of unity and their inverses is a fact about their     *)
(* entries.                                                                *)
ASSUME TransformAssumption ==
    /\ Schemes \subseteq {"kyber", "aigis_enc", "ml_dsa"} /\ Exponents \subseteq 0 .. 255
    /\ \A sc \in Schemes : Factors[sc] \in [0 .. 255 -> 0 .. Transforms!Modulus(sc) - 1]
    /\ Transforms!TablesFit

sizeVars == <<prog, at, level, range, stored, relied>>
nttVars == <<job, loop, index, poly, other, stage>>
bitVars == <<task, rounded, sent, pcBit>>
sigVars == <<set, pcSig, coeff, cs2, ct0, high, low, hint, found>>

NoW == pc = "rejected" /\ w = 0 /\ s = 0 /\ t = 0 /\ w1 = 0 /\ w0 = 0 /\ h = 0 /\ v = 0
NoSizes == /\ prog = "none" /\ at = 0 /\ level = 0
           /\ range = << >> /\ stored = {} /\ relied = {}
NoTransform == /\ job = "none" /\ stage = "none" /\ loop = 0 /\ index = 0
               /\ poly = << >> /\ other = << >>
NoBit == task = "none" /\ pcBit = "none" /\ rounded = 0 /\ sent = 0
NoSig == /\ set = 1 /\ pcSig = "none" /\ coeff = 0 /\ cs2 = 0 /\ ct0 = 0
         /\ high = 0 /\ low = 0 /\ hint = 0 /\ found = 0

MCInit ==
    \/ subject = "Rounding" /\ Init /\ NoSizes /\ NoTransform /\ NoBit /\ NoSig
    \/ subject = "Growth" /\ Sizes!Init /\ NoW /\ NoTransform /\ NoBit /\ NoSig
    \/ subject = "NTT" /\ Transforms!Init /\ NoW /\ NoSizes /\ NoBit /\ NoSig
    \/ subject = "Compression" /\ Bits!Init /\ NoW /\ NoSizes /\ NoTransform /\ NoSig
    \/ subject = "AigisRounding" /\ Sig!Init /\ NoW /\ NoSizes /\ NoTransform /\ NoBit

MCNext ==
    /\ \/ subject = "Rounding" /\ Next
          /\ UNCHANGED <<sizeVars, nttVars, bitVars, sigVars>>
       \/ subject = "Growth" /\ Sizes!Next
          /\ UNCHANGED <<vars, nttVars, bitVars, sigVars>>
       \/ subject = "NTT" /\ Transforms!Next
          /\ UNCHANGED <<vars, sizeVars, bitVars, sigVars>>
       \/ subject = "Compression" /\ Bits!Next
          /\ UNCHANGED <<vars, sizeVars, nttVars, sigVars>>
       \/ subject = "AigisRounding" /\ Sig!Next
          /\ UNCHANGED <<vars, sizeVars, nttVars, bitVars>>
    /\ UNCHANGED subject

MCSpec == MCInit /\ [][MCNext]_<<subject, vars, sizeVars, nttVars, bitVars, sigVars>>

(* The range reduce32 really has, one addition of Q away from standard, and *)
(* the halves of power2round, which lose nothing and fit the keys' bits;   *)
(* the same of Aigis-sig's (reduce.c, rounding.c).                         *)
KeyCoefficients == ReducedRange /\ SplitIsLossless /\ Sig!SplitIsLossless

(* Through a whole key generation, signature or encryption no coefficient  *)
(* leaves its word, no product the range montgomery_reduce is correct for, *)
(* and what is packed, rounded or reduced has the range the comment of     *)
(* each function asks for (ntt.c, reduce.c, sign.c, indcpa.c, owcpa.c).    *)
CoefficientsFit == Sizes!NothingOverflows /\ Sizes!StandardWhenRead

(* Transform, multiply, transform back: the product modulo X^256 + 1 and Q *)
(* (ntt.c, with its tables).                                               *)
DomainMultiplies == Transforms!DomainMultiplies

(* Aigis-sig: the verifier recovers the w1 that was hashed, whatever c*s2  *)
(* and c*t0 the attempt had (rounding.c, sign.c).                          *)
VerifierRecovers == Sig!VerifierRecovers

(* A rounded ciphertext still holds its bit (poly_compress, poly_tomsg).   *)
BitSurvives == Bits!BitSurvives

=============================================================================
