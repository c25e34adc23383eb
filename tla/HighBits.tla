------------------------------ MODULE HighBits ------------------------------
(***************************************************************************)
(* What rounding.c promises, for a ring modulus Q and a range GAMMA2 with  *)
(* Q = 2 * GAMMA2 * HighCount + 1: every coefficient in 0..Q-1 is          *)
(*                                                                         *)
(*      high * (2 * GAMMA2) + low,     |low| <= GAMMA2                     *)
(*                                                                         *)
(* and the top multiple, Q-1, is folded into high = 0.  The hint functions *)
(* of rounding.c use nothing else, so they are given here, and module      *)
(* Rounding supplies the decomposition the C code computes.                *)
(***************************************************************************)
EXTENDS Integers

CONSTANTS Q,        \* modulus of the coefficients
          GAMMA2    \* largest absolute value of the low bits

Alpha == 2 * GAMMA2
HighCount == (Q - 1) \div Alpha

Coefficients == 0 .. Q - 1

(* The representative of a modulo Alpha that lies in (-GAMMA2, GAMMA2]. *)
CenteredRemainder(a) ==
    LET m == a % Alpha IN IF m > GAMMA2 THEN m - Alpha ELSE m

(* The decomposition a mod Q = high * Alpha + low of the standard. *)
ReferenceDecompose(a) ==
    LET low == CenteredRemainder(a)
    IN  IF a - low = Q - 1
        THEN [high |-> 0, low |-> low - 1]
        ELSE [high |-> (a - low) \div Alpha, low |-> low]

-----------------------------------------------------------------------------
(* Two ways of getting the tie at -GAMMA2 wrong. *)
MakeHintWithoutTie(a0, a1) == IF a0 > GAMMA2 \/ a0 < -GAMMA2 THEN 1 ELSE 0
MakeHintAnyTie(a0, a1) == IF a0 > GAMMA2 \/ a0 <= -GAMMA2 THEN 1 ELSE 0

(* make_hint(a0, a1): would the low bits a0 carry into the high bits a1? *)
MakeHint(a0, a1) ==
    IF a0 > GAMMA2 \/ a0 < -GAMMA2 \/ (a0 = -GAMMA2 /\ a1 # 0) THEN 1 ELSE 0

(* use_hint after its call of decompose: one step up or down, cyclically. *)
Corrected(d, hint) ==
    CASE hint = 0              -> d.high
      [] hint # 0 /\ d.low > 0 -> (d.high + 1) % HighCount
      [] OTHER                 -> (d.high - 1) % HighCount

(* poly_chknorm on one coefficient: TRUE when it has to be rejected. *)
NormExceeds(a, bound) ==
    \/ bound > (Q - 1) \div 8
    \/ (IF a < 0 THEN -a ELSE a) >= bound

=============================================================================
