--------------------------- MODULE FixedSampling ---------------------------
(***************************************************************************)
(* Rejection sampling of Aigis-sig, from buffers of a fixed size: the      *)
(* matrix, the secrets and the mask.  Most of the coefficients are taken   *)
(* without asking whether there is room; if little is left of the buffer   *)
(* before the last ones, another block is put behind it.                   *)
(*                                                                         *)
(* Positions and counts with the real constants; what decides over a       *)
(* candidate is nondeterministic.                                          *)
(***************************************************************************)
EXTENDS Integers, Sequences

CONSTANT Samplers       \* those to check

PARAM_N == 256
SHAKE128_RATE == 168
SHAKE256_RATE == 136

(* A loop goes on until ctr reaches upto; an iteration reads so many bytes *)
(* and finds so many candidates in them.  With a limit, all candidates but *)
(* the first are only taken below it.                                      *)
Loop(upto, limit, bytes, candidates) ==
    [op |-> "loop", upto |-> upto, limit |-> limit, bytes |-> bytes, candidates |-> candidates]
None == PARAM_N + 8           \* beyond any count
Extend(below, block) == [op |-> "extend", below |-> below, block |-> block]

(* rej_eta1 with ETA1 = 1 and 2, rej_eta2 with ETA2 = 3 and 5 and the      *)
(* coefficients there are already.                                         *)
RejEta1One == <<Loop(PARAM_N - 4, None, 1, 4), Loop(PARAM_N, PARAM_N, 1, 4)>>
RejEta1Two == <<Loop(PARAM_N - 8, None, 3, 8), Loop(PARAM_N, PARAM_N, 3, 8)>>
RejEta2(from, len) == <<Loop(from + len - 2, None, 1, 2), Loop(from + len, from + len, 1, 2)>>

(* One candidate less. *)
LastBytesShort == 255

LastBytes == 258

Code(f) ==
    CASE f = "expand_mat_21" -> <<Loop(PARAM_N, None, 3, 1)>>
      [] f = "expand_mat_22" -> <<Loop(225, None, 3, 1), Extend(LastBytes, SHAKE128_RATE),
                                  Loop(PARAM_N, None, 3, 1)>>
      [] f = "eta1_1" -> RejEta1One
      [] f = "eta1_2" -> RejEta1Two
      [] f = "eta2_3" -> RejEta2(0, PARAM_N)
      [] f = "eta2_5" -> RejEta2(0, 223) \o <<Extend(85, SHAKE256_RATE)>> \o RejEta2(223, 33)
      [] f = "gamma1m1" -> <<Loop(PARAM_N - 2, None, 5, 2), Loop(PARAM_N, PARAM_N, 5, 2)>>

FirstFill(f) ==
    CASE f \in {"expand_mat_21", "expand_mat_22"} -> 6 * SHAKE128_RATE
      [] f = "gamma1m1" -> 5 * SHAKE256_RATE
      [] OTHER -> 2 * SHAKE256_RATE

(* The bytes that the comments say are enough, but for a probability they  *)
(* give: the first fill for everything before the extension, this much for *)
(* what comes after it, and seven blocks for a polynomial of the matrix.   *)
EnoughAfter(f) == IF f = "eta2_5" THEN 85 ELSE 258

VARIABLES sampler,
          step,         \* of Code
          ctr, pos,
          squeezed,     \* bytes of the buffer that were written
          resumed       \* ghost: pos after the extension; 0 before it

vars == <<sampler, step, ctr, pos, squeezed, resumed>>

Init ==
    /\ sampler \in Samplers
    /\ step = 1 /\ ctr = 0 /\ pos = 0 /\ squeezed = FirstFill(sampler) /\ resumed = 0

Now == Code(sampler)[step]

Running(op) == step <= Len(Code(sampler)) /\ Now.op = op

(* What the comments rule out has not happened. *)
Lucky ==
    IF resumed = 0 THEN pos <= FirstFill(sampler)
    ELSE /\ pos - resumed <= EnoughAfter(sampler)
         /\ sampler = "expand_mat_22" => pos <= 7 * SHAKE128_RATE

(* 18 bits are never above 2*GAMMA1. *)
Accepted == IF sampler = "gamma1m1" THEN {Now.candidates} ELSE 0 .. Now.candidates

(* An iteration: n of the candidates are good. *)
Iterate(n) ==
    /\ Running("loop") /\ Lucky
    /\ pos' = pos + Now.bytes
    /\ \/ ctr' = ctr + n /\ ctr' <= Now.limit
       \/ ctr' = Now.limit /\ ctr + n > Now.limit
    /\ step' = IF ctr' >= Now.upto THEN step + 1 ELSE step
    /\ UNCHANGED <<sampler, squeezed, resumed>>

(* The difference is unsigned, but the position is not behind the buffer.  *)
ExtendBuffer ==
    /\ Running("extend") /\ Lucky
    /\ squeezed' = IF FirstFill(sampler) - pos < Now.below
                   THEN FirstFill(sampler) + Now.block ELSE squeezed
    /\ resumed' = pos
    /\ step' = step + 1
    /\ UNCHANGED <<sampler, ctr, pos>>

Next == ExtendBuffer \/ \E n \in 0 .. 8 : Running("loop") /\ n \in Accepted /\ Iterate(n)

Spec == Init /\ [][Next]_vars

-----------------------------------------------------------------------------
(* Where the buffer may be extended (expand_mat_22, eta2_5), the decision  *)
(* taken once leaves enough bytes for what comes after it, wherever the    *)
(* first loops ended, unless what the comments give a probability for      *)
(* happens; the other samplers read their first fill, and that it is       *)
(* enough is just that probability.  In all of them no coefficient is      *)
(* written behind the last one, although most loops do not look, and every *)
(* one is written.                                                         *)
StaysInBuffers ==
    /\ Lucky => pos <= squeezed
    /\ ctr <= PARAM_N
    /\ step > Len(Code(sampler)) => ctr = PARAM_N

=============================================================================
