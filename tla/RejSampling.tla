---------------------------- MODULE RejSampling ----------------------------
(***************************************************************************)
(* Rejection sampling with a buffer that is filled again: poly_uniform and *)
(* poly_uniform_eta of ML-DSA and Dilithium, gen_matrix of ML-KEM and      *)
(* Kyber.  A candidate is cut from the bytes in the buffer; what is left   *)
(* of them at a refill is moved to the front or must be nothing.           *)
(*                                                                         *)
(* A byte is named by its round and its place in it.  With SHAKE a round   *)
(* is what is squeezed next; with SM3 it is a hash of the seed and a       *)
(* one-byte counter.                                                       *)
(***************************************************************************)
EXTENDS Integers, Sequences, FiniteSets, Functions

CONSTANTS N,            \* coefficients of a polynomial
          Block,        \* [Samplers -> Nat]: STREAM128_BLOCKBYTES and the like
          NBlocks,      \* [Samplers -> Nat]: blocks of the first fill
          CounterRange, \* 256
          MaxRefills    \* bound

Samplers == {"poly_uniform", "poly_uniform_eta", "gen_matrix"}
Modes == {"shake", "sm3"}

(* Bytes of an iteration, and the candidates in them.                      *)
Unit(f) == IF f = "poly_uniform_eta" THEN 1 ELSE 3
Halves(f) == IF f = "poly_uniform" THEN 1 ELSE 2

(* gen_matrix is not compiled unless its blocks are multiples of three.    *)
(* The counter does not come back to a value it had: that many refills     *)
(* have a probability nobody will see.                                     *)
SamplerAssumption ==
    /\ N \in Nat \ {0} /\ Block \in [Samplers -> Nat \ {0}] /\ NBlocks \in [Samplers -> Nat \ {0}]
    /\ Block["gen_matrix"] % 3 = 0
    /\ MaxRefills \in Nat /\ CounterRange \in Nat /\ MaxRefills < CounterRange

Output(round, n) == [k \in 1 .. n |-> <<round, k>>]

Candidate(bytes, half) == [bytes |-> bytes, half |-> half]

(* Reference: everything that is ever squeezed, cut into candidates.       *)
Stream(f) ==
    LET s[r \in 0 .. MaxRefills] ==
            IF r = 0 THEN Output(0, NBlocks[f] * Block[f])
                     ELSE s[r - 1] \o Output(r, Block[f])
    IN  s[MaxRefills]

StreamCandidates(f) ==
    LET units == Len(Stream(f)) \div Unit(f)
        unit(u) == SubSeq(Stream(f), u * Unit(f) + 1, (u + 1) * Unit(f))
    IN  [c \in 1 .. units * Halves(f) |->
            Candidate(unit((c - 1) \div Halves(f)), (c - 1) % Halves(f))]

-----------------------------------------------------------------------------
VARIABLES sampler, mode,
          good,         \* the candidates below the bound
          buf,          \* the bytes up to buflen
          pos,
          round,        \* the last byte of the seed, or how often was squeezed
          a,            \* the coefficients; ctr is their number
          returned

vars == <<sampler, mode, good, buf, pos, round, a, returned>>

(* The first fill. *)
Init ==
    /\ sampler \in Samplers /\ mode \in Modes
    /\ good \in SUBSET Range(StreamCandidates(sampler))
    /\ buf = Output(0, NBlocks[sampler] * Block[sampler])
    /\ pos = 0 /\ round = 0 /\ a = << >> /\ returned = FALSE

(* while(ctr < len && pos + 3 <= buflen), and pos < buflen for single bytes *)
Scanning == ~returned /\ Len(a) < N /\ pos + Unit(sampler) <= Len(buf)

Take(coeffs, candidate) ==
    IF candidate \in good /\ Len(coeffs) < N THEN Append(coeffs, candidate) ELSE coeffs

(* An iteration of rej_uniform or rej_eta. *)
Scan ==
    /\ Scanning
    /\ LET unit == SubSeq(buf, pos + 1, pos + Unit(sampler))
           first == Take(a, Candidate(unit, 0))
       IN  a' = IF Halves(sampler) = 2 THEN Take(first, Candidate(unit, 1)) ELSE first
    /\ pos' = pos + Unit(sampler)
    /\ UNCHANGED <<sampler, mode, good, buf, round, returned>>

(* One byte too far to the front. *)
RestOfFirstFill(n) == SubSeq(buf, Len(buf) - n, Len(buf) - 1)

(* buf[i] = buf[buflen - off + i] *)
Rest(n) == SubSeq(buf, Len(buf) - n + 1, Len(buf))

Refill ==
    /\ ~returned /\ ~Scanning /\ Len(a) < N /\ round < MaxRefills
    /\ round' = IF mode = "sm3" THEN (round + 1) % CounterRange ELSE round + 1
    /\ LET off == IF sampler = "poly_uniform" THEN Len(buf) % 3 ELSE 0
       IN  buf' = Rest(off) \o Output(round', Block[sampler])
    /\ pos' = 0
    /\ UNCHANGED <<sampler, mode, good, a, returned>>

Return ==
    /\ ~returned /\ Len(a) = N
    /\ returned' = TRUE
    /\ UNCHANGED <<sampler, mode, good, buf, pos, round, a>>

Next == Scan \/ Refill \/ Return

Spec == Init /\ [][Next]_vars

-----------------------------------------------------------------------------
(* The polynomial is the first N good candidates of the stream, in order:  *)
(* no byte is lost or used twice where the buffer is filled again, so the  *)
(* result does not depend on how the stream is cut into fills, and signer  *)
(* and verifier expand the same matrix.                                    *)
GoodUpTo(c) == Cardinality({d \in 1 .. c : StreamCandidates(sampler)[d] \in good})

SamplesStream ==
    returned =>
        /\ Len(a) = N
        /\ \A n \in 1 .. N : \E c \in DOMAIN StreamCandidates(sampler) :
               a[n] = StreamCandidates(sampler)[c] /\ a[n] \in good /\ GoodUpTo(c) = n

=============================================================================
