----------------------------- MODULE MCSampling -----------------------------
(***************************************************************************)
(* What is drawn from the output of a hash.  A behaviour runs one sampler: *)
(* the challenge, with five coefficients; a refilled buffer with blocks of *)
(* four bytes for candidates of three, so that one or two are left over; a *)
(* buffer of Aigis-sig with its real sizes; Aigis-enc with its real groups *)
(* and blocks smaller than a group.                                        *)
(***************************************************************************)
EXTENDS Integers, Sequences, FiniteSets

CONSTANTS Degree, TAU, SignBytes, RATE,          \* of Challenge
          Coefficients, Block, NBlocks, CounterRange, Refills, GroupN, GroupRate, GroupFill

MCBlock == [f \in {"poly_uniform", "poly_uniform_eta", "gen_matrix"} |->
                CASE f = "poly_uniform" -> 4 [] f = "poly_uniform_eta" -> 1 [] OTHER -> 3]

MCNBlocks == [f \in {"poly_uniform", "poly_uniform_eta", "gen_matrix"} |->
                CASE f = "poly_uniform" -> 2 [] OTHER -> 1]

FixedSamplers == {"expand_mat_21", "expand_mat_22", "eta1_1", "eta1_2", "eta2_3", "eta2_5", "gamma1m1"}

VARIABLES running,
          poly, free, hpos, signs,                                  \* of Challenge
          rsampler, mode, good, rbuf, rpos, round, a, returned,     \* of RejSampling
          fsampler, step, fctr, fpos, fsqueezed, resumed,           \* of FixedSampling
          gbuf, at, len, gpos, gctr, gk, gpc, gsqueezed, candidates \* of GroupSampling

Draw == INSTANCE Challenge WITH N <- Degree, c <- poly, i <- free, pos <- hpos

Rej == INSTANCE RejSampling WITH
          N <- Coefficients, MaxRefills <- Refills,
          sampler <- rsampler, buf <- rbuf, pos <- rpos

Fixed == INSTANCE FixedSampling WITH
            Samplers <- FixedSamplers, sampler <- fsampler, ctr <- fctr, pos <- fpos,
            squeezed <- fsqueezed

Group == INSTANCE GroupSampling WITH
            N <- GroupN, Rate <- GroupRate, REJ_UNIFORM_BYTES <- GroupFill,
            MaxRefills <- Refills,
            buf <- gbuf, pos <- gpos, ctr <- gctr, k <- gk, pc <- gpc, squeezed <- gsqueezed

ASSUME SamplersAssumption ==
    Draw!ChallengeAssumption /\ Rej!SamplerAssumption /\ Group!GroupAssumption

challengeVars == <<poly, free, hpos, signs>>
rejVars == <<rsampler, mode, good, rbuf, rpos, round, a, returned>>
fixedVars == <<fsampler, step, fctr, fpos, fsqueezed, resumed>>
groupVars == <<gbuf, at, len, gpos, gctr, gk, gpc, gsqueezed, candidates>>

(* The others rest. *)
NoChallenge == Draw!Init /\ signs = [j \in Draw!Drawn |-> 1]
NoRej == /\ rsampler = "" /\ mode = "" /\ good = {} /\ rbuf = << >> /\ rpos = 0
         /\ round = 0 /\ a = << >> /\ returned = FALSE
NoFixed == /\ fsampler = "gamma1m1" /\ step = 0 /\ fctr = 0 /\ fpos = 0 /\ fsqueezed = 0
           /\ resumed = 0
NoGroup == /\ gbuf = << >> /\ at = 0 /\ len = 0 /\ gpos = 0 /\ gctr = 0 /\ gk = 1 /\ gpc = ""
           /\ gsqueezed = 0 /\ candidates = << >>

MCInit ==
    \/ running = "challenge" /\ Draw!Init /\ NoRej /\ NoFixed /\ NoGroup
    \/ running = "refilled" /\ Rej!Init /\ NoChallenge /\ NoFixed /\ NoGroup
    \/ running = "fixed" /\ Fixed!Init /\ NoChallenge /\ NoRej /\ NoGroup
    \/ running = "groups" /\ Group!Init /\ NoChallenge /\ NoRej /\ NoFixed

MCNext ==
    /\ \/ running = "challenge" /\ Draw!Next /\ UNCHANGED <<rejVars, fixedVars, groupVars>>
       \/ running = "refilled" /\ Rej!Next /\ UNCHANGED <<challengeVars, fixedVars, groupVars>>
       \/ running = "fixed" /\ Fixed!Next /\ UNCHANGED <<challengeVars, rejVars, groupVars>>
       \/ running = "groups" /\ Group!Next /\ UNCHANGED <<challengeVars, rejVars, fixedVars>>
    /\ UNCHANGED running

MCSpec == MCInit /\ [][MCNext]_<<running, challengeVars, rejVars, fixedVars, groupVars>>

(* After each draw there is one more coefficient that is not zero, and     *)
(* none beyond the next (poly_challenge, challenge).                       *)
Weight == Draw!Weight

(* Of all bytes and signs that can be drawn, as many give one challenge as *)
(* another (poly_challenge, challenge).                                    *)
Uniform == Draw!Uniform

(* The candidates are those of the stream, in order, each with bits of its *)
(* own: poly_uniform and its like, poly_uniform_seed of Aigis-enc.         *)
SamplesStream == Rej!SamplesStream /\ Group!EachBitOnce

(* Aigis-sig: a buffer that is extended is extended in time, and nothing   *)
(* is written behind the polynomial.                                       *)
StaysInBuffers == Fixed!StaysInBuffers
=============================================================================
