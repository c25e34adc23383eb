------------------------------- MODULE MCHash -------------------------------
(***************************************************************************)
(* The hash functions side by side: a behaviour uses one of the interfaces *)
(* of fips202.c, with a rate of three bytes, or SM3, with blocks of eight. *)
(* A caller cuts every message up to two blocks and more, and as much      *)
(* output, into calls in every way.  The counter of the incremental        *)
(* interface of Keccak has a type that just holds the rate.                *)
(***************************************************************************)
EXTENDS Keccak

CONSTANTS CounterMax,
          BlockBits, WordBits, LenBytes, DigestLen, MaxText, MaxKey

ASSUME CounterAssumption == CounterMax \in Nat /\ R <= CounterMax

VARIABLES interface,                                    \* the one in use
          sInc, count, phaseInc, fedInc, outInc, call,  \* of IncSponge
          ctx, key, state, message, keyGiven, result, longer    \* of SM3

Inc == INSTANCE IncSponge WITH s <- sInc, phase <- phaseInc, fed <- fedInc, out <- outInc
SM3 == INSTANCE SM3 WITH MaxMsg <- MaxText

ASSUME SM3Assumption == SM3!SizesAssumption /\ SM3!PowerAssumption

incVars == <<sInc, count, phaseInc, fedInc, outInc, call>>
sm3Vars == <<ctx, key, state, message, keyGiven, result, longer>>

MCInit ==
    /\ interface \in {"state", "inc", "sm3"}
    /\ Init /\ Inc!Init /\ SM3!Init

MCNext ==
    /\ \/ interface = "state" /\ Next /\ UNCHANGED <<incVars, sm3Vars>>
       \/ interface = "inc" /\ Inc!Next /\ UNCHANGED <<vars, sm3Vars>>
       \/ interface = "sm3" /\ SM3!Next /\ UNCHANGED <<vars, incVars>>
    /\ UNCHANGED interface

MCSpec == MCInit /\ [][MCNext]_<<interface, vars, incVars, sm3Vars>>

(* However the calls cut it, the counter interface is an XOF as well.      *)
IncImplementsXOF == Inc!ImplementsXOF

(* sm3_update and sm3_final give the digest of the padded message however   *)
(* it is cut, sm3_hmac_* the HMAC of the key and the message, and           *)
(* sm3_extended and mgf1_sm3 numbered digests cut to the length.            *)
DigestsAreSM3 == SM3!DigestIsHash /\ SM3!MacIsHmac /\ SM3!LongerIsCounterMode
=============================================================================
