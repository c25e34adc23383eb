----------------------------- MODULE MCEncoding ------------------------------
(***************************************************************************)
(* How the schemes turn what they compute into bytes.  A behaviour is one  *)
(* of the hint loops, one polynomial through one of the packing tables, or *)
(* one byte string of one of the parameter sets through its two functions. *)
(* Hints: row ends can be too large for a byte string of five values, and  *)
(* a signer can have too many.  Tables: two groups of every unrolled loop, *)
(* at least.  Layouts: all parameter sets of the repository as they are.   *)
(***************************************************************************)
EXTENDS HintCodec, Sequences

CONSTANT PolyN      \* coefficients of a polynomial

VARIABLES encoding,                             \* which of the three
          packFormat, packPhase, packGroup, packed, unpacked,           \* of BitPacking
          alg, object, allocated, content, layoutPhase, layoutStep, slots    \* of Layouts

Lay  == INSTANCE Layouts WITH
            size <- allocated, todo <- content, phase <- layoutPhase, step <- layoutStep
Bits == INSTANCE BitPacking WITH
            N <- PolyN, Formats <- Lay!AllFormats, format <- packFormat, phase <- packPhase,
            i <- packGroup, r <- packed, coeffs <- unpacked

ASSUME TablesWork == Bits!TablesWork

bitVars == <<packFormat, packPhase, packGroup, packed, unpacked>>
layVars == <<alg, object, allocated, content, layoutPhase, layoutStep, slots>>

NoHintLoop == /\ pc = "idle" /\ h = NoHints /\ out = NoHints
              /\ sig = [b \in 0 .. OMEGA + K - 1 |-> 0]
              /\ i = 0 /\ j = 0 /\ k = 0
NoFormat   == /\ packFormat = <<"ml_dsa", "t1">> /\ packPhase = "idle" /\ packGroup = 0
              /\ packed = <<>> /\ unpacked = <<>>
NoLayout   == /\ alg = "ML_DSA_44" /\ object = "pk"
              /\ allocated = 0 /\ content = <<>> /\ layoutPhase = "idle" /\ layoutStep = 0
              /\ slots = <<>>

EncodingInit ==
    \/ encoding = "hints" /\ Init /\ NoFormat /\ NoLayout
    \/ encoding = "bits" /\ Bits!Init /\ NoHintLoop /\ NoLayout
    \/ encoding = "layout" /\ Lay!Init /\ NoHintLoop /\ NoFormat

EncodingNext ==
    /\ \/ encoding = "hints" /\ Next /\ UNCHANGED <<bitVars, layVars>>
       \/ encoding = "bits" /\ Bits!Next /\ UNCHANGED <<vars, layVars>>
       \/ encoding = "layout" /\ Lay!Next /\ UNCHANGED <<vars, bitVars>>
    /\ UNCHANGED encoding

EncodingSpec == EncodingInit /\ [][EncodingNext]_<<encoding, vars, bitVars, layVars>>

(* Packed bytes are the bit string of the coefficients and read back as    *)
(* them (poly*_pack, poly*_unpack, *_compress, *_tobytes).                 *)
PackingIsLossless == encoding = "bits" => Bits!PackingIsLossless

(* What is packed fits the buffer of the public header, covers it, and is  *)
(* found again by the reader (packing.c, kem.c, sign.c); sizes and         *)
(* prototypes of pqmagic_api.h are those of the schemes.                   *)
LayoutsAgree == encoding = "layout" => Lay!LayoutsAgree /\ Lay!DeclaredAsDefined
=============================================================================
