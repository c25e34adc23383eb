------------------------------ MODULE Provider ------------------------------
(***************************************************************************)
(* The provider of the Aigis signatures, aigis_provider.c: contexts with   *)
(* two key buffers and a flag for each, below a framework that passes      *)
(* lists of parameters and buffers with their lengths.                     *)
(*                                                                         *)
(* A key stands for its bytes.  A buffer of a context always takes the     *)
(* leading bytes that fit its algorithm, so a key of another algorithm in  *)
(* it is a key that matches nothing.  The signature scheme is ideal here;  *)
(* module MLDSA models one.  A handle is NULL before NEWCTX and after      *)
(* FREECTX.                                                                *)
(***************************************************************************)
EXTENDS Integers, Sequences

CONSTANTS Contexts, NULL,
          Algs,                     \* the algorithms compiled in
          PkLen, SkLen, SigLen,     \* algorithm -> bytes
          Rooms,                    \* the lengths a caller may pass
          Data,
          MaxChanges                \* bound: calls that change something

ASSUME LengthAssumption == {PkLen, SkLen, SigLen} \subseteq [Algs -> Nat \ {0}]

VARIABLES ctx,          \* context -> its fields, or NULL
          pairs,        \* the algorithms of the pairs generated
          signatures,   \* made so far
          changes,      \* counted for the bound
          call          \* ghost: the last call and its result

vars == <<ctx, pairs, signatures, changes, call>>

(* NULL is none of the things it stands in for. *)
Halves == {"pub", "prv"}
KeySet == [alg : Algs, pair : Nat, half : Halves]
SignatureSet == [by : KeySet, data : Data, alg : Algs]
ContextSet == [alg : Algs, pk : KeySet \cup {NULL}, sk : KeySet \cup {NULL},
               hasPub : BOOLEAN, hasPrv : BOOLEAN]

ASSUME NullAssumption == NULL \notin KeySet /\ NULL \notin SignatureSet /\ NULL \notin ContextSet

Key(alg, pair, half) == [alg |-> alg, pair |-> pair, half |-> half]


NoCall == [op |-> "none", ctx |-> NULL, ret |-> "SUCCESS", arg |-> NULL, out |-> NULL,
           data |-> NULL, memory |-> TRUE, room |-> NULL, told |-> NULL]

SetOp(half) == IF half = "pub" THEN "set_pub" ELSE "set_prv"
GetOp(half) == IF half = "pub" THEN "get_pub" ELSE "get_prv"

Called(op, c, ret) == [NoCall EXCEPT !.op = op, !.ctx = c, !.ret = ret]

Init ==
    /\ ctx = [c \in Contexts |-> NULL]
    /\ pairs = << >> /\ signatures = {} /\ changes = 0 /\ call = NoCall

-----------------------------------------------------------------------------
(* Parameters, and what comes of reading and writing one.                  *)
Param(key, type, value, len) == [key |-> key, type |-> type, value |-> value, len |-> len]

(* The lists a caller passes: a parameter alone, behind another, missing.  *)
Other(half) == IF half = "pub" THEN "prv" ELSE "pub"

Lists(half, values) ==
    {<<Param(half, type, value, room)>> :
        type \in {"octets", "int"}, value \in values \cup {NULL}, room \in Rooms}
    \cup {<<Param(Other(half), "octets", value, room), Param(half, "octets", value, room)>> :
              value \in values, room \in Rooms}
    \cup {<< >>}

(* The first with the key; NULL also where its value is missing, since     *)
(* both callers treat the two alike.                                       *)
FindParam(params, key) ==
    LET found == {i \in DOMAIN params : params[i].key = key}
        first == CHOOSE i \in found : \A j \in found : i <= j
    IN  IF found = {} \/ params[first].value = NULL THEN NULL ELSE params[first]

CopyFromParam(len, params, key) ==
    LET p == FindParam(params, key)
    IN  IF p = NULL THEN "NULL_INPUT"
        ELSE IF p.type # "octets" \/ p.len < len THEN "INVALID_ARG" ELSE "SUCCESS"

(* useLen: where the key did not fit, what did. *)
UsedLen(p, len) == IF p.len < len THEN p.len ELSE len

UseLen(p, len) == len

(* The result, and useLen after it. *)
CopyToParam(len, params, key) ==
    LET p == FindParam(params, key)
    IN  IF p = NULL THEN [ret |-> "NULL_INPUT", told |-> NULL]
        ELSE [told |-> UseLen(p, len),
              ret |-> IF p.type # "octets" THEN "INVALID_ARG"
                      ELSE IF p.len < len THEN "TOO_SMALL" ELSE "SUCCESS"]

-----------------------------------------------------------------------------
NewCtx(c, alg, memory) ==
    /\ ctx[c] = NULL
    /\ IF alg \in Algs /\ memory
       THEN /\ ctx' = [ctx EXCEPT ![c] = [alg |-> alg, pk |-> NULL, sk |-> NULL,
                                          hasPub |-> FALSE, hasPrv |-> FALSE]]
            /\ call' = [Called("new", c, "SUCCESS") EXCEPT !.arg = alg]
       ELSE ctx' = ctx /\ call' = Called("new", c, "NULL")
    /\ UNCHANGED <<pairs, signatures>>

FreeCtx(c) ==
    /\ ctx' = [ctx EXCEPT ![c] = NULL]
    /\ call' = Called("free", c, "SUCCESS")
    /\ UNCHANGED <<pairs, signatures>>

(* The keypair functions have no way to fail. *)
GenKey(c) ==
    /\ IF ctx[c] = NULL
       THEN UNCHANGED <<ctx, pairs>> /\ call' = Called("generate", c, "NULL_INPUT")
       ELSE LET alg == ctx[c].alg
                pair == Len(pairs) + 1
            IN  /\ ctx' = [ctx EXCEPT ![c] = [alg |-> alg,
                                pk |-> Key(alg, pair, "pub"), sk |-> Key(alg, pair, "prv"),
                                hasPub |-> TRUE, hasPrv |-> TRUE]]
                /\ pairs' = Append(pairs, alg)
                /\ call' = [Called("generate", c, "SUCCESS") EXCEPT !.arg = Key(alg, pair, "pub")]
    /\ UNCHANGED signatures

(* The flags set before the copy is known to have succeeded. *)
StorePubEagerly(fields, ret, value) ==
    [fields EXCEPT !.hasPub = TRUE, !.pk = IF ret = "SUCCESS" THEN value ELSE @]

StorePub(fields, ret, value) ==
    IF ret = "SUCCESS" THEN [fields EXCEPT !.hasPub = TRUE, !.pk = value] ELSE fields

StorePrv(fields, ret, value) ==
    IF ret = "SUCCESS" THEN [fields EXCEPT !.hasPrv = TRUE, !.sk = value] ELSE fields

(* AigisPkeySetPub and AigisPkeySetPrv *)
Set(c, half, params) ==
    /\ IF ctx[c] = NULL
       THEN ctx' = ctx /\ call' = Called(SetOp(half), c, "NULL_INPUT")
       ELSE LET len == (IF half = "pub" THEN PkLen ELSE SkLen)[ctx[c].alg]
                p == FindParam(params, half)
                ret == CopyFromParam(len, params, half)
                value == IF p = NULL THEN NULL ELSE p.value
            IN  /\ ctx' = [ctx EXCEPT ![c] = IF half = "pub" THEN StorePub(@, ret, value)
                                                             ELSE StorePrv(@, ret, value)]
                /\ call' = [Called(SetOp(half), c, ret) EXCEPT !.arg = value]
    /\ UNCHANGED <<pairs, signatures>>

(* AigisPkeyGetPub and AigisPkeyGetPrv; room is the length of the         *)
(* parameter that is found.                                                *)
Get(c, half, params) ==
    /\ LET has == ctx[c] # NULL /\ (IF half = "pub" THEN ctx[c].hasPub ELSE ctx[c].hasPrv)
       IN  IF ~has
           THEN call' = Called(GetOp(half), c, "KEY_NOT_SET")
           ELSE LET len == (IF half = "pub" THEN PkLen ELSE SkLen)[ctx[c].alg]
                    p == FindParam(params, half)
                    r == CopyToParam(len, params, half)
                IN  call' = [Called(GetOp(half), c, r.ret) EXCEPT
                                !.told = r.told,
                                !.room = IF p = NULL THEN NULL ELSE p.len,
                                !.out = IF r.ret # "SUCCESS" THEN NULL
                                        ELSE IF half = "pub" THEN ctx[c].pk ELSE ctx[c].sk]
    /\ UNCHANGED <<ctx, pairs, signatures>>

(* AigisPkeyCtrl; a uint32_t takes one unit of room. *)
Ctrl(c, cmd, valLen) ==
    /\ call' =
         IF ctx[c] = NULL THEN Called("ctrl", c, "NULL_INPUT")
         ELSE IF valLen < 1 THEN Called("ctrl", c, "TOO_SMALL")
         ELSE CASE cmd = "pub" -> [Called("len_pub", c, "SUCCESS") EXCEPT !.told = PkLen[ctx[c].alg]]
                [] cmd = "prv" -> [Called("len_prv", c, "SUCCESS") EXCEPT !.told = SkLen[ctx[c].alg]]
                [] OTHER -> Called("ctrl", c, "NOT_SUPPORT")
    /\ UNCHANGED <<ctx, pairs, signatures>>

(* The internal functions of Aigis-sig, for signing and for verifying,     *)
(* fail without memory for their buffer.                                   *)
Sign(c, data, room, memory) ==
    /\ LET len == SigLen[ctx[c].alg]
           signature == [by |-> ctx[c].sk, data |-> data, alg |-> ctx[c].alg]
           ret == IF ctx[c] = NULL THEN "NULL_INPUT"
                  ELSE IF ~ctx[c].hasPrv THEN "KEY_NOT_SET"
                  ELSE IF room < len THEN "TOO_SMALL"
                  ELSE IF ~memory THEN "INVALID_ARG" ELSE "SUCCESS"
           ok == ret = "SUCCESS"
       IN  /\ call' = [Called("sign", c, ret) EXCEPT
                           !.room = room, !.data = data,
                           !.told = IF ok \/ ret = "TOO_SMALL" THEN len ELSE NULL,
                           !.out = IF ok THEN signature ELSE NULL]
           /\ signatures' = IF ok THEN signatures \cup {signature} ELSE signatures
    /\ UNCHANGED <<ctx, pairs>>

(* What crypto_sign_verify accepts: a whole signature of the algorithm,    *)
(* for the data, under the other half of the public key.                   *)
Accepts(alg, pk, data, signature) ==
    /\ signature.alg = alg /\ signature.data = data
    /\ signature.by = Key(alg, pk.pair, "prv") /\ pk = Key(alg, pk.pair, "pub")

Verify(c, data, signature, len, memory) ==
    /\ LET ret == IF ctx[c] = NULL THEN "NULL_INPUT"
                  ELSE IF ~ctx[c].hasPub THEN "KEY_NOT_SET"
                  ELSE IF len # SigLen[ctx[c].alg] THEN "INVALID_ARG"
                  ELSE IF memory /\ Accepts(ctx[c].alg, ctx[c].pk, data, signature)
                  THEN "SUCCESS" ELSE "VERIFY_FAIL"
       IN  call' = [Called("verify", c, ret) EXCEPT
                       !.arg = signature, !.data = data, !.memory = memory]
    /\ UNCHANGED <<ctx, pairs, signatures>>

(* The keys that callers hold, from GETPUB and GETPRV. *)
Held == {Key(pairs[i], i, half) : i \in DOMAIN pairs, half \in Halves}

Manage(c) ==
    \/ \E alg \in Algs \cup {"other"}, memory \in BOOLEAN : NewCtx(c, alg, memory)
    \/ FreeCtx(c)
    \/ GenKey(c)
    \/ \E half \in Halves :
           \/ \E params \in Lists(half, Held) : Set(c, half, params)
           \/ \E params \in Lists(half, {"buffer"}) : Get(c, half, params)
    \/ \E cmd \in {"pub", "prv", "other"}, room \in Rooms : Ctrl(c, cmd, room)

Use(c) ==
    \E data \in Data, room \in Rooms, memory \in BOOLEAN :
        \/ Sign(c, data, room, memory)
        \/ \E signature \in signatures : Verify(c, data, signature, room, memory)

Next ==
    /\ \E c \in Contexts : Manage(c) \/ Use(c)
    /\ changes' = IF UNCHANGED <<ctx, signatures>> THEN changes ELSE changes + 1
    /\ changes' <= MaxChanges

Spec == Init /\ [][Next]_vars

-----------------------------------------------------------------------------
(* What a context stores: a buffer counts where its flag is set. *)
StoredAlg == [c \in Contexts |-> IF ctx[c] = NULL THEN NULL ELSE ctx[c].alg]
StoredPub == [c \in Contexts |-> IF ctx[c] # NULL /\ ctx[c].hasPub THEN ctx[c].pk ELSE NULL]
StoredPrv == [c \in Contexts |-> IF ctx[c] # NULL /\ ctx[c].hasPrv THEN ctx[c].sk ELSE NULL]

(* Whatever succeeds and fails, the flags and buffers of a context are a   *)
(* store of two keys: a failed call leaves the key there was, a successful *)
(* one takes effect whole, and a signature verifies exactly under the      *)
(* other half of the key it was made with.                                 *)
Store == INSTANCE KeyStore WITH alg <- StoredAlg, pub <- StoredPub, prv <- StoredPrv
ImplementsKeyStore == Store!Spec

(* A length that a call reports, refused or not, is enough room for the    *)
(* call it was reported for.                                               *)
Follows(op, next) ==
    \/ op = next
    \/ <<op, next>> \in {<<"len_pub", "get_pub">>, <<"len_prv", "get_prv">>}

LengthToldSuffices ==
    [][/\ call.told # NULL
       /\ call'.ctx = call.ctx /\ Follows(call.op, call'.op) /\ call'.room = call.told
       => call'.ret # "TOO_SMALL"]_vars

=============================================================================
