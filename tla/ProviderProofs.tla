--------------------------- MODULE ProviderProofs ---------------------------
(* That the provider implements KeyStore, and that the lengths it reports    *)
(* suffice: for any contexts, algorithms, lengths and number of calls.     *)
EXTENDS Provider, TLAPS

(* What the refinement needs of a state: the buffers and signatures have   *)
(* their types, and a flagged buffer holds a key.                          *)
Flagged(fields) ==
    /\ fields.hasPub => fields.pk \in KeySet
    /\ fields.hasPrv => fields.sk \in KeySet

ContextInv ==
    /\ ctx \in [Contexts -> ContextSet \cup {NULL}]
    /\ \A c \in Contexts : ctx[c] # NULL => Flagged(ctx[c])

IInv == ContextInv /\ pairs \in Seq(Algs) /\ signatures \subseteq SignatureSet

-----------------------------------------------------------------------------
(* How the stored keys follow the fields of a context. *)
LEMMA StoredAfter ==
    ASSUME ContextInv, NEW c \in Contexts, NEW fields \in ContextSet \cup {NULL},
           ctx' = [ctx EXCEPT ![c] = fields]
    PROVE  /\ StoredAlg' = [StoredAlg EXCEPT ![c] = IF fields = NULL THEN NULL ELSE fields.alg]
           /\ StoredPub' = [StoredPub EXCEPT
                  ![c] = IF fields # NULL /\ fields.hasPub THEN fields.pk ELSE NULL]
           /\ StoredPrv' = [StoredPrv EXCEPT
                  ![c] = IF fields # NULL /\ fields.hasPrv THEN fields.sk ELSE NULL]
BY DEF StoredAlg, StoredPub, StoredPrv, ContextInv

LEMMA StoredSame ==
    ASSUME ctx' = ctx
    PROVE  StoredAlg' = StoredAlg /\ StoredPub' = StoredPub /\ StoredPrv' = StoredPrv
BY DEF StoredAlg, StoredPub, StoredPrv

(* The invariant follows the fields in the same way. *)
LEMMA InvAfter ==
    ASSUME ContextInv, NEW c \in Contexts, NEW fields \in ContextSet \cup {NULL},
           fields # NULL => Flagged(fields),
           ctx' = [ctx EXCEPT ![c] = fields]
    PROVE  ContextInv'
BY DEF ContextInv

(* A refused call, in the terms of KeyStore. *)
LEMMA Refused ==
    ASSUME NEW c \in Contexts, call'.ctx = c, ctx' = ctx,
           call'.ret # "SUCCESS", call'.ret # "VERIFY_FAIL", call'.out = NULL
    PROVE  Store!Next
<1>1. Store!Refuse(c)
  BY StoredSame DEF Store!Refuse, Store!Succeeded, Store!Keep
<1>2. QED BY <1>1 DEF Store!Next

-----------------------------------------------------------------------------
(* One lemma per call: the step is one of KeyStore, and keeps IInv. *)
LEMMA NewCtxStep ==
    ASSUME IInv, NEW c \in Contexts, NEW alg, NEW memory \in BOOLEAN, NewCtx(c, alg, memory)
    PROVE  Store!Next /\ IInv'
<1>1. CASE alg \in Algs /\ memory
  <2> DEFINE fields == [alg |-> alg, pk |-> NULL, sk |-> NULL, hasPub |-> FALSE, hasPrv |-> FALSE]
  <2>1. fields \in ContextSet /\ fields # NULL /\ Flagged(fields)
    <3>1. fields \in ContextSet
      BY <1>1 DEF ContextSet
    <3>2. Flagged(fields)
      BY DEF Flagged
    <3>3. QED BY <3>1, <3>2, NullAssumption
  <2>2. /\ ctx' = [ctx EXCEPT ![c] = fields] /\ UNCHANGED <<pairs, signatures>>
        /\ call'.op = "new" /\ call'.ctx = c /\ call'.ret = "SUCCESS" /\ call'.arg = alg
    BY <1>1 DEF NewCtx, Called, NoCall
  <2> HIDE DEF fields
  <2>3. /\ StoredAlg' = [StoredAlg EXCEPT ![c] = fields.alg]
        /\ StoredPub' = [StoredPub EXCEPT ![c] = NULL]
        /\ StoredPrv' = [StoredPrv EXCEPT ![c] = NULL]
    <3>1. fields # NULL /\ ~fields.hasPub /\ ~fields.hasPrv
      BY <2>1 DEF fields
    <3>2. QED BY <2>1, <2>2, <3>1, StoredAfter DEF IInv
  <2>4. fields.alg = alg
    BY DEF fields
  <2>5. Store!NewOrFree(c)
    BY <2>2, <2>3, <2>4 DEF Store!NewOrFree, Store!Store
  <2>6. Store!Next
    BY <2>2, <2>5 DEF Store!Next, Store!Succeeded
  <2>7. ContextInv'
    BY <2>1, <2>2, InvAfter DEF IInv
  <2>8. QED BY <2>2, <2>6, <2>7 DEF IInv
<1>2. CASE ~(alg \in Algs /\ memory)
  <2>1. /\ UNCHANGED <<ctx, pairs, signatures>>
        /\ call'.ctx = c /\ call'.ret = "NULL" /\ call'.out = NULL
    BY <1>2 DEF NewCtx, Called, NoCall
  <2>2. QED BY <2>1, Refused DEF IInv, ContextInv
<1>3. QED BY <1>1, <1>2

LEMMA FreeCtxStep ==
    ASSUME IInv, NEW c \in Contexts, FreeCtx(c)
    PROVE  Store!Next /\ IInv'
<1>1. /\ ctx' = [ctx EXCEPT ![c] = NULL] /\ UNCHANGED <<pairs, signatures>>
      /\ call'.op = "free" /\ call'.ctx = c /\ call'.ret = "SUCCESS" /\ call'.arg = NULL
  BY DEF FreeCtx, Called, NoCall
<1>2. /\ StoredAlg' = [StoredAlg EXCEPT ![c] = NULL]
      /\ StoredPub' = [StoredPub EXCEPT ![c] = NULL]
      /\ StoredPrv' = [StoredPrv EXCEPT ![c] = NULL]
  BY <1>1, StoredAfter DEF IInv
<1>3. Store!NewOrFree(c)
  BY <1>1, <1>2 DEF Store!NewOrFree, Store!Store
<1>4. Store!Next
  BY <1>1, <1>3 DEF Store!Next, Store!Succeeded
<1>5. ContextInv'
  BY <1>1, InvAfter DEF IInv
<1>6. QED BY <1>1, <1>4, <1>5 DEF IInv

LEMMA GenKeyStep ==
    ASSUME IInv, NEW c \in Contexts, GenKey(c)
    PROVE  Store!Next /\ IInv'
<1>1. CASE ctx[c] = NULL
  <2>1. /\ UNCHANGED <<ctx, pairs, signatures>>
        /\ call'.ctx = c /\ call'.ret = "NULL_INPUT" /\ call'.out = NULL
    BY <1>1 DEF GenKey, Called, NoCall
  <2>2. QED BY <2>1, Refused DEF IInv, ContextInv
<1>2. CASE ctx[c] # NULL
  <2> DEFINE alg == ctx[c].alg
             pair == Len(pairs) + 1
             fields == [alg |-> alg, pk |-> Key(alg, pair, "pub"), sk |-> Key(alg, pair, "prv"),
                        hasPub |-> TRUE, hasPrv |-> TRUE]
  <2>1. alg \in Algs /\ pair \in Nat
    BY <1>2 DEF IInv, ContextInv, ContextSet
  <2>2. /\ ctx' = [ctx EXCEPT ![c] = fields] /\ pairs' = Append(pairs, alg)
        /\ signatures' = signatures
        /\ call'.op = "generate" /\ call'.ctx = c /\ call'.ret = "SUCCESS"
        /\ call'.arg = Key(alg, pair, "pub")
    BY <1>2 DEF GenKey, Called, NoCall
  <2> HIDE DEF alg, pair
  <2>3. /\ Key(alg, pair, "pub") \in KeySet /\ Key(alg, pair, "prv") \in KeySet
        /\ Store!Half(Key(alg, pair, "pub"), "pub") = Key(alg, pair, "pub")
        /\ Store!Half(Key(alg, pair, "pub"), "prv") = Key(alg, pair, "prv")
    BY <2>1 DEF Key, KeySet, Halves, Store!Half
  <2>4. /\ fields \in ContextSet /\ fields # NULL /\ Flagged(fields)
        /\ fields.alg = alg /\ fields.pk = Key(alg, pair, "pub") /\ fields.sk = Key(alg, pair, "prv")
        /\ fields.hasPub /\ fields.hasPrv
    <3>1. fields \in ContextSet
      BY <2>1, <2>3 DEF ContextSet
    <3>2. Flagged(fields)
      BY <2>3 DEF Flagged
    <3>3. QED BY <3>1, <3>2, NullAssumption
  <2> HIDE DEF fields
  <2>5. /\ StoredAlg' = [StoredAlg EXCEPT ![c] = alg]
        /\ StoredPub' = [StoredPub EXCEPT ![c] = Key(alg, pair, "pub")]
        /\ StoredPrv' = [StoredPrv EXCEPT ![c] = Key(alg, pair, "prv")]
    BY <2>2, <2>4, StoredAfter DEF IInv
  <2>6. StoredAlg' = StoredAlg
    BY <1>2, <2>5 DEF StoredAlg, alg
  <2>7. Store!Generate(c)
    BY <2>2, <2>3, <2>5, <2>6 DEF Store!Generate, Store!Store
  <2>8. Store!Next
    BY <2>2, <2>7 DEF Store!Next, Store!Succeeded
  <2>9. ContextInv'
    BY <2>2, <2>4, InvAfter DEF IInv
  <2>10. QED BY <2>1, <2>2, <2>8, <2>9 DEF IInv
<1>3. QED BY <1>1, <1>2

(* A parameter that is found has one of the caller's values. *)
LEMMA FoundValue ==
    ASSUME NEW values, NEW half, NEW params \in Lists(half, values), FindParam(params, half) # NULL
    PROVE  FindParam(params, half).value \in values
<1> DEFINE found == {i \in DOMAIN params : params[i].key = half}
           first == CHOOSE i \in found : \A j \in found : i <= j
<1>1. found # {} /\ params[first].value # NULL /\ FindParam(params, half) = params[first]
  BY DEF FindParam
<1>2. DOMAIN params \subseteq {1, 2} /\ \A i \in DOMAIN params : params[i].value \in values \cup {NULL}
  BY DEF Lists, Param
<1>3. \E i \in found : \A j \in found : i <= j
  BY <1>1, <1>2
<1>4. first \in found
  BY <1>3
<1>5. QED BY <1>1, <1>2, <1>4

LEMMA HeldKeys == ASSUME IInv PROVE Held \subseteq KeySet
BY DEF IInv, Held, Key, KeySet

LEMMA SetStep ==
    ASSUME IInv, NEW c \in Contexts, NEW half \in Halves, NEW params \in Lists(half, Held),
           Set(c, half, params)
    PROVE  Store!Next /\ IInv'
<1> DEFINE len == (IF half = "pub" THEN PkLen ELSE SkLen)[ctx[c].alg]
           p == FindParam(params, half)
           ret == CopyFromParam(len, params, half)
           value == IF p = NULL THEN NULL ELSE p.value
<1>1. CASE ctx[c] = NULL
  <2>1. /\ UNCHANGED <<ctx, pairs, signatures>>
        /\ call'.ctx = c /\ call'.ret = "NULL_INPUT" /\ call'.out = NULL
    BY <1>1 DEF Set, Called, NoCall
  <2>2. QED BY <2>1, Refused DEF IInv, ContextInv
<1>2. CASE ctx[c] # NULL
  <2>1. /\ ctx' = [ctx EXCEPT ![c] = IF half = "pub" THEN StorePub(ctx[c], ret, value)
                                                    ELSE StorePrv(ctx[c], ret, value)]
        /\ UNCHANGED <<pairs, signatures>>
        /\ call'.op = SetOp(half) /\ call'.ctx = c /\ call'.ret = ret
        /\ call'.arg = value /\ call'.out = NULL
    BY <1>2 DEF Set, Called, NoCall
  <2>2. /\ ret \in {"NULL_INPUT", "INVALID_ARG", "SUCCESS"}
        /\ ret = "SUCCESS" => p # NULL
    BY DEF CopyFromParam
  <2>3. p # NULL => value \in KeySet
    BY FoundValue, HeldKeys
  <2>4. ctx[c] \in ContextSet /\ Flagged(ctx[c])
    BY <1>2 DEF IInv, ContextInv
  <2> HIDE DEF len, p, ret, value
  <2>5. CASE ret # "SUCCESS"
    <3>1. ctx' = ctx
      BY <2>1, <2>5 DEF StorePub, StorePrv, IInv, ContextInv
    <3>2. QED BY <2>1, <2>2, <2>5, <3>1, Refused DEF IInv, ContextInv
  <2>6. CASE ret = "SUCCESS" /\ half = "pub"
    <3> DEFINE fields == [ctx[c] EXCEPT !.hasPub = TRUE, !.pk = value]
    <3>1. /\ fields \in ContextSet /\ Flagged(fields)
          /\ fields.hasPub /\ fields.pk = value /\ fields.alg = ctx[c].alg
          /\ fields.hasPrv = ctx[c].hasPrv /\ fields.sk = ctx[c].sk
      BY <2>2, <2>3, <2>4, <2>6 DEF ContextSet, Flagged
    <3>2. ctx' = [ctx EXCEPT ![c] = fields] /\ call'.op = "set_pub" /\ call'.ret = "SUCCESS"
      BY <2>1, <2>6 DEF StorePub, SetOp
    <3>3. fields # NULL
      BY <3>1, NullAssumption
    <3> HIDE DEF fields
    <3>4. /\ StoredAlg' = [StoredAlg EXCEPT ![c] = ctx[c].alg]
          /\ StoredPub' = [StoredPub EXCEPT ![c] = value]
          /\ StoredPrv' = [StoredPrv EXCEPT ![c] = IF ctx[c].hasPrv THEN ctx[c].sk ELSE NULL]
      BY <3>1, <3>2, <3>3, StoredAfter DEF IInv
    <3>5. StoredAlg' = StoredAlg /\ StoredPrv[c] = IF ctx[c].hasPrv THEN ctx[c].sk ELSE NULL
      BY <1>2, <3>4 DEF StoredAlg, StoredPrv
    <3>6. Store!Set(c)
      BY <2>1, <3>2, <3>4, <3>5 DEF Store!Set, Store!Store
    <3>7. Store!Next
      BY <2>1, <3>2, <3>6 DEF Store!Next, Store!Succeeded
    <3>8. ContextInv'
      BY <3>1, <3>2, InvAfter DEF IInv
    <3>9. QED BY <2>1, <3>7, <3>8 DEF IInv
  <2>7. CASE ret = "SUCCESS" /\ half = "prv"
    <3> DEFINE fields == [ctx[c] EXCEPT !.hasPrv = TRUE, !.sk = value]
    <3>1. /\ fields \in ContextSet /\ Flagged(fields)
          /\ fields.hasPrv /\ fields.sk = value /\ fields.alg = ctx[c].alg
          /\ fields.hasPub = ctx[c].hasPub /\ fields.pk = ctx[c].pk
      BY <2>2, <2>3, <2>4, <2>7 DEF ContextSet, Flagged
    <3>2. ctx' = [ctx EXCEPT ![c] = fields] /\ call'.op = "set_prv" /\ call'.ret = "SUCCESS"
      BY <2>1, <2>7 DEF StorePrv, SetOp
    <3>3. fields # NULL
      BY <3>1, NullAssumption
    <3> HIDE DEF fields
    <3>4. /\ StoredAlg' = [StoredAlg EXCEPT ![c] = ctx[c].alg]
          /\ StoredPub' = [StoredPub EXCEPT ![c] = IF ctx[c].hasPub THEN ctx[c].pk ELSE NULL]
          /\ StoredPrv' = [StoredPrv EXCEPT ![c] = value]
      BY <3>1, <3>2, <3>3, StoredAfter DEF IInv
    <3>5. StoredAlg' = StoredAlg /\ StoredPub[c] = IF ctx[c].hasPub THEN ctx[c].pk ELSE NULL
      BY <1>2, <3>4 DEF StoredAlg, StoredPub
    <3>6. Store!Set(c)
      BY <2>1, <3>2, <3>4, <3>5 DEF Store!Set, Store!Store
    <3>7. Store!Next
      BY <2>1, <3>2, <3>6 DEF Store!Next, Store!Succeeded
    <3>8. ContextInv'
      BY <3>1, <3>2, InvAfter DEF IInv
    <3>9. QED BY <2>1, <3>7, <3>8 DEF IInv
  <2>8. QED BY <2>5, <2>6, <2>7 DEF Halves
<1>3. QED BY <1>1, <1>2

LEMMA GetStep ==
    ASSUME IInv, NEW c \in Contexts, NEW half \in Halves, NEW params, Get(c, half, params)
    PROVE  Store!Next /\ IInv'
<1> DEFINE has == ctx[c] # NULL /\ (IF half = "pub" THEN ctx[c].hasPub ELSE ctx[c].hasPrv)
           len == (IF half = "pub" THEN PkLen ELSE SkLen)[ctx[c].alg]
           r == CopyToParam(len, params, half)
           key == IF half = "pub" THEN ctx[c].pk ELSE ctx[c].sk
<1>1. UNCHANGED <<ctx, pairs, signatures>> /\ IInv'
  BY DEF Get, IInv, ContextInv
<1>2. CASE ~has
  <2>1. call'.ctx = c /\ call'.ret = "KEY_NOT_SET" /\ call'.out = NULL
    BY <1>2 DEF Get, Called, NoCall
  <2>2. QED BY <1>1, <2>1, Refused
<1>3. CASE has
  <2>1. /\ call'.op = GetOp(half) /\ call'.ctx = c /\ call'.ret = r.ret
        /\ call'.out = IF r.ret # "SUCCESS" THEN NULL ELSE key
    BY <1>3 DEF Get, Called, NoCall
  <2>2. r.ret \in {"NULL_INPUT", "INVALID_ARG", "TOO_SMALL", "SUCCESS"}
    BY DEF CopyToParam
  <2>3. /\ key \in KeySet
        /\ half = "pub" => StoredPub[c] = key
        /\ half = "prv" => StoredPrv[c] = key
    BY <1>3 DEF StoredPub, StoredPrv, IInv, ContextInv, Flagged, Halves
  <2> HIDE DEF has, len, r, key
  <2>4. CASE r.ret # "SUCCESS"
    BY <1>1, <2>1, <2>2, <2>4, Refused
  <2>5. CASE r.ret = "SUCCESS"
    <3>1. key # NULL
      BY <2>3, NullAssumption
    <3>2. Store!Get(c)
      BY <1>1, <2>1, <2>3, <2>5, <3>1, StoredSame DEF Store!Get, Store!Keep, GetOp, Halves
    <3>3. QED BY <1>1, <2>1, <2>5, <3>2 DEF Store!Next, Store!Succeeded
  <2>6. QED BY <2>4, <2>5
<1>4. QED BY <1>2, <1>3

LEMMA CtrlStep ==
    ASSUME IInv, NEW c \in Contexts, NEW cmd, NEW room, Ctrl(c, cmd, room)
    PROVE  Store!Next /\ IInv'
<1>1. UNCHANGED <<ctx, pairs, signatures>> /\ IInv'
  BY DEF Ctrl, IInv, ContextInv
<1>2. CASE ctx[c] # NULL /\ ~(room < 1) /\ cmd \in {"pub", "prv"}
  <2>1. call'.ctx = c /\ call'.ret = "SUCCESS" /\ call'.op \in {"len_pub", "len_prv"}
    BY <1>2 DEF Ctrl, Called, NoCall
  <2>2. Store!Keep
    BY <1>1, StoredSame DEF Store!Keep
  <2>3. QED BY <1>1, <2>1, <2>2 DEF Store!Next, Store!Succeeded
<1>3. CASE ~(ctx[c] # NULL /\ ~(room < 1) /\ cmd \in {"pub", "prv"})
  <2>1. /\ call'.ctx = c /\ call'.out = NULL
        /\ call'.ret \in {"NULL_INPUT", "TOO_SMALL", "NOT_SUPPORT"}
    BY <1>3 DEF Ctrl, Called, NoCall
  <2>2. QED BY <1>1, <2>1, Refused
<1>4. QED BY <1>2, <1>3

LEMMA SignStep ==
    ASSUME IInv, NEW c \in Contexts, NEW data \in Data, NEW room, NEW memory \in BOOLEAN,
           Sign(c, data, room, memory)
    PROVE  Store!Next /\ IInv'
<1> DEFINE signature == [by |-> ctx[c].sk, data |-> data, alg |-> ctx[c].alg]
<1>1. UNCHANGED <<ctx, pairs>>
  BY DEF Sign
<1>2. CASE call'.ret = "SUCCESS"
  <2>1. /\ ctx[c] # NULL /\ ctx[c].hasPrv
        /\ call'.op = "sign" /\ call'.ctx = c /\ call'.data = data /\ call'.out = signature
        /\ signatures' = signatures \cup {signature}
    BY <1>2 DEF Sign, Called, NoCall
  <2>2. ctx[c].sk \in KeySet /\ ctx[c].alg \in Algs /\ StoredPrv[c] = ctx[c].sk
    BY <2>1 DEF IInv, ContextInv, ContextSet, Flagged, StoredPrv
  <2>3. signature \in SignatureSet
    BY <2>2 DEF SignatureSet
  <2>4. StoredPrv[c] # NULL
    BY <2>2, NullAssumption
  <2>5. Store!Sign(c)
    BY <1>1, <2>1, <2>2, <2>4, StoredSame DEF Store!Sign, Store!Keep
  <2>6. Store!Next
    BY <1>2, <2>1, <2>5 DEF Store!Next, Store!Succeeded
  <2>7. QED BY <1>1, <2>1, <2>3, <2>6 DEF IInv, ContextInv
<1>3. CASE call'.ret # "SUCCESS"
  <2>1. /\ signatures' = signatures /\ call'.ctx = c /\ call'.out = NULL
        /\ call'.ret \in {"NULL_INPUT", "KEY_NOT_SET", "TOO_SMALL", "INVALID_ARG"}
    BY <1>3 DEF Sign, Called, NoCall
  <2>2. QED BY <1>1, <1>3, <2>1, Refused DEF IInv, ContextInv
<1>4. QED BY <1>2, <1>3

(* A verdict of the scheme on a key that is set is what KeyStore asks for. *)
LEMMA Verdict ==
    ASSUME IInv, NEW c \in Contexts, ctx[c] # NULL, ctx[c].hasPub, NEW signature \in signatures
    PROVE  Accepts(ctx[c].alg, ctx[c].pk, call'.data, signature) <=> Store!Genuine(c, signature)
<1> DEFINE alg == ctx[c].alg
           pk == ctx[c].pk
           by == signature.by
<1>1. /\ alg \in Algs /\ pk \in KeySet
      /\ by \in KeySet /\ signature.alg \in Algs
      /\ StoredAlg[c] = alg /\ StoredPub[c] = pk
  BY DEF IInv, ContextInv, ContextSet, Flagged, SignatureSet, StoredAlg, StoredPub
<1> HIDE DEF alg, pk, by
<1>2. by = Key(alg, pk.pair, "prv") /\ pk = Key(alg, pk.pair, "pub")
      <=> by.alg = alg /\ by.half = "prv" /\ pk = [by EXCEPT !.half = "pub"]
  BY <1>1 DEF Key, KeySet
<1>3. Accepts(alg, pk, call'.data, signature)
      <=> /\ signature.alg = alg /\ signature.data = call'.data
          /\ by = Key(alg, pk.pair, "prv") /\ pk = Key(alg, pk.pair, "pub")
  BY DEF Accepts, by
<1>4. Store!Genuine(c, signature)
      <=> /\ signature.alg = alg /\ by.alg = alg /\ signature.data = call'.data
          /\ by.half = "prv" /\ pk = [by EXCEPT !.half = "pub"]
  BY <1>1 DEF Store!Genuine, Store!Half, by
<1>5. QED BY <1>2, <1>3, <1>4 DEF alg, pk

LEMMA VerifyStep ==
    ASSUME IInv, NEW c \in Contexts, NEW data \in Data, NEW signature \in signatures,
           NEW len, NEW memory \in BOOLEAN, Verify(c, data, signature, len, memory)
    PROVE  Store!Next /\ IInv'
<1>1. /\ UNCHANGED <<ctx, pairs, signatures>> /\ IInv' /\ Store!Keep
      /\ call'.op = "verify" /\ call'.ctx = c /\ call'.arg = signature /\ call'.out = NULL
      /\ call'.data = data /\ call'.memory = memory
  <2>1. UNCHANGED <<ctx, pairs, signatures>>
    BY DEF Verify
  <2>2. IInv' /\ Store!Keep
    BY <2>1, StoredSame DEF IInv, ContextInv, Store!Keep
  <2>3. QED BY <2>1, <2>2 DEF Verify, Called, NoCall
<1>2. CASE call'.ret \in {"SUCCESS", "VERIFY_FAIL"}
  <2>1. /\ ctx[c] # NULL /\ ctx[c].hasPub
        /\ call'.ret = "SUCCESS" <=> memory /\ Accepts(ctx[c].alg, ctx[c].pk, data, signature)
    BY <1>2 DEF Verify, Called, NoCall
  <2>2. call'.ret = "SUCCESS" <=> memory /\ Store!Genuine(c, signature)
    BY <1>1, <2>1, Verdict
  <2>3. CASE call'.ret = "SUCCESS"
    <3>1. Store!Verify(c)
      BY <1>1, <2>2, <2>3 DEF Store!Verify
    <3>2. QED BY <1>1, <2>3, <3>1 DEF Store!Next, Store!Succeeded
  <2>4. CASE call'.ret = "VERIFY_FAIL"
    <3>1. Store!Refuse(c)
      BY <1>1, <2>2, <2>4 DEF Store!Refuse, Store!Succeeded
    <3>2. QED BY <1>1, <3>1 DEF Store!Next
  <2>5. QED BY <1>2, <2>3, <2>4
<1>3. CASE call'.ret \notin {"SUCCESS", "VERIFY_FAIL"}
  BY <1>1, <1>3, Refused
<1>4. QED BY <1>2, <1>3

-----------------------------------------------------------------------------
LEMMA Start == Init => Store!Init /\ IInv
<1> SUFFICES ASSUME Init PROVE Store!Init /\ IInv
  OBVIOUS
<1>1. Store!Init
  BY DEF Init, Store!Init, Store!NoKeys, StoredAlg, StoredPub, StoredPrv
<1>2. IInv
  BY DEF Init, IInv, ContextInv
<1>3. QED BY <1>1, <1>2

LEMMA Step == IInv /\ [Next]_vars => IInv' /\ [Store!Next]_<<StoredAlg, StoredPub, StoredPrv, call>>
<1> SUFFICES ASSUME IInv, [Next]_vars
             PROVE  IInv' /\ [Store!Next]_<<StoredAlg, StoredPub, StoredPrv, call>>
  OBVIOUS
<1>1. CASE UNCHANGED vars
  <2>1. IInv'
    BY <1>1 DEF vars, IInv, ContextInv
  <2>2. UNCHANGED <<StoredAlg, StoredPub, StoredPrv, call>>
    BY <1>1, StoredSame DEF vars
  <2>3. QED BY <2>1, <2>2
<1>2. CASE Next
  <2>1. PICK c \in Contexts : Manage(c) \/ Use(c)
    BY <1>2 DEF Next
  <2>2. CASE \E alg \in Algs \cup {"other"}, memory \in BOOLEAN : NewCtx(c, alg, memory)
    BY <2>2, NewCtxStep
  <2>3. CASE FreeCtx(c)
    BY <2>3, FreeCtxStep
  <2>4. CASE GenKey(c)
    BY <2>4, GenKeyStep
  <2>5. CASE \E half \in Halves : \E params \in Lists(half, Held) : Set(c, half, params)
    BY <2>5, SetStep
  <2>6. CASE \E half \in Halves : \E params \in Lists(half, {"buffer"}) : Get(c, half, params)
    BY <2>6, GetStep
  <2>7. CASE \E cmd \in {"pub", "prv", "other"}, room \in Rooms : Ctrl(c, cmd, room)
    BY <2>7, CtrlStep
  <2>8. CASE Use(c)
    BY <2>8, SignStep, VerifyStep DEF Use
  <2>9. QED BY <2>1, <2>2, <2>3, <2>4, <2>5, <2>6, <2>7, <2>8 DEF Manage
<1>3. QED BY <1>1, <1>2

(* In every order of calls, on any number of contexts, the provider is the *)
(* key store of KeyStore: no failed call disturbs a key, and a signature   *)
(* verifies exactly under the other half of the key it was made with.      *)
THEOREM ProviderIsKeyStore == Spec => ImplementsKeyStore
BY Start, Step, PTL DEF Spec, ImplementsKeyStore, Store!Spec

-----------------------------------------------------------------------------
(* The lengths: what a call reports is the length its successor needs.     *)
Asking == {"len_pub", "len_prv", "get_pub", "get_prv", "sign"}

LengthFor(op, alg) ==
    IF op \in {"len_pub", "get_pub"} THEN PkLen[alg]
    ELSE IF op \in {"len_prv", "get_prv"} THEN SkLen[alg] ELSE SigLen[alg]

ToldInv ==
    call.told # NULL =>
        /\ call.op \in Asking /\ call.ctx \in Contexts /\ ctx[call.ctx] # NULL
        /\ call.told = LengthFor(call.op, ctx[call.ctx].alg)

(* A call refused for room was given less than the length it needs.        *)
ShortOfRoom(c) ==
    call'.ret = "TOO_SMALL" /\ call'.op \in Asking =>
        call'.ctx = c /\ ctx[c] # NULL /\ call'.room < LengthFor(call'.op, ctx[c].alg)

(* What reports no length tells nothing wrong. *)
LEMMA Silent ==
    ASSUME NEW c \in Contexts, call'.told = NULL, call'.ret # "TOO_SMALL"
    PROVE  ToldInv' /\ ShortOfRoom(c)
BY DEF ToldInv, ShortOfRoom

LEMMA GetTold ==
    ASSUME IInv, NEW c \in Contexts, NEW half \in Halves, NEW params, Get(c, half, params)
    PROVE  ToldInv' /\ ShortOfRoom(c)
<1> DEFINE has == ctx[c] # NULL /\ (IF half = "pub" THEN ctx[c].hasPub ELSE ctx[c].hasPrv)
           len == (IF half = "pub" THEN PkLen ELSE SkLen)[ctx[c].alg]
           p == FindParam(params, half)
           r == CopyToParam(len, params, half)
<1>1. CASE ~has
  BY <1>1, Silent DEF Get, Called, NoCall
<1>2. CASE has
  <2>1. /\ ctx' = ctx /\ call'.op = GetOp(half) /\ call'.ctx = c
        /\ call'.ret = r.ret /\ call'.told = r.told
        /\ call'.room = IF p = NULL THEN NULL ELSE p.len
    BY <1>2 DEF Get, Called, NoCall
  <2>2. /\ r.told \in {NULL, len}
        /\ r.ret = "TOO_SMALL" => p # NULL /\ p.len < len
    BY DEF CopyToParam, UseLen
  <2>3. len = LengthFor(GetOp(half), ctx[c].alg) /\ GetOp(half) \in Asking
    BY DEF LengthFor, GetOp, Asking, Halves
  <2> HIDE DEF has, len, p, r
  <2>4. ctx[c] # NULL
    BY <1>2 DEF has
  <2> QED  BY <2>1, <2>2, <2>3, <2>4 DEF ToldInv, ShortOfRoom
<1> QED  BY <1>1, <1>2

LEMMA CtrlTold ==
    ASSUME IInv, NEW c \in Contexts, NEW cmd, NEW room, Ctrl(c, cmd, room)
    PROVE  ToldInv' /\ ShortOfRoom(c)
<1>1. CASE ctx[c] # NULL /\ ~(room < 1) /\ cmd \in {"pub", "prv"}
  <2>1. /\ ctx' = ctx /\ call'.ctx = c /\ call'.ret = "SUCCESS"
        /\ call'.op \in {"len_pub", "len_prv"}
        /\ call'.told = LengthFor(call'.op, ctx[c].alg)
    BY <1>1 DEF Ctrl, Called, NoCall, LengthFor
  <2> QED  BY <1>1, <2>1 DEF ToldInv, ShortOfRoom, Asking
<1>2. CASE ~(ctx[c] # NULL /\ ~(room < 1) /\ cmd \in {"pub", "prv"})
  <2>1. call'.told = NULL /\ call'.op = "ctrl"
    BY <1>2 DEF Ctrl, Called, NoCall
  <2> QED  BY <2>1 DEF ToldInv, ShortOfRoom, Asking
<1> QED  BY <1>1, <1>2

LEMMA SignTold ==
    ASSUME IInv, NEW c \in Contexts, NEW data \in Data, NEW room, NEW memory \in BOOLEAN,
           Sign(c, data, room, memory)
    PROVE  ToldInv' /\ ShortOfRoom(c)
<1>1. ctx' = ctx /\ call'.op = "sign" /\ call'.ctx = c /\ call'.room = room
  BY DEF Sign, Called, NoCall
<1>2. CASE call'.ret \in {"SUCCESS", "TOO_SMALL"}
  <2>1. /\ ctx[c] # NULL /\ call'.told = SigLen[ctx[c].alg]
        /\ call'.ret = "TOO_SMALL" => room < SigLen[ctx[c].alg]
    BY <1>2 DEF Sign, Called, NoCall
  <2> QED  BY <1>1, <2>1 DEF ToldInv, ShortOfRoom, LengthFor, Asking
<1>3. CASE call'.ret \notin {"SUCCESS", "TOO_SMALL"}
  <2>1. call'.told = NULL
    BY <1>3 DEF Sign, Called, NoCall
  <2> QED  BY <1>3, <2>1, Silent
<1> QED  BY <1>2, <1>3

LEMMA ToldStep ==
    ASSUME IInv, NEW c \in Contexts, Manage(c) \/ Use(c)
    PROVE  ToldInv' /\ ShortOfRoom(c)
<1>1. CASE \E alg \in Algs \cup {"other"}, memory \in BOOLEAN : NewCtx(c, alg, memory)
  <2>1. call'.told = NULL /\ call'.ret # "TOO_SMALL"
    BY <1>1 DEF NewCtx, Called, NoCall
  <2> QED  BY <2>1, Silent
<1>2. CASE FreeCtx(c) \/ GenKey(c)
  <2>1. call'.told = NULL /\ call'.ret # "TOO_SMALL"
    BY <1>2 DEF FreeCtx, GenKey, Called, NoCall
  <2> QED  BY <2>1, Silent
<1>3. ASSUME NEW half \in Halves, NEW params, Set(c, half, params)
      PROVE  ToldInv' /\ ShortOfRoom(c)
  <2>1. call'.told = NULL /\ call'.ret # "TOO_SMALL"
    BY <1>3 DEF Set, CopyFromParam, Called, NoCall
  <2> QED  BY <2>1, Silent
<1>4. ASSUME NEW data, NEW signature, NEW len, NEW memory, Verify(c, data, signature, len, memory)
      PROVE  ToldInv' /\ ShortOfRoom(c)
  <2>1. call'.told = NULL /\ call'.ret # "TOO_SMALL"
    BY <1>4 DEF Verify, Called, NoCall
  <2> QED  BY <2>1, Silent
<1> QED  BY <1>1, <1>2, <1>3, <1>4, GetTold, CtrlTold, SignTold DEF Manage, Use

LEMMA LengthIsNat ==
    ASSUME IInv, NEW c \in Contexts, ctx[c] # NULL, NEW op
    PROVE  LengthFor(op, ctx[c].alg) \in Nat
<1>1. ctx[c].alg \in Algs
  BY DEF IInv, ContextInv, ContextSet
<1>2. PkLen \in [Algs -> Nat \ {0}] /\ SkLen \in [Algs -> Nat \ {0}] /\ SigLen \in [Algs -> Nat \ {0}]
  BY LengthAssumption
<1> QED  BY <1>1, <1>2 DEF LengthFor

LEMMA ToldSuffices ==
    ASSUME IInv, ToldInv, NEW c \in Contexts, ShortOfRoom(c), call'.ret = "TOO_SMALL",
           call.told # NULL, call'.ctx = call.ctx, Follows(call.op, call'.op),
           call'.room = call.told
    PROVE  FALSE
<1>1. /\ call.op \in Asking /\ call.ctx \in Contexts /\ ctx[call.ctx] # NULL
      /\ call.told = LengthFor(call.op, ctx[call.ctx].alg)
  BY DEF ToldInv
<1>2. call'.op \in Asking /\ LengthFor(call'.op, ctx[call.ctx].alg) = call.told
  BY <1>1 DEF Follows, Asking, LengthFor
<1>3. call.ctx = c /\ call.told < call.told
  BY <1>2 DEF ShortOfRoom
<1> QED  BY <1>1, <1>3, LengthIsNat

(* A length the provider reports, with a refusal or without, is room       *)
(* enough for the call it was reported for, for any algorithms and lengths. *)
THEOREM ReportedLengthSuffices == Spec => LengthToldSuffices
<1> DEFINE Answered ==
        /\ call.told # NULL
        /\ call'.ctx = call.ctx /\ Follows(call.op, call'.op) /\ call'.room = call.told
        => call'.ret # "TOO_SMALL"
<1>1. Init => IInv /\ ToldInv
  <2>1. Init => ToldInv
    BY DEF Init, ToldInv, NoCall
  <2> QED  BY <2>1, Start
<1>2. IInv /\ ToldInv /\ [Next]_vars => (IInv /\ ToldInv)' /\ [Answered]_vars
  <2> SUFFICES ASSUME IInv, ToldInv, [Next]_vars PROVE (IInv /\ ToldInv)' /\ [Answered]_vars
    OBVIOUS
  <2>1. IInv'
    BY Step
  <2>2. CASE Next
    <3>1. PICK c \in Contexts : Manage(c) \/ Use(c)
      BY <2>2 DEF Next
    <3>2. ToldInv' /\ ShortOfRoom(c)
      BY <3>1, ToldStep
    <3>3. Answered
      BY <3>2, ToldSuffices
    <3> QED  BY <2>1, <3>2, <3>3
  <2>3. CASE UNCHANGED vars
    BY <2>1, <2>3 DEF vars, ToldInv
  <2> QED  BY <2>2, <2>3
<1> QED  BY <1>1, <1>2, PTL DEF Spec, LengthToldSuffices

=============================================================================
