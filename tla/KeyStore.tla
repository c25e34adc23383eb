------------------------------ MODULE KeyStore ------------------------------
(***************************************************************************)
(* What the framework above a signature provider may rely on: a context    *)
(* holds the keys it was last given, whatever failed in between; it hands  *)
(* out these and no others; what it signs verifies under the public key of *)
(* the pair, for the same data, and nothing else does.                     *)
(***************************************************************************)
CONSTANTS Contexts, NULL

VARIABLES alg,          \* context -> its algorithm, or NULL
          pub, prv,     \* context -> key, or NULL
          call          \* the last call: its arguments and its result

Succeeded == call'.ret = "SUCCESS"

Half(key, half) == [key EXCEPT !.half = half]

Keep == UNCHANGED <<alg, pub, prv>>

Store(c, newPub, newPrv) ==
    /\ pub' = [pub EXCEPT ![c] = newPub]
    /\ prv' = [prv EXCEPT ![c] = newPrv]

NewOrFree(c) ==
    /\ call'.op \in {"new", "free"}
    /\ alg' = [alg EXCEPT ![c] = call'.arg]
    /\ Store(c, NULL, NULL)

Generate(c) ==
    /\ call'.op = "generate" /\ alg' = alg
    /\ Store(c, Half(call'.arg, "pub"), Half(call'.arg, "prv"))

Set(c) ==
    /\ alg' = alg
    /\ \/ call'.op = "set_pub" /\ Store(c, call'.arg, prv[c])
       \/ call'.op = "set_prv" /\ Store(c, pub[c], call'.arg)

Get(c) ==
    /\ Keep
    /\ call'.out # NULL
    /\ \/ call'.op = "get_pub" /\ call'.out = pub[c]
       \/ call'.op = "get_prv" /\ call'.out = prv[c]

Sign(c) ==
    /\ Keep
    /\ call'.op = "sign" /\ prv[c] # NULL
    /\ call'.out.by = prv[c] /\ call'.out.data = call'.data

(* The signature answers for the data, and was made by the other half of a *)
(* pair of the context's algorithm.                                        *)
Genuine(c, signature) ==
    /\ signature.data = call'.data
    /\ {signature.alg, signature.by.alg} = {alg[c]}
    /\ signature.by.half = "prv" /\ pub[c] = Half(signature.by, "pub")

Verify(c) == Keep /\ call'.op = "verify" /\ Genuine(c, call'.arg)

(* Refused: nothing changes and nothing is handed out.  A signature is not *)
(* refused where it is genuine, whole, and there is memory to check it.    *)
Refuse(c) ==
    /\ ~Succeeded /\ Keep
    /\ call'.out = NULL
    /\ call'.ret = "VERIFY_FAIL" => ~call'.memory \/ ~Genuine(c, call'.arg)

NoKeys == [c \in Contexts |-> NULL]

Init == alg = NoKeys /\ pub = NoKeys /\ prv = NoKeys

Next ==
    \E c \in Contexts :
        /\ call'.ctx = c
        /\ \/ Succeeded /\ (NewOrFree(c) \/ Generate(c) \/ Set(c) \/ Get(c) \/ Sign(c) \/ Verify(c))
           \/ Succeeded /\ call'.op \in {"len_pub", "len_prv"} /\ Keep
           \/ Refuse(c)

Spec == Init /\ [][Next]_<<alg, pub, prv, call>>

=============================================================================
