----------------------------- MODULE HintCodec -----------------------------
(***************************************************************************)
(* The hint part of an ML-DSA or Dilithium signature (pack_sig and         *)
(* unpack_sig of packing.c): OMEGA bytes of positions, row after row, then *)
(* K bytes saying where each row ends.  One action per loop iteration.     *)
(*                                                                         *)
(* The encoding is written by the signer after the count test of           *)
(* crypto_sign_signature_internal, or comes from anywhere ("received");    *)
(* either way the verifier decodes it.                                     *)
(***************************************************************************)
EXTENDS Naturals, FiniteSets

CONSTANTS K,        \* rows
          N,        \* coefficients of a row, and values of a byte
          OMEGA     \* most hint bits a signature has room for

ASSUME SizeAssumption == /\ K \in Nat \ {0}
                         /\ OMEGA \in Nat \ {0}
                         /\ N \in Nat /\ N > OMEGA

Rows == 0 .. K - 1
Byte == 0 .. N - 1
Hints == [Rows -> SUBSET Byte]
Sig == [0 .. OMEGA + K - 1 -> Byte]

VARIABLES pc,       \* the loop that runs next
          h,        \* polyveck h of the signer: the positions that are 1
          sig,      \* the OMEGA + K bytes
          i, j, k,  \* the loop counters of the C code
          out       \* polyveck h of the verifier, on its stack: not initialised

vars == <<pc, h, sig, i, j, k, out>>

NoHints == [r \in Rows |-> {}]

Init ==
    /\ \/ pc = "count" /\ h \in Hints /\ sig = [b \in 0 .. OMEGA + K - 1 |-> 0]
       \/ pc = "row" /\ h = NoHints /\ sig \in Sig
    /\ i = 0 /\ j = 0 /\ k = 0
    /\ out \in {NoHints, [r \in Rows |-> Byte]}

-----------------------------------------------------------------------------
(* The signer.                                                             *)

(* One bit too many is let through. *)
CountOffByOne(n) == n > OMEGA + 1

(* n > OMEGA: goto rej *)
TooMany(n) == n > OMEGA

(* polyveck_make_hint returns the number of ones. *)
HintCount == Cardinality({p \in Rows \X Byte : p[2] \in h[p[1]]})

CountHints ==
    /\ pc = "count"
    /\ pc' = IF TooMany(HintCount) THEN "rejected" ELSE "pack"
    /\ UNCHANGED <<h, sig, i, j, k, out>>

(* if(h->vec[i].coeffs[j] != 0) sig[k++] = j; *)
PackPosition ==
    /\ pc = "pack" /\ i < K /\ j < N
    /\ IF j \in h[i]
       THEN sig' = [sig EXCEPT ![k] = j] /\ k' = k + 1
       ELSE UNCHANGED <<sig, k>>
    /\ j' = j + 1
    /\ UNCHANGED <<pc, h, i, out>>

(* sig[OMEGA + i] = k; *)
PackRowEnd ==
    /\ pc = "pack" /\ i < K /\ j = N
    /\ sig' = [sig EXCEPT ![OMEGA + i] = k]
    /\ i' = i + 1 /\ j' = 0
    /\ UNCHANGED <<pc, h, k, out>>

(* The signature is sent; unpack_sig starts with k = 0. *)
Send ==
    /\ pc = "pack" /\ i = K
    /\ pc' = "row"
    /\ i' = 0 /\ j' = 0 /\ k' = 0
    /\ UNCHANGED <<h, sig, out>>

-----------------------------------------------------------------------------
(* The verifier.                                                           *)

BadRowEnd(end, from) == end < from \/ end > OMEGA

(* A row's first position is compared with the row before. *)
AcrossRows(at, from) == at > 0 /\ sig[at] <= sig[at - 1]

BadOrder(at, from) == at > from /\ sig[at] <= sig[at - 1]

(* Whatever the stack held is kept. *)
NotCleared(g) == g

Cleared(g) == [g EXCEPT ![i] = {}]

(* Clear the row and look at where it ends. *)
UnpackRow ==
    /\ pc = "row" /\ i < K
    /\ out' = Cleared(out)
    /\ IF BadRowEnd(sig[OMEGA + i], k)
       THEN pc' = "malformed" /\ UNCHANGED j
       ELSE pc' = "position" /\ j' = k
    /\ UNCHANGED <<h, sig, i, k>>

UnpackPosition ==
    /\ pc = "position" /\ j < sig[OMEGA + i]
    /\ IF BadOrder(j, k)
       THEN pc' = "malformed" /\ UNCHANGED <<out, j>>
       ELSE /\ out' = [out EXCEPT ![i] = @ \cup {sig[j]}]
            /\ j' = j + 1
            /\ UNCHANGED pc
    /\ UNCHANGED <<h, sig, i, k>>

(* k = sig[OMEGA + i]; *)
UnpackRowEnd ==
    /\ pc = "position" /\ j >= sig[OMEGA + i]
    /\ k' = sig[OMEGA + i]
    /\ i' = i + 1
    /\ pc' = "row"
    /\ UNCHANGED <<h, sig, j, out>>

StartTail ==
    /\ pc = "row" /\ i = K
    /\ j' = k
    /\ pc' = "tail"
    /\ UNCHANGED <<h, sig, i, k, out>>

BadTail(b) == b # 0

UnpackTail ==
    /\ pc = "tail" /\ j < OMEGA
    /\ IF BadTail(sig[j])
       THEN pc' = "malformed" /\ UNCHANGED j
       ELSE j' = j + 1 /\ UNCHANGED pc
    /\ UNCHANGED <<h, sig, i, k, out>>

Accept ==
    /\ pc = "tail" /\ j = OMEGA
    /\ pc' = "accepted"
    /\ UNCHANGED <<h, sig, i, j, k, out>>

Next ==
    \/ CountHints \/ PackPosition \/ PackRowEnd \/ Send
    \/ UnpackRow \/ UnpackPosition \/ UnpackRowEnd
    \/ StartTail \/ UnpackTail \/ Accept

Spec == Init /\ [][Next]_vars

-----------------------------------------------------------------------------
(* The encoding a set of hints has: the number of ones before row r, the   *)
(* position of each one among all of them, and the row ends.               *)
Before(g, r) == Cardinality({p \in Rows \X Byte : p[1] < r /\ p[2] \in g[p[1]]})

Place(g, r, c) == Before(g, r) + Cardinality({d \in g[r] : d < c})

Encodes(s, g) ==
    /\ Before(g, K) <= OMEGA
    /\ \A r \in Rows : s[OMEGA + r] = Before(g, r + 1)
    /\ \A r \in Rows : \A c \in g[r] : s[Place(g, r, c)] = c
    /\ \A b \in Before(g, K) .. OMEGA - 1 : s[b] = 0

-----------------------------------------------------------------------------
TypeOK ==
    /\ pc \in {"count", "pack", "rejected", "row", "position", "tail",
               "malformed", "accepted"}
    /\ h \in Hints /\ sig \in Sig /\ out \in Hints
    /\ i \in 0 .. K /\ j \in 0 .. N /\ k \in 0 .. OMEGA

(* No loop reads or writes outside the part of sig it is meant for: the    *)
(* positions never run into the row ends, whatever the received bytes say. *)
StaysInPositions ==
    /\ pc = "pack" /\ i < K /\ j < N /\ j \in h[i] => k < OMEGA
    /\ pc = "position" /\ j < sig[OMEGA + i] => j < OMEGA

(* Every byte sequence that is accepted is the encoding of what it was     *)
(* decoded to: two different signatures never carry the same hints, which  *)
(* is what the comments "for strong unforgeability" are about.  And        *)
(* nothing that encodes some hints is turned away.                         *)
Canonical ==
    /\ pc = "accepted" => Encodes(sig, out)
    /\ pc = "malformed" => \A g \in Hints : ~Encodes(sig, g)

(* What leaves the signer encodes its hints, and reaches the verifier's    *)
(* polyveck_use_hint as the same hints.                                    *)
RoundTrip ==
    [][/\ pc = "pack" /\ pc' = "row" => Encodes(sig, h)
       /\ pc' = "accepted" /\ Encodes(sig, h) => out = h]_vars

=============================================================================
