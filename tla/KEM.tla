-------------------------------- MODULE KEM --------------------------------
(***************************************************************************)
(* Key encapsulation over module lattices: kem.c, indcpa.c and the         *)
(* compression of poly.c and polyvec.c of ML-KEM and Kyber, and their      *)
(* counterparts kem.c and owcpa.c in Aigis-enc.  A polynomial has one      *)
(* coefficient, a message one bit, and all of the arithmetic is done.      *)
(*                                                                         *)
(* Hashes are ideal: a digest is the term of what was hashed.  What the    *)
(* noise sampler makes of a seed is drawn when the seed is first used, and *)
(* remembered.  The seed of a key pair is named by its user.               *)
(***************************************************************************)
EXTENDS Integers, Sequences, FiniteSets

CONSTANTS Users,
          Variants,     \* of "ml_kem", "kyber", "aigis"
          Q, K,
          Eta,          \* the largest noise
          DT, DU, DV,   \* bits of a compressed key (Aigis-enc) and ciphertext
          Matrices,     \* the matrices that a public seed may expand to
          KeyNoise,     \* what noise seeds may expand to: functions of the nonce
          CoinNoise,
          MaxCalls      \* bound: calls of the two operations

Rank == 1 .. K
Bits == {0, 1}
Noise == -Eta .. Eta

ASSUME RingAssumption ==
    /\ Variants \subseteq {"ml_kem", "kyber", "aigis"}
    /\ Q \in Nat /\ Q > 2 /\ K \in Nat \ {0} /\ Eta \in Nat /\ {DT, DU, DV} \subseteq Nat \ {0}
    /\ Matrices \subseteq [Rank -> [Rank -> 0 .. Q - 1]]
    /\ KeyNoise \subseteq [0 .. 2 * K - 1 -> Noise]
    /\ CoinNoise \subseteq [0 .. 2 * K -> Noise]

(* The noise is small enough for the ring: what compression and noise add  *)
(* up to stays below a quarter of Q.                                       *)
CompressionError(d) == (Q + 2^d) \div (2 * 2^d)

ASSUME CorrectnessAssumption ==
    K * (Eta * (Eta + CompressionError(DT))) + K * (Eta * (Eta + CompressionError(DU)))
        + Eta + CompressionError(DV) < Q \div 4

(* The provers know nothing of powers. *)
ASSUME PowerAssumption ==
    /\ 2^1 = 2
    /\ \A d \in {1, DT, DU, DV} :
           2^d \in Nat \ {0} /\ 2^(d - 1) \in Nat \ {0} /\ 2^d = 2 * 2^(d - 1)

VARIABLES variant,
          matrix,       \* user -> A, as gen_matrix expands it from the seed
          sk,           \* user -> the secret key, which holds the public one
          coins,        \* pairs <<user, message>> -> noise, as far as drawn
          calls,
          known, answer \* ghosts: results of all calls and of the last one

vars == <<variant, matrix, sk, coins, calls, known, answer>>

-----------------------------------------------------------------------------
Dot(v, w) ==
    LET sum[i \in 0 .. K] == IF i = 0 THEN 0 ELSE sum[i - 1] + v[i] * w[i]
    IN  sum[K]

Transpose(A) == [i \in Rank |-> [j \in Rank |-> A[j][i]]]
Times(A, v) == [i \in Rank |-> Dot(A[i], v)]

Compress(x, d) == ((((x % Q) * 2^d + Q \div 2) \div Q) % 2^d)
Decompress(c, d) == (c * Q + 2^(d - 1)) \div 2^d

FromMsg(bit) == bit * ((Q + 1) \div 2)
ToMsg(x) == Compress(x, 1)

(* indcpa_keypair: noise nonces 0 .. K-1 make s, the next K make e.        *)
KeyPair(u, A, noise) ==
    LET s == [i \in Rank |-> noise[i - 1]]
        t == [i \in Rank |-> (Times(A, s)[i] + noise[K + i - 1]) % Q]
        pk == [t |-> IF variant = "aigis" THEN [i \in Rank |-> Compress(t[i], DT)] ELSE t,
               seed |-> u]
    IN  [s |-> s, pk |-> pk, h |-> <<"H", pk>>, z |-> <<"z", u>>]

(* gen_at(at, seed) *)
EncryptionMatrix(A) == Transpose(A)

PublicVector(pk) ==
    IF variant = "aigis" THEN [i \in Rank |-> Decompress(pk.t[i], DT)] ELSE pk.t

(* Aigis-enc subtracts the message, and takes the difference at decryption *)
(* the other way round.                                                    *)
Sign == IF variant = "aigis" THEN -1 ELSE 1

(* indcpa_enc *)
Encrypt(pk, A, bit, noise) ==
    LET r == [i \in Rank |-> noise[i - 1]]
        b == [i \in Rank |-> Times(EncryptionMatrix(A), r)[i] + noise[K + i - 1]]
        v == Dot(PublicVector(pk), r) + noise[2 * K] + Sign * FromMsg(bit)
    IN  [b |-> [i \in Rank |-> Compress(b[i], DU)], v |-> Compress(v, DV)]

(* indcpa_dec *)
Decrypt(s, ct) ==
    LET b == [i \in Rank |-> Decompress(ct.b[i], DU)]
    IN  ToMsg(Sign * (Decompress(ct.v, DV) - Dot(s, b)))

-----------------------------------------------------------------------------
(* The message alone: the key does not depend on whose it is. *)
BufNoRecipient(bit, h) == << <<"m", bit>>, <<"m", bit>> >>

(* The two halves of buf: the message and H(pk). *)
Buf(bit, h) == << <<"m", bit>>, h >>

PreKey(bit, h) == <<"G", Buf(bit, h)>>

(* ss where re-encryption gives the ciphertext, and where it does not.     *)
MLKEMKey(bit, h) == PreKey(bit, h)
MLKEMReject(z, ct) == <<"rkprf", z, ct>>

KyberKdf(pre, ct) == <<"kdf", pre, <<"H", ct>> >>
KyberKey(bit, h, ct) == KyberKdf(PreKey(bit, h), ct)
KyberReject(z, ct) == KyberKdf(z, ct)

AigisHash(first, second, ct) == <<"Hash", first, second, <<"H", ct>> >>
AigisKey(bit, h, ct) == AigisHash(Buf(bit, h)[1], Buf(bit, h)[2], ct)
AigisReject(z, h, ct) == AigisHash(z, h, ct)

SharedKey(bit, h, ct) ==
    CASE variant = "ml_kem" -> MLKEMKey(bit, h)
      [] variant = "kyber"  -> KyberKey(bit, h, ct)
      [] variant = "aigis"  -> AigisKey(bit, h, ct)

RejectKey(z, h, ct) ==
    CASE variant = "ml_kem" -> MLKEMReject(z, ct)
      [] variant = "kyber"  -> KyberReject(z, ct)
      [] variant = "aigis"  -> AigisReject(z, h, ct)

Init ==
    /\ variant \in Variants
    /\ matrix \in [Users -> Matrices]
    /\ \E noise \in [Users -> KeyNoise] :
           sk = [u \in Users |-> KeyPair(u, matrix[u], noise[u])]
    /\ coins = << >>
    /\ calls = 0
    /\ known = {} /\ answer = << >>

(* The noise for a message: what was drawn for it before, or a new draw.   *)
Drawn(u, bit, noise) ==
    /\ noise \in IF <<u, bit>> \in DOMAIN coins THEN {coins[<<u, bit>>]} ELSE CoinNoise
    /\ coins' = [x \in DOMAIN coins \cup {<<u, bit>>} |->
                    IF x = <<u, bit>> THEN noise ELSE coins[x]]

Return(u, ct, key) ==
    /\ answer' = [user |-> u, ct |-> ct, key |-> key]
    /\ known' = known \cup {answer'}
    /\ calls' = calls + 1

(* crypto_kem_enc *)
Encapsulate(u, bit) ==
    /\ calls < MaxCalls
    /\ \E noise \in CoinNoise :
           /\ Drawn(u, bit, noise)
           /\ LET ct == Encrypt(sk[u].pk, matrix[u], bit, noise)
              IN  Return(u, ct, SharedKey(bit, sk[u].h, ct))
    /\ UNCHANGED <<variant, matrix, sk>>

(* crypto_kem_dec *)
Decapsulate(u, ct) ==
    /\ calls < MaxCalls
    /\ LET bit == Decrypt(sk[u].s, ct)
       IN  \E noise \in CoinNoise :
               /\ Drawn(u, bit, noise)
               /\ LET fail == ct # Encrypt(sk[u].pk, matrix[u], bit, noise)
                  IN  Return(u, ct, IF fail THEN RejectKey(sk[u].z, sk[u].h, ct)
                                    ELSE SharedKey(bit, sk[u].h, ct))
    /\ UNCHANGED <<variant, matrix, sk>>

(* Ciphertexts as they arrive: as sent, or with one coefficient changed,   *)
(* by one step or by the half turn that flips the message.                 *)
Changed(ct) ==
    {[ct EXCEPT !.v = (@ + step) % 2^DV] : step \in {1, 2^(DV - 1)}}
        \cup {[ct EXCEPT !.b[i] = (@ + 1) % 2^DU] : i \in Rank}

Arriving == UNION {{a.ct} \cup Changed(a.ct) : a \in known}

Next ==
    \E u \in Users :
        \/ \E bit \in Bits : Encapsulate(u, bit)
        \/ \E ct \in Arriving : Decapsulate(u, ct)

Spec == Init /\ [][Next]_vars

-----------------------------------------------------------------------------
(* Sender and recipient agree on every ciphertext that arrives unchanged;  *)
(* one that was changed, or made for someone else, gets a key of its own,  *)
(* the same each time.  That takes decryption without error, the same      *)
(* matrix on both sides, re-encryption with the same coins, and keys that  *)
(* depend on the recipient and the ciphertext.                             *)
Ideal == INSTANCE IdealKEM
ImplementsIdealKEM == Ideal!Spec

=============================================================================
