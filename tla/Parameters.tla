----------------------------- MODULE Parameters ------------------------------
(***************************************************************************)
(* params.h of the lattice schemes: the dimensions and bounds of every     *)
(* mode, and the packed sizes the headers derive from them or repeat as    *)
(* literals.  Fields carry the macros' names in lower case.                *)
(*                                                                         *)
(* The parameter headers of SLH-DSA and SPHINCS-Alpha: a few numbers each, *)
(* and the macros every header derives from them.  Those with haraka are   *)
(* built by name only: the public header does not declare them.            *)
(*                                                                         *)
(* include/pqmagic_api.h: for every parameter set the sizes of its buffers *)
(* as literals and the prototypes of its calls.  No source file of a       *)
(* scheme includes it, so that no compiler ever compares it with the       *)
(* functions it declares.  A call is the sequence of what its arguments    *)
(* are; buffers and lengths are told apart, constness is not.              *)
(***************************************************************************)
EXTENDS Integers, Sequences, TLC

(* K, L, ETA, GAMMA1 and OMEGA of a mode, and the sizes ML-DSA and          *)
(* Dilithium choose by them; 13 = D, 23 bits a coefficient.                 *)
Mode(k, l, eta, gamma1, omega) ==
  [k |-> k, l |-> l, eta |-> eta, gamma1 |-> gamma1, omega |-> omega,
   polyt1 |-> 320, polyt0 |-> 416,
   polyz |-> IF gamma1 = 2^17 THEN 576 ELSE 640,
   polyeta |-> IF eta = 2 THEN 96 ELSE 128]

ml_dsa ==
  LET Set(mode, ctilde) ==
        [mode |-> mode, tr |-> 64, ctilde |-> ctilde,
         pk |-> 32 + mode.k * mode.polyt1,
         sk |-> 2 * 32 + 64 + (mode.l + mode.k) * mode.polyeta + mode.k * mode.polyt0,
         sig |-> ctilde + mode.l * mode.polyz + (mode.omega + mode.k)]
  IN  [ML_DSA_44 |-> Set(Mode(4, 4, 2, 2^17, 80), 32),
       ML_DSA_65 |-> Set(Mode(6, 5, 4, 2^19, 55), 48),
       ML_DSA_87 |-> Set(Mode(8, 7, 2, 2^19, 75), 64)]

dilithium ==
  LET Set(mode) ==
        [mode |-> mode, tr |-> 32, ctilde |-> 32,
         pk |-> 32 + mode.k * mode.polyt1,
         sk |-> 3 * 32 + (mode.l + mode.k) * mode.polyeta + mode.k * mode.polyt0,
         sig |-> 32 + mode.l * mode.polyz + (mode.omega + mode.k)]
  IN  [DILITHIUM2 |-> Set(Mode(4, 4, 2, 2^17, 80)),
       DILITHIUM3 |-> Set(Mode(6, 5, 4, 2^19, 55)),
       DILITHIUM5 |-> Set(Mode(8, 7, 2, 2^19, 75))]

aigis_sig ==
  LET Set(k, l, qbits, d, eta1, eta2, seta1bits, seta2bits, omega) ==
        LET t1 == (256 * (qbits - d)) \div 8
            t0 == (256 * d) \div 8
            s1 == (256 * seta1bits) \div 8
            s2 == (256 * seta2bits) \div 8
            z  == (256 * 18) \div 8
        IN  [k |-> k, l |-> l, d |-> d, eta1 |-> eta1, eta2 |-> eta2, omega |-> omega,
             polt1 |-> t1, polt0 |-> t0, poleta1 |-> s1, poleta2 |-> s2, polz |-> z,
             pk |-> 32 + k * t1,
             sk |-> 2 * 32 + l * s1 + k * s2 + 48 + k * t0,
             sig |-> l * z + (omega + k) + (256 \div 8 + 8)]
  IN  [AIGIS_SIG1 |-> Set(4, 3, 21, 13, 2, 3, 3, 3, 80),
       AIGIS_SIG2 |-> Set(5, 4, 22, 14, 2, 5, 3, 4, 96),
       AIGIS_SIG3 |-> Set(6, 5, 22, 14, 1, 5, 2, 4, 120)]
-----------------------------------------------------------------------------
(* The KEMs: the sizes of a polynomial, of a vector and of the compressed   *)
(* ones, and what the buffers are made of.                                  *)
KemSet(k, polycompressed, veccompressed) ==
  [k |-> k, polybytes |-> 384, polyvecbytes |-> k * 384,
   polycompressed |-> polycompressed, polyveccompressed |-> k * veccompressed,
   pk |-> k * 384 + 32,
   sk |-> k * 384 + (k * 384 + 32) + 2 * 32,
   ct |-> k * veccompressed + polycompressed, ss |-> 32]

ml_kem_params ==
  [ML_KEM_512 |-> KemSet(2, 128, 320), ML_KEM_768 |-> KemSet(3, 128, 320),
   ML_KEM_1024 |-> KemSet(4, 160, 352)]

kyber_params ==
  [KYBER512 |-> KemSet(2, 128, 320), KYBER768 |-> KemSet(3, 128, 320),
   KYBER1024 |-> KemSet(4, 160, 352)]

aigis_enc_params ==
  LET Set(k, bits_pk, bits_c1, bits_c2) ==
        LET pkvec == (bits_pk * k * 256) \div 8
            ctvec == (bits_c1 * k * 256) \div 8
            poly  == (bits_c2 * 256) \div 8
        IN  [k |-> k, bits_pk |-> bits_pk, bits_c1 |-> bits_c1, bits_c2 |-> bits_c2,
             polybytes |-> 416, polyvecbytes |-> k * 416, pkvec |-> pkvec,
             ctvec |-> ctvec, polycompressed |-> poly,
             pk |-> 32 + pkvec,
             sk |-> k * 416 + (32 + pkvec) + 32 + 32,
             ct |-> ctvec + poly, ss |-> 32]
  IN  [AIGIS_ENC_1 |-> Set(2, 10, 10, 3), AIGIS_ENC_2 |-> Set(3, 9, 9, 4),
       AIGIS_ENC_3 |-> Set(3, 10, 10, 3), AIGIS_ENC_4 |-> Set(4, 11, 11, 5)]
-----------------------------------------------------------------------------

(* What all headers derive: n bytes of hash, a hypertree of height h and d *)
(* layers, k FORS trees of height a, len Winternitz chains of w values.    *)
Derived(n, h, d, a, k, w, len) ==
  [n |-> n, h |-> h, d |-> d, a |-> a, k |-> k, w |-> w, len |-> len,
   tree_height |-> h \div d,
   fors_msg_bytes |-> (a * k + 7) \div 8,
   wots_bytes |-> len * n,
   fors_bytes |-> (a + 1) * k * n,
   sig |-> n + (a + 1) * k * n + d * len * n + h * n,
   pk |-> 2 * n,
   sk |-> 2 * n + 2 * n]

(* The digits of a checksum in base w, from the table of SPX_WOTS_LEN2.    *)
WotsLen2(n, w) ==
  IF w = 256 THEN IF n <= 1 THEN 1 ELSE 2
             ELSE IF n <= 8 THEN 2 ELSE IF n <= 136 THEN 3 ELSE 4

Plus(n, h, d, a, k, w) ==
  LET logw == IF w = 256 THEN 8 ELSE 4
  IN  Derived(n, h, d, a, k, w, (8 * n) \div logw + WotsLen2(n, w))

Alpha(n, h, d, a, k, w, len) == Derived(n, h, d, a, k, w, len)
-----------------------------------------------------------------------------
slh_dsa_sha2_128f   == Plus(16, 66, 22, 6, 33, 16)
slh_dsa_sha2_128s   == Plus(16, 63, 7, 12, 14, 16)
slh_dsa_sha2_192f   == Plus(24, 66, 22, 8, 33, 16)
slh_dsa_sha2_192s   == Plus(24, 63, 7, 14, 17, 16)
slh_dsa_sha2_256f   == Plus(32, 68, 17, 9, 35, 16)
slh_dsa_sha2_256s   == Plus(32, 64, 8, 14, 22, 16)
slh_dsa_shake_128f  == Plus(16, 66, 22, 6, 33, 16)
slh_dsa_shake_128s  == Plus(16, 63, 7, 12, 14, 16)
slh_dsa_shake_192f  == Plus(24, 66, 22, 8, 33, 16)
slh_dsa_shake_192s  == Plus(24, 63, 7, 14, 17, 16)
slh_dsa_shake_256f  == Plus(32, 68, 17, 9, 35, 16)
slh_dsa_shake_256s  == Plus(32, 64, 8, 14, 22, 16)
slh_dsa_haraka_128f == Plus(16, 66, 22, 6, 33, 16)
slh_dsa_haraka_128s == Plus(16, 63, 7, 12, 14, 16)
slh_dsa_haraka_192f == Plus(24, 66, 22, 8, 33, 16)
slh_dsa_haraka_192s == Plus(24, 63, 7, 14, 17, 16)
slh_dsa_haraka_256f == Plus(32, 68, 17, 9, 35, 16)
slh_dsa_haraka_256s == Plus(32, 64, 8, 14, 22, 16)
slh_dsa_sm3_128f    == Plus(16, 66, 22, 6, 33, 16)
slh_dsa_sm3_128s    == Plus(16, 63, 7, 12, 14, 16)

sphincs_a_sha2_128f  == Alpha(16, 63, 21, 8, 25, 14, 36)
sphincs_a_sha2_128s  == Alpha(16, 63, 9, 13, 12, 73, 22)
sphincs_a_sha2_192f  == Alpha(24, 64, 16, 8, 37, 8, 66)
sphincs_a_sha2_192s  == Alpha(24, 63, 9, 14, 17, 77, 32)
sphincs_a_sha2_256f  == Alpha(32, 68, 17, 9, 35, 16, 66)
sphincs_a_sha2_256s  == Alpha(32, 66, 11, 13, 23, 79, 42)
sphincs_a_shake_128f == Alpha(16, 63, 21, 8, 25, 14, 36)
sphincs_a_shake_128s == Alpha(16, 63, 9, 13, 12, 73, 22)
sphincs_a_shake_192f == Alpha(24, 64, 16, 8, 37, 8, 66)
sphincs_a_shake_192s == Alpha(24, 63, 9, 14, 17, 77, 32)
sphincs_a_shake_256f == Alpha(32, 68, 17, 9, 35, 16, 66)
sphincs_a_shake_256s == Alpha(32, 66, 11, 13, 23, 79, 42)
sphincs_a_sm3_128f   == Alpha(16, 63, 21, 8, 25, 14, 36)
sphincs_a_sm3_128s   == Alpha(16, 63, 9, 13, 12, 73, 22)
-----------------------------------------------------------------------------
slh_dsa ==
  [SLH_DSA_SHA2_128f |-> slh_dsa_sha2_128f,
   SLH_DSA_SHA2_128s |-> slh_dsa_sha2_128s,
   SLH_DSA_SHA2_192f |-> slh_dsa_sha2_192f,
   SLH_DSA_SHA2_192s |-> slh_dsa_sha2_192s,
   SLH_DSA_SHA2_256f |-> slh_dsa_sha2_256f,
   SLH_DSA_SHA2_256s |-> slh_dsa_sha2_256s,
   SLH_DSA_SHAKE_128f |-> slh_dsa_shake_128f,
   SLH_DSA_SHAKE_128s |-> slh_dsa_shake_128s,
   SLH_DSA_SHAKE_192f |-> slh_dsa_shake_192f,
   SLH_DSA_SHAKE_192s |-> slh_dsa_shake_192s,
   SLH_DSA_SHAKE_256f |-> slh_dsa_shake_256f,
   SLH_DSA_SHAKE_256s |-> slh_dsa_shake_256s,
   SLH_DSA_HARAKA_128f |-> slh_dsa_haraka_128f,
   SLH_DSA_HARAKA_128s |-> slh_dsa_haraka_128s,
   SLH_DSA_HARAKA_192f |-> slh_dsa_haraka_192f,
   SLH_DSA_HARAKA_192s |-> slh_dsa_haraka_192s,
   SLH_DSA_HARAKA_256f |-> slh_dsa_haraka_256f,
   SLH_DSA_HARAKA_256s |-> slh_dsa_haraka_256s,
   SLH_DSA_SM3_128f |-> slh_dsa_sm3_128f,
   SLH_DSA_SM3_128s |-> slh_dsa_sm3_128s]

sphincs_a ==
  [SPHINCS_A_SHA2_128f |-> sphincs_a_sha2_128f,
   SPHINCS_A_SHA2_128s |-> sphincs_a_sha2_128s,
   SPHINCS_A_SHA2_192f |-> sphincs_a_sha2_192f,
   SPHINCS_A_SHA2_192s |-> sphincs_a_sha2_192s,
   SPHINCS_A_SHA2_256f |-> sphincs_a_sha2_256f,
   SPHINCS_A_SHA2_256s |-> sphincs_a_sha2_256s,
   SPHINCS_A_SHAKE_128f |-> sphincs_a_shake_128f,
   SPHINCS_A_SHAKE_128s |-> sphincs_a_shake_128s,
   SPHINCS_A_SHAKE_192f |-> sphincs_a_shake_192f,
   SPHINCS_A_SHAKE_192s |-> sphincs_a_shake_192s,
   SPHINCS_A_SHAKE_256f |-> sphincs_a_shake_256f,
   SPHINCS_A_SHAKE_256s |-> sphincs_a_shake_256s,
   SPHINCS_A_SM3_128f |-> sphincs_a_sm3_128f,
   SPHINCS_A_SM3_128s |-> sphincs_a_sm3_128s]
-----------------------------------------------------------------------------

ml_dsa_calls ==
  [keypair |-> <<"pk", "sk">>,
   keypair_internal |-> <<"pk", "sk", "coins">>,
   signature |-> <<"sig", "siglen", "m", "mlen", "ctx", "ctx_len", "sk">>,
   signature_internal |-> <<"sig", "siglen", "m", "mlen", "coins", "sk">>,
   verify |-> <<"sig", "siglen", "m", "mlen", "ctx", "ctx_len", "pk">>,
   verify_internal |-> <<"sig", "siglen", "m", "mlen", "pk">>,
   sign |-> <<"sm", "smlen", "m", "mlen", "ctx", "ctx_len", "sk">>,
   open |-> <<"m", "mlen", "sm", "smlen", "ctx", "ctx_len", "pk">>]

(* Aigis-sig draws nothing while it signs. *)
aigis_sig_calls ==
  [ml_dsa_calls EXCEPT
     !.signature_internal = <<"sig", "siglen", "m", "mlen", "sk">>]

sphincs_calls ==
  [keypair |-> <<"pk", "sk">>,
   signature |-> <<"sig", "siglen", "m", "mlen", "sk">>,
   verify |-> <<"sig", "siglen", "m", "mlen", "pk">>,
   sign |-> <<"sm", "smlen", "m", "mlen", "sk">>,
   open |-> <<"m", "mlen", "sm", "smlen", "pk">>]

(* Dilithium has no context string. *)
dilithium_calls ==
  sphincs_calls @@
  [keypair_internal |-> <<"pk", "sk", "coins">>,
   signature_internal |-> <<"sig", "siglen", "m", "mlen", "coins", "sk">>]

kem_calls ==
  [keypair |-> <<"pk", "sk">>,
   keypair_internal |-> <<"pk", "sk", "coins">>,
   enc |-> <<"ct", "ss", "pk">>,
   enc_internal |-> <<"ct", "ss", "pk", "coins">>,
   dec |-> <<"ss", "ct", "sk">>]

Signature(pk, sk, sig, calls) ==
  [size |-> [pk |-> pk, sk |-> sk, sig |-> sig], calls |-> calls]

Kem(pk, sk, ct, ss) ==
  [size |-> [pk |-> pk, sk |-> sk, ct |-> ct, ss |-> ss], calls |-> kem_calls]
-----------------------------------------------------------------------------
ML_DSA_44           == Signature(1312, 2560, 2420, ml_dsa_calls)
ML_DSA_65           == Signature(1952, 4032, 3309, ml_dsa_calls)
ML_DSA_87           == Signature(2592, 4896, 4627, ml_dsa_calls)

SLH_DSA_SHA2_128f   == Signature(32, 64, 17088, sphincs_calls)
SLH_DSA_SHA2_128s   == Signature(32, 64, 7856, sphincs_calls)
SLH_DSA_SHA2_192f   == Signature(48, 96, 35664, sphincs_calls)
SLH_DSA_SHA2_192s   == Signature(48, 96, 16224, sphincs_calls)
SLH_DSA_SHA2_256f   == Signature(64, 128, 49856, sphincs_calls)
SLH_DSA_SHA2_256s   == Signature(64, 128, 29792, sphincs_calls)
SLH_DSA_SHAKE_128f  == Signature(32, 64, 17088, sphincs_calls)
SLH_DSA_SHAKE_128s  == Signature(32, 64, 7856, sphincs_calls)
SLH_DSA_SHAKE_192f  == Signature(48, 96, 35664, sphincs_calls)
SLH_DSA_SHAKE_192s  == Signature(48, 96, 16224, sphincs_calls)
SLH_DSA_SHAKE_256f  == Signature(64, 128, 49856, sphincs_calls)
SLH_DSA_SHAKE_256s  == Signature(64, 128, 29792, sphincs_calls)
SLH_DSA_SM3_128f    == Signature(32, 64, 17088, sphincs_calls)
SLH_DSA_SM3_128s    == Signature(32, 64, 7856, sphincs_calls)

AIGIS_SIG1          == Signature(1056, 2448, 1852, aigis_sig_calls)
AIGIS_SIG2          == Signature(1312, 3376, 2445, aigis_sig_calls)
AIGIS_SIG3          == Signature(1568, 3888, 3046, aigis_sig_calls)

DILITHIUM2          == Signature(1312, 2528, 2420, dilithium_calls)
DILITHIUM3          == Signature(1952, 4000, 3293, dilithium_calls)
DILITHIUM5          == Signature(2592, 4864, 4595, dilithium_calls)

SPHINCS_A_SHA2_128f == Signature(32, 64, 16720, sphincs_calls)
SPHINCS_A_SHA2_128s == Signature(32, 64, 6880, sphincs_calls)
SPHINCS_A_SHA2_192f == Signature(48, 96, 34896, sphincs_calls)
SPHINCS_A_SHA2_192s == Signature(48, 96, 14568, sphincs_calls)
SPHINCS_A_SHA2_256f == Signature(64, 128, 49312, sphincs_calls)
SPHINCS_A_SHA2_256s == Signature(64, 128, 27232, sphincs_calls)
SPHINCS_A_SHAKE_128f == Signature(32, 64, 16720, sphincs_calls)
SPHINCS_A_SHAKE_128s == Signature(32, 64, 6880, sphincs_calls)
SPHINCS_A_SHAKE_192f == Signature(48, 96, 34896, sphincs_calls)
SPHINCS_A_SHAKE_192s == Signature(48, 96, 14568, sphincs_calls)
SPHINCS_A_SHAKE_256f == Signature(64, 128, 49312, sphincs_calls)
SPHINCS_A_SHAKE_256s == Signature(64, 128, 27232, sphincs_calls)
SPHINCS_A_SM3_128f  == Signature(32, 64, 16720, sphincs_calls)
SPHINCS_A_SM3_128s  == Signature(32, 64, 6880, sphincs_calls)

ML_KEM_512          == Kem(800, 1632, 768, 32)
ML_KEM_768          == Kem(1184, 2400, 1088, 32)
ML_KEM_1024         == Kem(1568, 3168, 1568, 32)
KYBER512            == Kem(800, 1632, 768, 32)
KYBER768            == Kem(1184, 2400, 1088, 32)
KYBER1024           == Kem(1568, 3168, 1568, 32)
AIGIS_ENC_1         == Kem(672, 1568, 736, 32)
AIGIS_ENC_2         == Kem(896, 2208, 992, 32)
AIGIS_ENC_3         == Kem(992, 2304, 1056, 32)
AIGIS_ENC_4         == Kem(1440, 3168, 1568, 32)
-----------------------------------------------------------------------------
pqmagic_api ==
  [ML_DSA_44 |-> ML_DSA_44, ML_DSA_65 |-> ML_DSA_65, ML_DSA_87 |-> ML_DSA_87,
   SLH_DSA_SHA2_128f |-> SLH_DSA_SHA2_128f,
   SLH_DSA_SHA2_128s |-> SLH_DSA_SHA2_128s,
   SLH_DSA_SHA2_192f |-> SLH_DSA_SHA2_192f,
   SLH_DSA_SHA2_192s |-> SLH_DSA_SHA2_192s,
   SLH_DSA_SHA2_256f |-> SLH_DSA_SHA2_256f,
   SLH_DSA_SHA2_256s |-> SLH_DSA_SHA2_256s,
   SLH_DSA_SHAKE_128f |-> SLH_DSA_SHAKE_128f,
   SLH_DSA_SHAKE_128s |-> SLH_DSA_SHAKE_128s,
   SLH_DSA_SHAKE_192f |-> SLH_DSA_SHAKE_192f,
   SLH_DSA_SHAKE_192s |-> SLH_DSA_SHAKE_192s,
   SLH_DSA_SHAKE_256f |-> SLH_DSA_SHAKE_256f,
   SLH_DSA_SHAKE_256s |-> SLH_DSA_SHAKE_256s,
   SLH_DSA_SM3_128f |-> SLH_DSA_SM3_128f,
   SLH_DSA_SM3_128s |-> SLH_DSA_SM3_128s, AIGIS_SIG1 |-> AIGIS_SIG1,
   AIGIS_SIG2 |-> AIGIS_SIG2, AIGIS_SIG3 |-> AIGIS_SIG3,
   DILITHIUM2 |-> DILITHIUM2, DILITHIUM3 |-> DILITHIUM3,
   DILITHIUM5 |-> DILITHIUM5, SPHINCS_A_SHA2_128f |-> SPHINCS_A_SHA2_128f,
   SPHINCS_A_SHA2_128s |-> SPHINCS_A_SHA2_128s,
   SPHINCS_A_SHA2_192f |-> SPHINCS_A_SHA2_192f,
   SPHINCS_A_SHA2_192s |-> SPHINCS_A_SHA2_192s,
   SPHINCS_A_SHA2_256f |-> SPHINCS_A_SHA2_256f,
   SPHINCS_A_SHA2_256s |-> SPHINCS_A_SHA2_256s,
   SPHINCS_A_SHAKE_128f |-> SPHINCS_A_SHAKE_128f,
   SPHINCS_A_SHAKE_128s |-> SPHINCS_A_SHAKE_128s,
   SPHINCS_A_SHAKE_192f |-> SPHINCS_A_SHAKE_192f,
   SPHINCS_A_SHAKE_192s |-> SPHINCS_A_SHAKE_192s,
   SPHINCS_A_SHAKE_256f |-> SPHINCS_A_SHAKE_256f,
   SPHINCS_A_SHAKE_256s |-> SPHINCS_A_SHAKE_256s,
   SPHINCS_A_SM3_128f |-> SPHINCS_A_SM3_128f,
   SPHINCS_A_SM3_128s |-> SPHINCS_A_SM3_128s, ML_KEM_512 |-> ML_KEM_512,
   ML_KEM_768 |-> ML_KEM_768, ML_KEM_1024 |-> ML_KEM_1024,
   KYBER512 |-> KYBER512, KYBER768 |-> KYBER768, KYBER1024 |-> KYBER1024,
   AIGIS_ENC_1 |-> AIGIS_ENC_1, AIGIS_ENC_2 |-> AIGIS_ENC_2,
   AIGIS_ENC_3 |-> AIGIS_ENC_3, AIGIS_ENC_4 |-> AIGIS_ENC_4]
==============================================================================
