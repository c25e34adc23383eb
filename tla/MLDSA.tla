-------------------------------- MODULE MLDSA --------------------------------
(***************************************************************************)
(* sign.c of ML-DSA: key generation, the rejection loop of                 *)
(* crypto_sign_signature_internal with its four tests, and verification,   *)
(* over polynomials of one coefficient.  The ring is Z_Q; multiplication   *)
(* by a challenge is multiplication by +1 or -1.  Everything that is a     *)
(* coefficientwise or a vector operation in C is one here.                 *)
(*                                                                         *)
(* Hashing is ideal: a digest is the tuple of what was hashed, a challenge *)
(* or a mask is any value of its range, drawn when it is first asked for.  *)
(*                                                                         *)
(* As the code stands the challenge is a function of the message and w1;   *)
(* here two attempts that meet the same w1 may draw different ones, which  *)
(* only adds behaviours.                                                   *)
(***************************************************************************)
EXTENDS Integers, Sequences, FiniteSets

CONSTANTS Q, GAMMA2, GAMMA1, BETA, ETA, D, OMEGA, K, L,
          Matrices,     \* the matrices that rho may expand to
          Masks,        \* the coefficients of y that are explored
          Messages,     \* sequences of bytes
          Contexts,     \* context strings, sequences of bytes
          MaxContext,   \* 255
          NonceRange,   \* 2^16: values of the uint16_t nonce of a mask
          MaxAttempts,  \* bound: attempts of one signature
          None

INSTANCE HighBits WITH Q <- Q, GAMMA2 <- GAMMA2

Columns == 1 .. L
RowSet == 1 .. K

ASSUME RingAssumption ==
    /\ MaxContext \in Nat /\ MaxAttempts \in Nat /\ NonceRange \in Nat
    /\ Q \in Nat /\ GAMMA2 \in Nat \ {0} /\ HighCount > 1 /\ Q = HighCount * Alpha + 1
    /\ K \in Nat \ {0} /\ L \in Nat \ {0} /\ D \in Nat \ {0}
    /\ GAMMA1 \in Nat /\ BETA \in Nat /\ ETA \in Nat
    /\ Matrices \subseteq [RowSet -> [Columns -> Coefficients]]
    /\ Masks \subseteq -GAMMA1 + 1 .. GAMMA1

ASSUME NonceAssumption == L * MaxAttempts <= NonceRange

ASSUME BytesAssumption == Messages \cup Contexts \subseteq Seq(Nat)

(* The provers know nothing of powers. *)
ASSUME PowerAssumption == 2^D \in Nat \ {0} /\ 2^(D - 1) \in Nat \ {0}

-----------------------------------------------------------------------------
(* Arithmetic.  Centered is the representative reduce32 and the inverse    *)
(* transform are used for.                                                 *)
Centered(a) == LET r == a % Q IN IF r > Q \div 2 THEN r - Q ELSE r

Dot(row, v) ==
    LET sum[l \in 0 .. L] == IF l = 0 THEN 0 ELSE sum[l - 1] + row[l] * v[l]
    IN  sum[L]

Times(matrix, v) == [r \in RowSet |-> Dot(matrix[r], v) % Q]

Decomposed(v) == [r \in RowSet |-> ReferenceDecompose(v[r])]

(* polyvecl_chknorm, polyveck_chknorm *)
VectorExceeds(v, bound) == \E x \in DOMAIN v : NormExceeds(v[x], bound)

(* power2round *)
T1(a) == (a + 2^(D - 1) - 1) \div 2^D
T0(a) == a - T1(a) * 2^D

-----------------------------------------------------------------------------
VARIABLES pc,
          pk, sk,       \* [A, t1] and [s1, s2, t0]
          m, ctx,       \* arguments of the running or last signing call
          nonce, drawn, \* uint16_t nonce; indices of the masks drawn so far
          y, w1, w0, c, \* of the current attempt
          z, h,
          sig,          \* what crypto_sign_signature has written, or None
          ret           \* of the last call that returned: arguments and result;
                        \* None while one runs

vars == <<pc, pk, sk, m, ctx, nonce, drawn, y, w1, w0, c, z, h, sig, ret>>
attempt == <<y, w1, w0, c, z, h>>

(* A local that has not been written yet. *)
Blank == [l \in Columns |-> 0]
BlankRow == [r \in RowSet |-> 0]

(* crypto_sign_keypair_internal: t = A s1 + s2, rounded. *)
KeyOf(matrix, s1, s2) ==
    LET t == [r \in RowSet |-> (Times(matrix, s1)[r] + s2[r]) % Q]
    IN  [public |-> [A |-> matrix, t1 |-> [r \in RowSet |-> T1(t[r])]],
         secret |-> [s1 |-> s1, s2 |-> s2, t0 |-> [r \in RowSet |-> T0(t[r])]]]

Init ==
    /\ \E matrix \in Matrices, s1 \in [Columns -> -ETA .. ETA], s2 \in [RowSet -> -ETA .. ETA] :
           LET key == KeyOf(matrix, s1, s2) IN pk = key.public /\ sk = key.secret
    /\ pc = "idle"
    /\ m = None /\ ctx = None
    /\ nonce = 0 /\ drawn = {}
    /\ y = Blank /\ z = Blank /\ w1 = BlankRow /\ w0 = BlankRow /\ h = BlankRow /\ c = 0
    /\ sig = None /\ ret = None

-----------------------------------------------------------------------------
(* The prefix without the length of the context string. *)
ExtendNoLength(msg, context) == <<0>> \o context \o msg

(* m_extended: 0, the length in a byte, the context string, the message. *)
Extend(msg, context) == <<0, Len(context) % (MaxContext + 1)>> \o context \o msg

(* mu = H(tr || m'), with tr = H(pk) *)
Mu(key, msg, context) == <<key, Extend(msg, context)>>

(* What a signature can be, and that None is nothing a caller can have. *)
SignatureSet ==
    [ctilde : [mu : [A : Matrices, t1 : [RowSet -> Int]] \X Seq(Nat),
               w1 : [RowSet -> Int], ball : {-1, 1}],
     z : [Columns -> Int], h : [RowSet -> {0, 1}]]

ASSUME NoneAssumption == None \notin SignatureSet /\ None \notin Messages \X Contexts

(* The value and, as a ghost, what it is the answer to. *)
Returned(msg, context, value) == [args |-> <<msg, context>>, value |-> value]

ContextTooLong(context) == Len(context) > MaxContext

RefuseSign(msg, context) ==
    /\ pc = "idle" /\ sig = None
    /\ ContextTooLong(context)
    /\ ret' = Returned(msg, context, -1)
    /\ UNCHANGED <<pc, pk, sk, m, ctx, nonce, drawn, attempt, sig>>

(* crypto_sign_signature and the prologue of the internal function. *)
StartSign(msg, context) ==
    /\ pc = "idle" /\ sig = None
    /\ ~ContextTooLong(context)
    /\ m' = msg /\ ctx' = context
    /\ nonce' = 0 /\ drawn' = {}
    /\ pc' = "rej" /\ ret' = None
    /\ UNCHANGED <<pk, sk, attempt, sig>>

(* Indices that overlap from one attempt to the next. *)
MaskIndexByOne(n, l) == (n + l - 1) % NonceRange

(* poly_uniform_gamma1(&v->vec[i], seed, L*nonce + i) *)
MaskIndex(n, l) == (L * n + l - 1) % NonceRange

(* rej: a fresh mask, the commitment w1, and the challenge for it. *)
Commit ==
    /\ pc = "rej" /\ nonce < MaxAttempts
    /\ \E mask \in [Columns -> Masks], ball \in {-1, 1} :
           LET parts == Decomposed(Times(pk.A, mask))
           IN  /\ y' = mask
               /\ w1' = [r \in RowSet |-> parts[r].high]
               /\ w0' = [r \in RowSet |-> parts[r].low]
               /\ c' = ball
    /\ drawn' = drawn \cup {MaskIndex(nonce, l) : l \in Columns}
    /\ nonce' = nonce + 1
    /\ pc' = "response"
    /\ UNCHANGED <<pk, sk, m, ctx, z, h, sig, ret>>

Reject == pc' = "rej"

(* z = y + c s1; first test *)
Respond ==
    /\ pc = "response"
    /\ z' = [l \in Columns |-> Centered(y[l] + c * sk.s1[l])]
    /\ IF VectorExceeds(z', GAMMA1 - BETA) THEN Reject ELSE pc' = "low"
    /\ UNCHANGED <<pk, sk, m, ctx, nonce, drawn, y, w1, w0, c, h, sig, ret>>

(* No room left for c s2. *)
LowBitsInRange(v) == VectorExceeds(v, GAMMA2)

LowBitsUnsafe(v) == VectorExceeds(v, GAMMA2 - BETA)

(* w0 - c s2; second test *)
CheckLow ==
    /\ pc = "low"
    /\ w0' = [r \in RowSet |-> Centered(w0[r] - c * sk.s2[r])]
    /\ IF LowBitsUnsafe(w0') THEN Reject ELSE pc' = "hint"
    /\ UNCHANGED <<pk, sk, m, ctx, nonce, drawn, y, w1, c, z, h, sig, ret>>

CarryTooLarge(v) == VectorExceeds(v, GAMMA2)

HintCount(v) == Cardinality({r \in RowSet : v[r] # 0})

HintsOverflow(v) == HintCount(v) > OMEGA

(* c t0; third test; the hints; fourth test; pack_sig *)
MakeHints ==
    /\ pc = "hint"
    /\ LET ct0 == [r \in RowSet |-> Centered(c * sk.t0[r])]
           hints == [r \in RowSet |-> MakeHint(w0[r] + ct0[r], w1[r])]
       IN  IF CarryTooLarge(ct0)
           THEN Reject /\ UNCHANGED <<w0, h, sig, ret>>
           ELSE /\ w0' = [r \in RowSet |-> w0[r] + ct0[r]]
                /\ h' = hints
                /\ IF HintsOverflow(hints)
                   THEN Reject /\ UNCHANGED <<sig, ret>>
                   ELSE /\ sig' = [ctilde |-> [mu |-> Mu(pk, m, ctx), w1 |-> w1, ball |-> c],
                                   z |-> z, h |-> hints]
                        /\ ret' = Returned(m, ctx, 0)
                        /\ pc' = "idle"
    /\ UNCHANGED <<pk, sk, m, ctx, nonce, drawn, y, w1, c, z>>

-----------------------------------------------------------------------------
(* caddq, then use_hint *)
UseHintAt(a, hint) == Corrected(ReferenceDecompose(a % Q), hint)

(* A z - c t1 2^D, as the verifier computes it from the signature. *)
Reconstructed(s) ==
    [r \in RowSet |-> UseHintAt(Times(pk.A, s.z)[r] - s.ctilde.ball * pk.t1[r] * 2^D, s.h[r])]

(* crypto_sign_verify_internal; the challenge is that of the signature's   *)
(* own digest, and the digest is then compared.                            *)
Accepts(s, msg, context) ==
    /\ ~VectorExceeds(s.z, GAMMA1 - BETA)
    /\ s.ctilde.mu = Mu(pk, msg, context)
    /\ s.ctilde.w1 = Reconstructed(s)

(* crypto_sign_verify *)
Verify(msg, context) ==
    /\ pc = "idle" /\ sig # None
    /\ LET valid == ~ContextTooLong(context) /\ Accepts(sig, msg, context)
       IN  ret' = Returned(msg, context, IF valid THEN 0 ELSE -1)
    /\ UNCHANGED <<pc, pk, sk, m, ctx, nonce, drawn, attempt, sig>>

Next ==
    \/ \E msg \in Messages, context \in Contexts :
           RefuseSign(msg, context) \/ StartSign(msg, context) \/ Verify(msg, context)
    \/ Commit \/ Respond \/ CheckLow \/ MakeHints

Spec == Init /\ [][Next]_vars

-----------------------------------------------------------------------------
(* Shapes and ranges.  The hints of a finished signature fit the OMEGA     *)
(* positions that pack_sig has for them, and t0 the D bits of polyt0_pack. *)
TypeOK ==
    /\ pc \in {"idle", "rej", "response", "low", "hint"}
    /\ pk.t1 \in [RowSet -> 0 .. Q \div 2^D + 1]
    /\ sk.t0 \in [RowSet -> -2^(D - 1) + 1 .. 2^(D - 1)]
    /\ m \in Messages \cup {None} /\ ctx \in Contexts \cup {None}
    /\ nonce \in 0 .. MaxAttempts /\ drawn \subseteq 0 .. NonceRange - 1
    /\ c \in {-1, 0, 1}
    /\ y \in [Columns -> -GAMMA1 + 1 .. GAMMA1] /\ z \in [Columns -> -(Q \div 2) .. Q \div 2]
    /\ w1 \in [RowSet -> 0 .. HighCount - 1] /\ w0 \in [RowSet -> -(Q \div 2) .. Q \div 2]
    /\ h \in [RowSet -> {0, 1}]
    /\ ret # None => ret.value \in {0, -1}
    /\ sig # None => HintCount(sig.h) <= OMEGA

(* No two polynomials of masks of one signing call are expanded from the   *)
(* same index, however many attempts were rejected: L fresh ones each.     *)
DistinctMasks == Cardinality(drawn) = L * nonce

(* What rejection sampling is for: a finished signature would have been    *)
(* possible with every other secret that fits the bounds.  Whatever c s1   *)
(* was, some admissible mask gives this z; whatever c s2 was, the          *)
(* commitment has these high bits.                                         *)
HidesSecret ==
    sig # None =>
        LET t == [r \in RowSet |-> pk.t1[r] * 2^D + sk.t0[r]]
            low == [r \in RowSet |-> (Times(pk.A, sig.z)[r] - sig.ctilde.ball * t[r])]
        IN  \A delta \in -BETA .. BETA :
                /\ \A l \in Columns : sig.z[l] - delta \in -GAMMA1 + 1 .. GAMMA1
                /\ \A r \in RowSet :
                       ReferenceDecompose((low[r] + delta) % Q).high = sig.ctilde.w1[r]

(* The four tests, the rounding of t, the hints and the framing of the     *)
(* context string add up to a signature scheme: every signature verifies,  *)
(* for the message and the context string it was made for and no other.    *)
Scheme == INSTANCE SignatureScheme WITH
    TooLong <- ContextTooLong,
    signed <- IF sig = None THEN None ELSE <<m, ctx>>,
    verdict <- ret

ImplementsScheme == Scheme!Spec

=============================================================================
