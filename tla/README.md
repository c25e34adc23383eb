# PQMagic in TLA+

PQMagic is a C library of post-quantum algorithms: four signature families and
three KEMs, each with a SHAKE and an SM3 mode, on top of Keccak, SM3 and a
source of randomness. This directory keeps its TLA+ models, the TLC runs that
check them and the TLAPS proofs about them. All paths below are relative to the
root of the repository.

## 1. The system

| Part | Source | State it keeps | Operations |
|---|---|---|---|
| Keccak sponge | `hash/keccak/fips202.c` | 25 lanes and a position (`keccak_state`), or 26 words (`s_inc`) | init, absorb, finalize, squeeze, squeezeblocks, one-shot digests |
| SM3 | `hash/sm3` | digest, block count, partial block | init, update, final; HMAC, counter-mode output, MGF |
| Randomness | `utils/randombytes.c`, `utils/rng.c` | a lazily opened descriptor; a global DRBG for known-answer tests | `randombytes` |
| ML-DSA, Dilithium | `sig/ml_dsa/std`, `sig/dilithium/std` | none between calls; inside a call the nonce, the vectors and the output buffer used as scratch | key pair, detached signature and verification, `crypto_sign`, `crypto_sign_open` |
| Aigis-sig | `sig/aigis-sig/std` | as ML-DSA | as ML-DSA, with other moduli, rounding and rejection tests |
| Aigis provider | `aigis-sig-minimal/src/aigis_provider.c` | a context: key buffers and two flags | new, free, generate, set, get, control, sign, verify |
| SLH-DSA, SPHINCS-Alpha | `sig/slh_dsa/std`, `sig/sphincs-a/std` | none between calls, except a static table in `sphincs-a/std/wots.c`; inside a call a stack and mutable hash addresses | key pair, sign, verify |
| ML-KEM, Kyber, Aigis-enc | `kem/*/std` | none between calls | key pair, encapsulation, decapsulation |

The schemes call the hash layer and `randombytes` and nothing else; the KEMs and
signatures do not call each other. There are no callbacks except `gen_leaf` of
the tree hash, and no persistence. Threads share nothing but the code, three
statics (the table of `encode`, the descriptor of `randombytes`, the test DRBG)
and whatever buffers the caller shares.

What is hard in this code is therefore mostly sequential: loops whose bounds
come from received bytes, counters with two meanings, buffers reused in place,
arithmetic that is wrong at one value in millions, retries that must never
repeat a number, formulas unrolled by hand once for each width, and two parties
that must compute the same thing along different paths. The hard interleavings
are those of the two statics that calls fill on first use: the table of `encode`
and the descriptor of `randombytes`. The full list, at the lines where it bites,
is under `hazards` in `PROJECT.json`.

### What makes each part correct

* **Sponge**: however a message and its output are cut into calls, the output is
  the XOF of the message; there is always room for the padding; every loop ends.
* **Rounding**: reductions keep value and range; the reciprocal multiplications
  are exact divisions; the verifier recovers the `w1` the signer hashed.
* **Hint encoding**: the signer never runs over its bytes; the verifier accepts
  exactly the canonical encodings and decodes the signer's hints.
* **ML-DSA**: every signature verifies for its message and context string and for
  no other; no mask index repeats; a signature does not depend on the secret
  beyond what its bounds allow.
* **Signed messages**: in place or not, what is signed is the caller's message,
  and a failed opening leaves nothing of it.
* **Trees**: roots and paths are those of the definition, no address is used for
  two leaves or nodes, the verifier climbs to the signer's root.
* **SM3**: however the message is cut, the digest is that of the padded message;
  the MAC is HMAC for keys of every length; longer output is numbered digests.
* **Constant-sum encoding**: every message has a word, and its own.
* **Hypertree**: from every leaf the verifier reaches the root in the public key;
  no hash address has two inputs; a one-time key signs one message, and what it
  reveals reaches no other.
* **KEMs**: sender and recipient agree on a key for an unaltered ciphertext; any
  other ciphertext has a key of its own that nobody else holds, the same each time.
* **Provider**: a context is a store of two keys whatever fails in between, its
  signatures verify under the other half and nothing else, and the lengths it
  reports are enough.
* **Sampling**: a polynomial is the first good candidates of its stream, in order,
  wherever the buffer is filled again; no bit makes two candidates; buffers of a
  fixed size are large enough; a challenge has exactly `TAU` coefficients, and every
  such challenge is as likely as any other.
* **Packing**: what is packed is, bit for bit, what is unpacked, in every width of
  every scheme; writer, reader and the caller's allocation agree on every piece of
  a key, a signature and a ciphertext; the literals and the prototypes of the public
  header are those the sources are built with.
* **Transforms**: no coefficient leaves its word through any operation of any lattice
  scheme, and each function gets the range its comment asks for; the tables, their
  running index and the factors of the reductions together multiply in the ring.
* **Compression**: a compressed coefficient comes back within half a step of the
  rounding, and the bit that was encrypted is read as long as noise and rounding
  leave a quarter of the modulus.
* **Randomness**: a request that returns is filled, each byte written once, however
  the system interrupts, shortens or fails its calls; it is always answered.
* **Aigis-sig rounding**: an attempt that is kept verifies, although a product can
  exceed the bound that is tested; the keys lose nothing of `t`.
* Not modelled: the encoding of the challenge in an Aigis-sig signature, the binomial
  sampler, the hash functions of the SPHINCS schemes.

## 2. Modules

| Module | Models | Notes |
|---|---|---|
| `Sponge` | blocks, XOR, permutation, padded message | a state is the history of blocks; equality of histories stands for a permutation without collisions |
| `XOF` | abstract: a message absorbed, a prefix of its output squeezed | what a caller relies on |
| `Keccak` | `keccak_state` interface, a step per loop iteration | `todo` is the rest of the running call |
| `IncSponge` | `keccak_inc_*`; `haraka_S_inc_*` with a one-byte counter | the counter changes its meaning at finalize |
| `HashProofs` | theorems about `Keccak` and `IncSponge`, with the refinements of `XOF`, and about `SM3` | |
| `SM3` | `sm3_*`, `sm3_hmac_*`, `sm3_extended`, `mgf1_sm3` | a call is an action, an output block of the last two is one; a digest stands for the compressed blocks |
| `HighBits` | what `rounding.c` promises, and the hint functions on top of it | operators, parameterised by `Q` and `GAMMA2` |
| `Rounding` | `reduce.c` without its Montgomery products and `rounding.c` of ML-DSA and Dilithium (the files are the same): a coefficient of `w` through decompose, the tests, the hint, the verifier; one of `t` from its sum to the packed halves | real constants |
| `RoundingProofs` | theorems about `HighBits`, `Rounding`, `NTT`, `AigisRounding` and `Compression` | |
| `AigisRounding` | `rounding.c` of Aigis-sig: a coefficient of `w` through an attempt and the verification, one of `t` to the keys | the real constants of the three parameter sets |
| `Growth` | the range of every polynomial through key generation, signing, verification, encryption and decryption of all lattice schemes | a step per level of a transform or per call; the four kinds of arithmetic are records, a program of each scheme is a sequence of calls |
| `NTT` | `ntt`, `invntt` and the products of ML-KEM and Kyber, Aigis-enc, ML-DSA and Dilithium, with their tables | a step per loop over `len` |
| `Compression` | a coefficient of a ciphertext from the encoded bit to the bit that is read | real moduli, all widths |
| `HintCodec` | the hint loops of `pack_sig` and `unpack_sig` | an action per iteration |
| `HintSamplingProofs` | theorems about `HintCodec`, the samplers, `Challenge` and `BitPacking` | |
| `SignatureScheme` | abstract: one signature, the verdicts of calls | |
| `BitPacking` | the machine that runs one of the unrolled loops of shifts and masks | a word is the set of its bits, each with the name of the place it comes from |
| `Parameters` | the parameter headers of all schemes; the sizes and prototypes of the public header | records, with the fields named as the macros |
| `Layouts` | every unrolled loop of every scheme as a table of shifts and masks; every function that makes or reads a key, a signature or a ciphertext, as the sequence of its pieces; a buffer written by one and read by the other | the SPHINCS signatures included |
| `MLDSA` | key generation, the rejection loop, verification, context strings | one coefficient per polynomial, `Q` a parameter |
| `MLDSAProofs` | theorems: the rejection loop is a signature scheme, its signatures hide the secrets, no mask index repeats | |
| `SignedMessage` | `crypto_sign`, `crypto_sign_open` on a flat memory | an action per byte |
| `TreeHash` | the tree by definition; `treehashx1`, `compute_root`, the loops of FORS | ideal hashes of addressed nodes |
| `ConstantSum` | `encode` of SPHINCS-Alpha with its static table, and the limbs of `uintx.c` | a step per access to an entry, any number of threads |
| `RandomBytes` | `randombytes` over `getrandom`, over the device, over CryptGenRandom | a step per access to the static descriptor and per system call |
| `SharedProofs` | theorems about `SignedMessage`, `RandomBytes` and `ConstantSum` | |
| `Hypertree` | key generation, the layers of signing and verification, WOTS, `address.c` | an action per layer; addresses keep their fields between uses; FORS has one leaf here |
| `TreesProofs` | theorems about `TreeHash` and `Hypertree` | |
| `IdealKEM` | abstract: who holds which key | |
| `KEM` | ML-KEM, Kyber and Aigis-enc: key pair, encapsulation, decapsulation, compression | one coefficient per polynomial, `Q` a parameter; the variants differ where the code does |
| `KEMProofs` | theorem: the three schemes implement the ideal KEM | |
| `RejSampling` | `poly_uniform`, `poly_uniform_eta`, `gen_matrix` with their refills | a byte is its round and place; which candidates are good is drawn first |
| `FixedSampling` | the loops of Aigis-sig over buffers of a fixed size | counts and positions with the real constants |
| `GroupSampling` | `poly_uniform_seed` of Aigis-enc | a candidate is the set of bits or-ed into each of its bits |
| `Challenge` | `poly_challenge`, `challenge` | the number of coefficients is also that of values of a byte |
| `KeyStore` | abstract: a context holds two keys | |
| `ProviderProofs` | theorems: the provider implements the key store; reported lengths are enough | |
| `Provider` | the calls on a context, with their parameter lists and lengths | the signature scheme is ideal; a key stands for its bytes |
| `MC*` | instances for TLC | `MCHash`, `MCRounding`, `MCEncoding`, `MCShared`, `MCTrees` and `MCSampling` hold several machines, only one of which moves in a behaviour |

Composition: `Keccak` and `IncSponge` extend `Sponge` and implement `XOF`;
`Rounding` and `MLDSA` take
`HighBits`; `MLDSA` implements `SignatureScheme`, `KEM` implements `IdealKEM`, `Provider` implements `KeyStore`;
`Hypertree` uses what `TreeHash` has shown of
`treehashx1` and `compute_root` as operators. `HintCodec` starts from the hint counts that a finished
signature of `MLDSA` can have and repeats the signer's test, so that it stands alone. `Layouts`
takes the bytes a polynomial needs from its tables of shifts and the sizes from
`Parameters`, so that both are compared with the public header and none is assumed. `Growth` ends at
`UseValue`, where `Rounding`, `Compression` and the packing tables begin: what
these assume of a coefficient is what it shows.

### How state and actions correspond to the code

*Keccak.* `s` is the lanes, `pos` the field of that name, `todo` the internal
functions still to run; `AbsorbBlock`, `AbsorbTail`, ... are the iterations of
`keccak_absorb`, `keccak_squeeze` and the others. A state in use by one thread
cannot be entered twice, so an API call starts when `todo` is empty.

*SM3.* `ctx` is `SM3_CTX`, `key` the field of `SM3_HMAC_CTX`; `longer` is the loop
of `sm3_extended` or `mgf1_sm3`. `sm3_init` leaves `block` as it was, so its bytes are
`Stale` until they are written. A call brings less than a word counts
(`SizesAssumption`): `offset` in `sm3_update` has 32 bits, `data_len` more.

*Rounding.* `pc` follows one coefficient through
`crypto_sign_signature_internal` to `crypto_sign_verify_internal`. The terms
`c*s2` and `c*t0` are any values their bounds allow, in either representative.

*AigisRounding.* Coefficients are unsigned words and low parts have `Q` added, as in
the code. A challenge has 60 coefficients and those of `s2` go up to 3 or 5, so a
coefficient of `c*s2` can reach 180 or 300, while `BETA2` is 175 or 275: the
comparison of the high bits (`HighBitsMoved`), which ML-DSA does without, is what
keeps such an attempt from becoming a signature that fails to verify. Without it
`VerifierRecovers` is violated for each parameter set.

*HintCodec.* `i`, `j`, `k` are the loop counters, `sig` the last `OMEGA + K`
bytes of a signature, `out` the verifier's vector, which starts as whatever was
on its stack. Rows are sets of positions.

*MLDSA.* The ring is `Z_Q`; a challenge is +1 or -1; a product of a challenge
and a secret then has the bound `BETA` of the code. `Commit`, `Respond`,
`CheckLow`, `MakeHints` are the stretches of `crypto_sign_signature_internal`
between two tests, in the order of the code, and each ends in the `goto rej` of
its test or in the next stretch. Hashes are the tuples of their inputs, so two
digests are equal exactly when their inputs are; randomness is nondeterminism.
`Verify` is the whole of `crypto_sign_verify`, with a message and context string
of its own.

*SignedMessage.* Memory is two buffers; the message pointer and the
signed-message pointer are in the same one or not, the two cases the comments
of `sign.c` allow. `mlen = -1` is `SIZE_MAX`. Between the calls the caller or
the channel may cut the signed message, change a byte, pick another context
string and another output buffer.

*TreeHash.* One iteration of the inner loop of `treehashx1` is one of `ReachTop`,
`Push`, `Combine`; `internal_idx` and its companions are the shifts of `idx`, the
leaf and the offset by `h`. With one tree and `NoLeaf` it is the call of
`merkle_gen_root`.

*Hypertree.* `layer`, `tree`, `leaf` are `i`, `tree`, `idx_leaf` of the two loops;
`wotsAddr`, `treeAddr`, `pkAddr` are `wots_addr`, `tree_addr`, `wots_pk_addr`, and an
iteration leaves in them what the functions it calls leave. A hash value is its
query, the pair of address and input; its bytes are drawn when `chain_lengths`
first reads them and remembered. `KeyPair` takes any digits for the garbage `merkle_sign` finds
in `root`; since no leaf is `NoLeaf`, none of its chains is shown (`Shown`), and
`OneMessagePerKey` would fail if one were.

*KEM.* A key pair, an encapsulation and a decapsulation are one action each; the
caller may decapsulate any ciphertext of any user. What the noise sampler makes
of a seed is drawn at its first use. `CorrectnessAssumption` says that noise and
compression stay below a quarter of `Q`: the real parameters only keep this with
overwhelming probability, the model's small noise keeps it always. `IdealKEM` tells keys apart by who
has them; a rejection key that also mixed in the decrypted bit would pass it.

*Provider.* `ctx` is the heap of contexts, with the fields of `AigisPkeyCtx`; an
operation is one call through the framework's table. A buffer takes the leading
bytes that fit its algorithm, so a longer buffer is accepted and a key of another
algorithm in it matches nothing. `call` is a ghost: arguments, result, and the
length reported through `useLen`, `*signLen` or the control command.

*Growth.* A state holds one half-open range per polynomial or vector. `NttLevel`,
`InvNttLevel`, `Multiply`, `ScaleBy`, `AddOrSubtract`, `ReduceAll` and `Standardise`
are the functions of `poly.c` and `polyvec.c`, taken in the order of `sign.c`,
`indcpa.c` and `owcpa.c`, with vectors of every length a parameter set has; each
maps the ranges of its arguments to the smallest range its arithmetic guarantees.
Kyber and ML-KEM, and Dilithium and ML-DSA, share theirs. The unit is 1 for the
KEMs and `Q/256` for the signatures, whose 32-bit values exceed TLC's
integers; a bound is rounded outwards to whole units, so that what passes passes
for the exact bounds. Checked are the words, the factor `montgomery_reduce` may be
given, the range each comment asks for, and for Aigis-sig the range its comments
promise (`ntt` from `2Q` to `18Q`, `invntt` from `4Q` to `2Q`).

*NTT.* `k` is the index into `zetas` or `zetas_inv`. A coefficient of the KEMs is an
`int16_t`, bit by bit; one of ML-DSA is its residue, because its products need 64 bits. The
transforms are linear, so the monomials `X^i` against one polynomial without
pattern (`Factors`; the theorem takes any) show the product; a wrong root, index or last factor moves some of the
256 coefficients. `TablesFit` says how the entries of the tables belong together.

*Compression.* `task` is the input, with the noise of the two sides; `Encode` to `Decode` are
`poly_frommsg` with the addition, `poly_compress`, `poly_decompress`, the
subtraction of `indcpa_dec` or `owcpa_dec`, and `poly_tomsg`. The noise goes up to
what the bound of the comment leaves; how likely more is, is not a matter of the
model.

*Packing.* A table entry is the operands of one assignment: which words, the low
bits that a mask keeps, the shift. `PackGroup` and `UnpackGroup` are one iteration
of the loop. The bits of a word that nobody wrote are those of the caller's buffer
(`Stale`), and two bits or-ed into one place are both in the set. In `Layouts` a step
writes or reads one piece; `slots` is where the writer has put what.

*RandomBytes.* `variant` is the branch the preprocessor chooses. `fd` is the static;
`own` is the value a register may still hold after `open`, since the access is
a data race: `rereads` says whether a build reads the static again. An interrupted
`open` of one thread stores -1 over the descriptor another has opened; the other's
`read` then fails with `EBADF` and the process aborts, or opens once more and loses the first
descriptor. `FilledOrStopped` does not forbid that abort: it is what the code does, and no
document promises otherwise. It allows it in that case (`overwritten`) and in no other except
a call that the system fails, and says that even then no request returns unfilled.

*Sampling.* In `RejSampling` an action is an iteration of `rej_uniform` or `rej_eta`, or
the loop around it that moves the rest of the buffer to the front and fills it again
(`Refill`). In `FixedSampling` a sampler is its list of loops and extensions in the
order of the code (`Code`), an iteration decides over its candidates in any way, and
`Lucky` is what the comments of `sign.c` and `poly.c` say fails with a probability
they give. For the samplers that never extend their buffer `Lucky` is the bound on reads itself;
what `StaysInBuffers` adds there is the bound on writes. In `GroupSampling` `Val`, `Ahead` and `Past` are the shifts, tests and
increments of the unrolled code. In `Challenge` an action is one byte of output.

*ConstantSum.* `done` and `dp` are the statics; the other variables are locals,
one per thread. A number is its limbs, lowest first; `Base` is the number of values of
a limb, and counts that exceed all limbs lose their carry as in `uintx.c`.

## 3. Runs

| Run | Question | Bounds and why they are enough |
|---|---|---|
| `hash` | is every call sequence of either Keccak interface an XOF; does SM3 hash, authenticate and extend its message? | rate 3, up to 7 bytes in and out: two full blocks and a partial one, so each boundary is met at its start, inside and at its end; the code depends on the rate only through the comparisons with it. SM3: blocks of 8 bytes of which 4 count bits, digests of 4, messages up to 20 bytes, keys to 10, a word of 7 bits so that the bit count of the longest message carries into its upper half |
| `reduce_doc` | does the documented range of `reduce32` hold? | expected to fail; see findings |
| `rounding` | value and range through reduction and split; do signer and verifier agree at the boundaries, those of Aigis-sig too; does any coefficient outgrow its word; do the transforms multiply; does a compressed ciphertext keep its bit? | the real `Q` and `GAMMA2` of ML-DSA-44, every boundary with its neighbours, the extreme and inner values of `c*s2` and `c*t0`; every edge of a quotient in `int32_t` and of the split, between which the functions are linear; the proofs cover all other values and the other `GAMMA2`. Growth: every program of every scheme at its real dimensions, no bound. Aigis-sig: every boundary, moved by the bounds of `c*s2`, with products at their largest and on both sides of each test. NTT: the real tables, 14 exponents with those next to each split of the ring. Compression: every step of the rounding of every width and its neighbours, between which the functions are constant, both representatives, noise at its bounds |
| `encoding` | exactly the canonical hints; are packing and unpacking inverse; do writer, reader, buffer and header agree? | hints: 2 rows of 5 positions, 3 hints, all hint vectors and all byte strings; N > OMEGA as in the code, so that both limits can be exceeded. Tables: two groups of every loop at least, each bit with a name of its own, so that one run stands for all values. Layouts: all 61 parameter sets as they are |
| `mldsa` | does the rejection loop give a signature scheme? | `Q = 41`, five high parts, 2x2 matrices, all keys, two attempts; each of the four tests rejects somewhere; messages and context strings with equal concatenations, one context string too long |
| `shared_memory` | is the message moved and cleared correctly; does every message get its word; is every random request filled? | signatures of 2 bytes, messages up to 3, so that the move overlaps itself by more and by less than a message. `encode`: 5 digits below 4, 155 words for 81 messages in limbs of 3 values, so that limbs carry and counts overflow as they do with the `128s` to `256s` parameters. `randombytes`: two threads, requests to 3 bytes, chunks of 2, two interruptions: enough for one thread to be interrupted in `open` while the other reads |
| `constant_sum_race` | does the assertion of `encode` hold with two threads? | expected to fail; see findings |
| `trees` | trees, paths, addresses; do the two walks of the hypertree meet, and is nothing used twice? | two trees of 8 leaves, every pair of leaves and none. Hypertree: two layers of four leaves, so that the index is shifted once and siblings differ on both heights; six chains of three steps; two signatures from any two of six indices, which share a tree, a leaf or nothing |
| `provider` | is a context a key store? | two contexts, two algorithms of different lengths, every buffer length from none to the longest, five calls that change something: enough to generate, sign, replace a key in the same or another context and verify |
| `kem` | is it a KEM with implicit rejection? | 97 residues, rank 2, two recipients, all three variants; noise at its bounds; three calls, of which one may decapsulate what another user was sent |
| `sampling` | is each byte used once, in order, and is there room; is a challenge uniform? | challenge: 5 coefficients, 3 draws, so that draws hit earlier ones. Refilled buffers: blocks of 4 bytes for candidates of 3, so that one byte and two are left over in turn, three coefficients, three refills, every set of good candidates. Aigis-sig: the real sizes, all parameter sets. Aigis-enc: the real groups, blocks smaller than a group, so that each way of leaving one is followed by a refill |

A few properties join what belongs together: `DigestsAreSM3` says that digests, MACs
and longer output are those of SM3, `KeyCoefficients` that reduction and split of either kind keep value and range,
`CoefficientsFit` that nothing overflows and that what is read is standard, `RootsMeet` and
`AddressesUsedOnce` speak of single trees and of the hypertree, `SamplesStream` of
the samplers that refill.

Most runs check safety: these are sequential programs and a call that is not
made is no fault. `CHECK_DEADLOCK FALSE` is used where a behaviour ends with the
last call. `trees` checks that both loops of a tree end with everything verified,
under weak fairness of the next-state relation of `TreeHash`: one thread that keeps
running. `shared_memory` checks that a random request is filled or the process stopped, under weak
fairness of each thread's own steps, which the scheduler of the system gives; that
the system interrupts a call is never fair, and it does so at most
`MaxInterrupts` times, since a call that is interrupted for ever has no answer in the code either.
That keccak's loops end is stated as an action property (each step of a loop
makes what is left smaller). No fairness is assumed for the rejection loop of
ML-DSA: that it ends is a matter of probability.

Every property of a passing run has a mutant: a plausible slip in one definition,
kept next to it in the module, under which TLC finds the property violated.

### Findings

* `reduce_doc`: the comment of `reduce32` gives `r <= 6283007`; the largest input
  it admits gives 6283008. No caller comes near.
* `constant_sum_race`: `encode` of SPHINCS-Alpha fills a static table on first use
  without a lock. When two first calls overlap, the one that is late clears
  entries while the other reads them, and the assertion `t != -1` fails. A program
  that makes one call before it starts its threads is not affected: once `done`
  is set and no call is filling, nothing writes to the table.

## 4. Proofs

TLC checks instances; the theorems hold for every value of the constants that
the named assumptions admit.

* `HashProofs` (`RateAssumption`, `BoundsAssumption`, `CounterAssumption`, `SM3Assumption`): `TypeCorrect`,
  `PaddingFits`, `LoopsTerminate`, `ComputesXOF`, `CounterComputesXOF`, `ComputesSM3`. The invariant `IInv` adds
  to the type what the queue of a call may hold and that an incremental absorb never leaves
  the position at the rate; neither is visible in `TypeOK`, and without them the padding
  could fall out of the block. `ComputesXOF` and `CounterComputesXOF` are the refinements of
  `XOF` by the two interfaces, for every rate and every way a message and its output are cut.
  `XofInv` and `IncInv` say in the middle of a call too which bytes the state has absorbed
  (`FedState`) and which block is being read; the step of a loop is a stutter, the last one
  of a call is the call. What carries the proof is that feeding bytes one at a time, block by
  block or all at once gives one state (`FeedSome`, `FeedBlock`, `PadFed`), and for the counter that
  its two meanings, bytes absorbed and bytes not yet read, never meet.
  `ComputesSM3` holds for every size of block, word and digest, message, key and output, as long as no
  message fills a word (`SizesAssumption`). A context `Holds` a message when its whole blocks are compressed and
  counted and the rest is in the partial block, whatever else that block holds: `UpdateIs` shows one call
  to append its data, in each of its three ways, and `FinalIs` that what is compressed at the end are the
  blocks of the padded message, one or two more, with the bit count put together from
  blocks and bytes (`CountIs`). In `SM3Inv` an HMAC context holds the inner padded key and the message, and its key field
  the key under the inner pad, so that XOR with both pads leaves the outer one; longer output grows by the
  digest whose number its length gives (`OutMore`). `PowerAssumption` states how the powers of the three widths are related.
* `RoundingProofs` (real `Q`, both values of `GAMMA2`): `ReduceBound`, `FreezeStandard`,
  `Power2RoundExact`, `DecomposeIsExact`, `HintCorrect`, `HintExact`, `HighBitsSurvive`.
  `DecomposeCorrect` shows the two reciprocal formulas equal to the division for all
  `a`; `DecompositionUnique` says that range and residue determine a decomposition; the
  invariant `PathInv` carries the residue of `w1 * Alpha + w0` through the tests. That
  invariant is what makes the hint theorem inductive: the hint alone says nothing.
  `KeysLoseNothing`, `VerifierAgrees` and `BitArrives` are about the other coefficients of the
  `rounding` run and hold whatever sums, products, noise and distances from an edge it is given
  (`SumsAssumption` is the range `reduce32` asks for): their invariants
  `PathInv`, `SigInv` and `BitsInv` give the residue and the range of the coefficient at every point.
  In `SigInv` the products are unbounded; the test on `w1` that Aigis-sig makes, and ML-DSA does not,
  is what makes `VerifierAgrees` hold. `BitsInv` adds the noise and both roundings to less
  than a quarter of the modulus.
  `TransformsGiveProducts` (`TransformAssumption`) is the theorem behind the three transforms, for every power of X
  and every second factor with coefficients in `0 .. Q - 1`. Its argument has two halves. Over the integers a loop is a `Level`, which splits each
  block in two; to multiply by X and then split is to split and then multiply each half by X (`Turned`), because a
  root's square is the root of the block before, so by induction on the exponent the product of the transforms is the transform
  of the product, with Kyber's pairs at the bottom. In the code each butterfly is that level up to multiples of the modulus
  (`ButterfliesAre`), since `montgomery_reduce` divides exactly (`FqMul`'s lemmas) and no sum outgrows its `int16_t`: `Grown` and `Held`
  bound the coefficients after each loop, and would not without the reductions at the loops where the code has them.
  The loops back undo the levels times a power of two and what the reductions divided by (`Scale`), which
  the last factor of each scheme removes (`FactorsUndo`). `NttInv` says how far both factors are, and that the index is where the
  loop's entries begin. Of the tables it uses `TablesFit`, that entries are roots of one another
  and inverses block by block: a statement about numbers only, which TLC evaluates for all of them.
* `HintSamplingProofs` (`SizeAssumption`, `SamplersAssumption`, `TablesWork`): `TypeCorrect`, `PositionsInRange`,
  `OnlyCanonical`, `HintsArrive` of the hints; `WeightIsDraws`, `ChallengesAreUniform` of the challenge;
  `SamplesAreTheStreams`, `SamplersStayInBuffers` of the samplers; `PackingKeepsAll` of the packing loops.
  The packing half of `Inv` counts the ones already written (`k` is a cardinality);
  the unpacking half says the prefix read so far is ordered and decoded.
  For `OnlyCanonical` and `HintsArrive` the encoding of hints must be unique. `Written` says that each one
  passed is at the place its rank gives it, the row ends are set and the rest is zero; ordered bytes
  are the encoding of what they list (`OrderedEncodes`), and an encoding lists its hints
  (`EncodedIsListed`), because the ranks of a row's positions take every value once. `Malformed` ties each refusal to
  the order it found broken, which no encoding breaks.
  The invariant of the challenge counts the coefficients placed so far and says that all beyond the next are still
  zero; without the second half the count could not grow with each draw.
  `ChallengesAreUniform` holds for every degree and weight. `WaysAre` counts: a polynomial with `m` coefficients set, all below the next
  place, is made by `m!` sequences of draws, since the last draw can be undone at each of its coefficients
  (`UndoIs`, `WaysStep`); a challenge is such a polynomial for `m = TAU`.
  `SamplesAreTheStreams` holds for every block size, number of coefficients and set of good candidates. The buffer is
  the end of what was squeezed, and every candidate before the place of reading has been considered (`RejInv`), so a refill
  loses no byte and reads none twice. `GroupInv` says of `poly_uniform_seed`, bit by bit, that what is still unread
  has not been used; inside a group that the block cut off, too.
  `SamplersStayInBuffers` is about the real sizes, for loops of any duration. `StepIsRight` says of each loop of the tables that it ends
  less than an iteration's candidates beyond where it stops, and that this is below where the next one stops or
  the end of the polynomial; `FixedInv` follows counter, position and extension through them.
  `PackingKeepsAll` holds for a polynomial of any length and any table that is right for one group (`TablesWork`, which TLC
  evaluates for every table of every scheme): the bit string has the period of a group, so each is
  written and read as the first one with later coefficients (`PacksGroup`, `ReadsGroup`).
* `MLDSAProofs` (`RingAssumption`, `NonceAssumption`, `BytesAssumption`, `PowerAssumption`,
  `NoneAssumption`): `MasksDistinct`, `Invariance`, `SecretHidden`, `IsSignatureScheme`, for every
  modulus, vector length, key and mask of a ring of one coefficient. In `MasksDistinct` the indices drawn
  are exactly `0 .. L * nonce - 1`, a statement that `Cardinality(drawn) = L * nonce`
  follows from but does not imply. `NonceAssumption` is the honest limit: beyond
  `2^16 / L` attempts of one call the indices would repeat.
  The other two rest on `Inv`. After `Commit` the parts `w1 * Alpha + w0` are `A y` modulo `Q`
  (`CommitmentInv`); once the response and `c s2` are in, they are `A z - c t` (`PublicInv`): the secrets
  have left the sum, which is why any other secret within `BETA` would have done, and why the
  verifier, who knows `z`, `c` and the high half of `t`, finds `w1` again. That step is `DotLinear`:
  a row's product is linear modulo `Q`, by induction over the vector (over a set of numbers,
  `Induction`; the library's theorem takes an operator). `PartsUnique` and `HintRestores`
  say when a sum determines its high part, including the folded top multiple. No test on `z` or
  the low bits could be left out: `RespondKeeps`, `CheckLowKeeps` and `MakeHintsKeeps` each use theirs. For
  `IsSignatureScheme` a framed message must in addition determine message and context string: `Frame` and
  `FramesDiffer` use the length byte and the refusal of context strings it cannot hold.
* `SharedProofs` (`MemoryAssumption`, `SignatureAssumption`; `SizesAssumption`; `CodeAssumption`, `RowsFit`): `MessageKept`,
  `WholeOrNothing`, `WritesInPlace`, `FillsOrStops`, `WordsByRank`. After `i` bytes the last `i`
  are in place and the others still where they were; the second half is what a copy
  from the front would lose. `OpenInv` does the same for opening, which copies from the front:
  the bytes not yet copied are those that were verified, since a byte is written below the next one read.
  `FillsOrStops` holds for any number of threads, lengths, chunks and interruptions:
  `RandomInv` says of each thread which bytes are written, and ties every bad
  descriptor a thread can see to an interrupted `open` that is recorded.
  `WordsByRank` is about one thread (`OneEncoder`): with two the property is false, which is what the run `constant_sum_race` shows.
  It holds for every length, alphabet and size of a limb for which the counts that are read fit in four limbs (`RowsFit`,
  which TLC evaluates). `CodeInv` has two halves. While the table is filled, the entries before the one
  being made count the words of their length and sum, and that one the words that begin with a digit below `k`; limbs
  carry as the sum of values does. In the scan the rank is the number of words left behind plus a rest smaller
  than the number of words ahead, so that the last digit leaves one word, whose rank it is.
* `KEMProofs` (`RingAssumption`, `CorrectnessAssumption`, `PowerAssumption`): `IsIdealKEM`, the
  refinement of `IdealKEM` by each of the three schemes, for any number of recipients and calls, every
  modulus, rank, noise bound and width of compression.
  Decryption (`DecryptsRight`) is the arithmetic: the product `r A s` is in `v` and in `s u` and
  cancels, because a sum of products is linear modulo `Q` and a double sum may be taken in
  either order (`DotLinear`, `MatrixMoves`); every other term is a small product (`DotNear`) or the error
  of a compression (`CompressionNear`), and `CorrectnessAssumption` bounds their sum by a quarter
  of `Q`, where `ReadsBit` still finds the bit. It does so for the largest noise: the real parameter
  sets decrypt right with high probability, not always, and the noise that makes them fail is outside the theorem.
  The invariant says that each key handed out is the one its ciphertext determines, with coins drawn
  already. A change to a ciphertext is found out because decapsulation encrypts again with the coins that the bit
  and the recipient fix; `KeyShows`, `SharedShows` and `RejectShows` say that a key
  shows what it was made of, so that no two calls share one.
* `TreesProofs` (`TreesAssumption`, `HypertreeAssumption`, `NoLeafAssumption`, `PowerAssumption`): `SignerAndVerifierMeet`,
  `NoAddressTwice`, `NoKeyTwice`, for every height and number of trees on the stack of `treehashx1`, and
  for every depth, height and width of a digit of the hypertree.
  Of a tree `StackInv` says that what waits on the stack is the left neighbour of a node still to be made,
  and that the leaf being climbed from is the last below the current node (`EndsAt`); hence no entry is overwritten
  too early. `PathInv` gives every entry of every path at every moment: written once its node has been
  passed, not before. `AddressInv` counts the leaves and the nodes of each height that exist, over all trees, and
  says that only these have been hashed. `ClimbInv` is the verifier's pair.
  In the hypertree `LoopInv` says which fields of the three address structures the next layer can
  still see; everything else it overwrites (`Shapes`, `LayerIs`). A layer's signature is then that of
  the definition (`SignatureInv`), and completing the chains (`VerifyChain`) and climbing (`ClimbReaches`) give the
  root of the tree, which the next layer signs. `QueriesInv` writes the input of every query as a function of its address
  (`IsQuery`), so that one address cannot have two. For `NoKeyTwice` the checksum must outweigh the
  digits: `NoCover` adds up the digits (`NoLess`), and `Prefixes` reads the checksum back from its
  shifted bytes, which needs `Len2` digits to have room for the largest sum.
  `PowerAssumption` states `2^(a + b) = 2^a * 2^b` for the exponents that occur: the provers know nothing of
  powers, and TLC evaluates it on the run's constants.
* `ProviderProofs` (`NullAssumption`, `LengthAssumption`): `ReportedLengthSuffices`, with `ToldInv`,
  which ties the last reported length to the algorithm of its context; `ProviderIsKeyStore`, the refinement of
  `KeyStore`, with no bound on contexts, algorithms or calls. The invariant says that
  a flagged buffer holds a key; without it an answer could be the missing key. One
  lemma per call shows a step of the store; `Verdict` shows that the scheme's verdict
  on a context's buffer is the store's notion of a genuine signature.

Only model-checked: the liveness properties (`EventuallyFilled`, `AllVerified`), which the prover does
not reach, and two invariants of machines without parameters, for which TLC's run over the real
constants is the whole statement: `CoefficientsFit` (the programs of all schemes
at their dimensions) and `LayoutsAgree` (the parameter sets of the headers).

## 5. Limits

The permutations and compression functions, AES, and the constant tables of the
hashes are not modelled: hashes are ideal. The schemes do not expand seeds, their matrices, masks and
challenges are drawn; how one is made of hash output is what the sampling modules are
about. That a sampler finds enough good candidates is a matter of probability:
`SamplerAssumption`, `Lucky` and `MaxRefills` name what is left out. Secrecy is only stated as the combinatorial fact behind
rejection sampling. Timing is out of scope. Allocation failures are undefined
behaviour in the code and not modelled.

* 64-bit products are beyond TLC's integers: of `montgomery_reduce` of the signature
  schemes, `Growth` has the range and `NTT` the residue, not the bits.
* `a*QINV` in `reduce.c` of ML-KEM and Kyber overflows a signed `int`, which the C
  standard leaves undefined; only its low 16 bits are used, and the
  models take the wrapped product that compilers make of it.
* The tables of Aigis-sig's transforms are not transcribed: `Growth` follows its loops,
  and `NTT` leaves it out.
* The prototypes are compared by the order and kind of their arguments. The public
  header has `size_t` where `crypto_sign` and `crypto_sign_open` of the SPHINCS schemes
  are built with `unsigned long long`: the same width on 64-bit targets, and
  not on 32-bit ones.
* What `*smlen` holds after a refused context string is not documented, and no property speaks of it.

Not modelled, because there is no state or order to get wrong: the binomial
sampler and the domain bytes of the KEMs' hashes, the hash functions of the SPHINCS schemes, the AES generator of
the known-answer tests, the build configuration. Dilithium's signing loop is ML-DSA's
without a context string. The hypertree of SPHINCS-Alpha is SLH-DSA's with the
encoding that `ConstantSum` models and shorter address fields. The loop over attempts of
Aigis-sig is ML-DSA's with the tests of `AigisRounding`. Of its packing, the encoding of the
challenge as positions and signs is still to come: `Layouts` has it as bytes.

## 6. Plan

1. Done: sponge, rounding, hints, ML-DSA loop, signed messages, trees, the
   constant-sum code; the hypertree of SLH-DSA, the KEMs, the provider, SM3 and its
   modes, rejection sampling and challenges; the theorems above.
2. Done: packing tables, layouts and the public header; `RandomBytes`; the limbs of
   `uintx.c`; growth, transforms, compression; the rounding of Aigis-sig.
3. Done: the refinements of `XOF`, `OpensWhole`, `FilledOrStopped`, `LengthToldSuffices`, and the
   coefficients of the `rounding` run, `HidesSecret` and `ImplementsScheme` of ML-DSA, `Canonical` and `RoundTrip` of the hints, the refinement of
   `IdealKEM`, `RootsMeet`, `AddressesUsedOnce` and `OneMessagePerKey` of the trees, `DigestsAreSM3`; `SamplesStream`, `Uniform` and `StaysInBuffers` of the
   samplers, `EncodesByRank` of the constant-sum code, `PackingIsLossless`.
4. The challenge in an Aigis-sig signature; the byte
   offsets of the hash addresses and the index masks of `hash_message`.
