----------------------------- MODULE Compression -----------------------------
(***************************************************************************)
(* What rounding does to a coefficient of a ciphertext, in ML-KEM and      *)
(* Kyber (Q = 3329) and in Aigis-enc (Q = 7681).                           *)
(*                                                                         *)
(* A job of kind "v" takes one bit through indcpa_enc and indcpa_dec, or   *)
(* owcpa_enc and owcpa_dec: it is added to x, the coefficient that both    *)
(* sides compute and cancel, compressed, decompressed, and read back.  The *)
(* receiver's x differs by noise, and each side has whichever              *)
(* representative its transform left.  A job of kind "u" compresses and    *)
(* decompresses a coefficient of the vector.                               *)
(***************************************************************************)
EXTENDS Integers

CONSTANTS
    Widths,     \* of a coefficient: pairs of a scheme and d, for v
    UWidths,    \* the same for the vector
    Margin,     \* how far from a step of the rounding the inputs start
    Spread      \* how far from its extremes the noise is taken

Modulus(s) == IF s = "kyber" THEN 3329 ELSE 7681

(* What the transform returns: (-Q, Q); the comment above Aigis-enc's      *)
(* montgomery_reduce has 7441.                                             *)
Transformed(s) == LET most == IF s = "kyber" THEN 3328 ELSE 7441 IN -most .. most

(* The noise that is added to v: ETA2 = 2 and ETA_E <= 8. *)
Eta(s) == IF s = "kyber" THEN 2 ELSE 8

-----------------------------------------------------------------------------
Centred(q, x) == LET r == x % q IN IF r > q \div 2 THEN r - q ELSE r
Abs(x) == IF x < 0 THEN -x ELSE x

(* Q / 2^(d+1), rounded: half a step. *)
ErrorBound(q, d) == (q + 2^d) \div 2^(d + 1)

AddIfNegative(q, x) == IF x < 0 THEN x + q ELSE x

(* barrett_reduce of Kyber and ML-KEM, poly_caddq2 of Aigis-enc (caddq for *)
(* the vector, which needs Q once).                                        *)
Reduce(s, x) == IF s = "kyber" THEN x - ((20159 * x + 33554432) \div 67108864) * 3329
                ELSE AddIfNegative(7681, AddIfNegative(7681, x))

(* poly_frommsg *)
FromBit(q, bit) == bit * ((q + 1) \div 2)

(* Mutant: a negative coefficient is converted to uint16_t as it is. *)
CompressNegative(s, d, x) ==
    LET q == Modulus(s)
    IN  (((x % 65536) * 2^d + q \div 2) \div q) % 2^d

(* poly_compress and polyvec_compress; only Kyber and ML-KEM bring the     *)
(* coefficient into 0..Q-1 themselves.                                     *)
Compress(s, d, x) ==
    LET q == Modulus(s)
        t == IF s = "kyber" THEN AddIfNegative(q, x) ELSE x
    IN  ((t * 2^d + q \div 2) \div q) % 2^d

(* poly_decompress and polyvec_decompress *)
Decompress(s, d, y) == (y * Modulus(s) + 2^(d - 1)) \div 2^d

(* poly_tomsg *)
ToBit(s, x) ==
    LET q == Modulus(s)
        t == IF s = "kyber" THEN AddIfNegative(q, x) ELSE x
    IN  ((2 * t + q \div 2) \div q) % 2

-----------------------------------------------------------------------------
VARIABLES
    task,       \* [kind, of, d, bit, x, e, n]: n is all the noise, e the part in v
    pc,
    v,          \* the coefficient at hand
    sent        \* what was compressed

vars == <<task, pc, v, sent>>

(* The coefficients where the compressed value changes, and those by them, *)
(* with both representatives.                                              *)
Steps(s, d) ==
    LET q == Modulus(s)
        near == {(j * q - q \div 2) \div 2^d + m : j \in 0 .. 2^d, m \in -Margin .. Margin}
    IN  (near \cup {x - q : x \in near}) \cap Transformed(s)

(* The most noise that leaves the error of the rounding room below Q/4. *)
Tolerated(s, d) == Modulus(s) \div 4 - 1 - ErrorBound(Modulus(s), d)

Noises(most) == {m + i : m \in {-most, 0, most}, i \in -Spread .. Spread} \cap -most .. most

Init ==
    /\ \/ \E w \in Widths, bit \in {0, 1} :
             \E x \in Steps(w[1], w[2]), e \in Noises(Eta(w[1])),
                n \in Noises(Tolerated(w[1], w[2])) :
                task = [kind |-> "v", of |-> w[1], d |-> w[2], bit |-> bit,
                        x |-> x, e |-> e, n |-> n]
       \/ \E w \in UWidths : \E x \in Steps(w[1], w[2]) :
             task = [kind |-> "u", of |-> w[1], d |-> w[2], bit |-> 0,
                     x |-> x, e |-> 0, n |-> 0]
    /\ pc = "encode" /\ v = task.x /\ sent = 0

Q == Modulus(task.of)

(* Kyber adds the message to v, Aigis-enc takes it away. *)
Encode ==
    /\ pc = "encode"
    /\ LET m == FromBit(Q, task.bit)
       IN  v' = Reduce(task.of, v + task.e + (IF task.of = "kyber" THEN m ELSE -m))
    /\ pc' = "pack"
    /\ UNCHANGED <<task, sent>>

Pack ==
    /\ pc = "pack"
    /\ v' = Compress(task.of, task.d, v)
    /\ sent' = v
    /\ pc' = "unpack"
    /\ UNCHANGED task

Unpack ==
    /\ pc = "unpack"
    /\ v' = Decompress(task.of, task.d, v)
    /\ pc' = IF task.kind = "v" THEN "subtract" ELSE "done"
    /\ UNCHANGED <<task, sent>>

(* v - mp in Kyber and ML-KEM, mp - v in Aigis-enc, then reduced. *)
Subtract ==
    /\ pc = "subtract"
    /\ \E mp \in {task.x + task.e - task.n + i * Q : i \in -2 .. 2} \cap Transformed(task.of) :
          v' = Reduce(task.of, IF task.of = "kyber" THEN v - mp ELSE mp - v)
    /\ pc' = "decode"
    /\ UNCHANGED <<task, sent>>

Decode ==
    /\ pc = "decode"
    /\ v' = ToBit(task.of, v)
    /\ pc' = "read"
    /\ UNCHANGED <<task, sent>>

Next == Encode \/ Pack \/ Unpack \/ Subtract \/ Decode

Spec == Init /\ [][Next]_vars

-----------------------------------------------------------------------------
(* What is packed fits d bits, a coefficient comes back within half a step *)
(* of the rounding, around the end of 0..Q-1 too, and the bit that was     *)
(* encrypted is the one read as long as noise and rounding together stay   *)
(* below a quarter of Q (poly_compress to poly_tomsg).                     *)
BitSurvives ==
    /\ pc = "unpack" => v \in 0 .. 2^task.d - 1
    /\ pc \in {"subtract", "done"} => Abs(Centred(Q, v - sent)) <= ErrorBound(Q, task.d)
    /\ pc = "read" => v = task.bit

=============================================================================
