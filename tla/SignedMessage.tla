--------------------------- MODULE SignedMessage ---------------------------
(***************************************************************************)
(* crypto_sign and crypto_sign_open of ML-DSA (and of Aigis-sig, whose     *)
(* code is the same) over a flat memory: an action per byte copied.  The   *)
(* header allows the output of each call to be its input, so the bytes of  *)
(* a message may be overwritten while they are being moved.                *)
(*                                                                         *)
(* The detached calls are ideal: a signature is the bytes <<i, msg, ctx>>, *)
(* written in one step, and verifies when all of them match.               *)
(***************************************************************************)
EXTENDS Integers, Sequences

CONSTANTS Bytes,        \* message bytes; Zero is one of them
          Zero,
          Contexts,     \* context strings that may be given
          LongContexts, \* those of more than 255 bytes
          SignatureBytes,   \* CRYPTO_BYTES
          MaxLen,       \* bound: length of a message
          Garbage       \* what the memory holds at first

ASSUME MemoryAssumption ==
    /\ SignatureBytes \in Nat \ {0} /\ MaxLen \in Nat
    /\ Zero \in Bytes /\ Garbage \notin Bytes /\ LongContexts \subseteq Contexts

(* Two buffers of the size of the longest signed message.                  *)
BufferSize == SignatureBytes + MaxLen
Buffers == {0, BufferSize}
Addresses == 0 .. 2 * BufferSize - 1

VARIABLES mem,
          pc,
          i,                \* the loop index of the running call
          m, sm,            \* the pointers: message buffer, signed-message buffer
          mlen, smlen,      \* *mlen of open (-1 is SIZE_MAX), *smlen of sign
          ctx, ret,
          message           \* ghost: the message and the context string that were signed

vars == <<mem, pc, i, m, sm, mlen, smlen, ctx, ret, message>>

Slice(start, n) == [x \in 1 .. n |-> mem[start + x - 1]]
Strings == UNION {[1 .. n -> Bytes] : n \in 0 .. MaxLen}

SignatureByte(x, msg, context) == <<x, msg, context>>

(* Ideal signatures: no byte that is not theirs stands in for one of them. *)
ASSUME SignatureAssumption ==
    \A x \in 0 .. SignatureBytes - 1, msg \in Strings, context \in Contexts :
        SignatureByte(x, msg, context) \notin Bytes

(* The caller has put a message of mlen bytes at m.  Between the calls the *)
(* caller may reuse pointers as it likes; mlen is the argument of sign.    *)
Init ==
    /\ m \in Buffers /\ sm = 0
    /\ \E msg \in Strings :
           /\ mem = [a \in Addresses |-> IF a - m \in 0 .. Len(msg) - 1
                                         THEN msg[a - m + 1] ELSE Garbage]
           /\ ctx \in Contexts
           /\ message = <<msg, ctx>>
           /\ mlen = Len(msg)
    /\ i = 0 /\ smlen = 0 /\ ret = 0
    /\ pc = "copy"

-----------------------------------------------------------------------------
(* The other direction. *)
FromFront(n) == i

(* From the back, one too far. *)
FromBehind(n) == n - i

(* sm[CRYPTO_BYTES + mlen - 1 - i] = m[mlen - 1 - i] *)
FromBack(n) == n - 1 - i

CopyIn ==
    /\ pc = "copy"
    /\ IF i < mlen
       THEN /\ mem' = [mem EXCEPT ![sm + SignatureBytes + FromBack(mlen)] = mem[m + FromBack(mlen)]]
            /\ i' = i + 1
            /\ UNCHANGED pc
       ELSE /\ pc' = "sign"
            /\ UNCHANGED <<mem, i>>
    /\ UNCHANGED <<m, sm, mlen, smlen, ctx, ret, message>>

(* crypto_sign_signature on the bytes just moved, then *smlen += mlen: a   *)
(* context string that is too long leaves *smlen to the caller's value.    *)
SignDetached ==
    /\ pc = "sign"
    /\ IF ctx \in LongContexts
       THEN /\ ret' = -1
            /\ smlen' = smlen + mlen
            /\ UNCHANGED mem
       ELSE LET msg == Slice(sm + SignatureBytes, mlen)
            IN  /\ mem' = [a \in Addresses |-> IF a - sm \in 0 .. SignatureBytes - 1
                                               THEN SignatureByte(a - sm, msg, ctx) ELSE mem[a]]
                /\ ret' = 0
                /\ smlen' = SignatureBytes + mlen
    /\ pc' = "signed"
    /\ UNCHANGED <<i, m, sm, mlen, ctx, message>>

(* The caller: the signed message may be cut, a byte of it changed, and it *)
(* is opened under some context string into either buffer.                 *)
Transmit ==
    /\ pc = "signed" /\ ret = 0
    /\ \E length \in 0 .. smlen : smlen' = length
    /\ \/ UNCHANGED mem
       \/ \E a \in sm .. sm + smlen - 1, b \in Bytes : mem' = [mem EXCEPT ![a] = b]
    /\ ctx' \in Contexts
    /\ m' \in Buffers
    /\ mlen' = 0 /\ i' = 0
    /\ pc' = "open"
    /\ UNCHANGED <<sm, ret, message>>

-----------------------------------------------------------------------------
(* crypto_sign_verify(sm, CRYPTO_BYTES, sm + CRYPTO_BYTES, n, ctx, ...) *)
Verifies(n) ==
    /\ ctx \notin LongContexts
    /\ \A x \in 0 .. SignatureBytes - 1 :
           mem[sm + x] = SignatureByte(x, Slice(sm + SignatureBytes, n), ctx)

TooShort == smlen < SignatureBytes

BadSignature == pc' = "badsig" /\ mlen' = -1

Open ==
    /\ pc = "open"
    /\ \/ /\ TooShort
          /\ BadSignature
       \/ /\ ~TooShort
          /\ IF Verifies(smlen - SignatureBytes)
             THEN pc' = "good" /\ mlen' = smlen - SignatureBytes
             ELSE BadSignature
    /\ UNCHANGED <<mem, i, m, sm, smlen, ctx, ret, message>>

(* m[i] = sm[CRYPTO_BYTES + i] *)
CopyOut ==
    /\ pc = "good"
    /\ IF i < mlen
       THEN /\ mem' = [mem EXCEPT ![m + i] = mem[sm + SignatureBytes + i]]
            /\ i' = i + 1
            /\ UNCHANGED <<pc, ret>>
       ELSE /\ ret' = 0
            /\ pc' = "opened"
            /\ UNCHANGED <<mem, i>>
    /\ UNCHANGED <<m, sm, mlen, smlen, ctx, message>>

(* Only the room of the message is cleared. *)
ClearedToMessage == smlen - SignatureBytes

(* for(i = 0; i < smlen; ++i) m[i] = 0; *)
ClearedTo == smlen

Clear ==
    /\ pc = "badsig"
    /\ IF i < ClearedTo
       THEN /\ mem' = [mem EXCEPT ![m + i] = Zero]
            /\ i' = i + 1
            /\ UNCHANGED <<pc, ret>>
       ELSE /\ ret' = -1
            /\ pc' = "opened"
            /\ UNCHANGED <<mem, i>>
    /\ UNCHANGED <<m, sm, mlen, smlen, ctx, message>>

Next == CopyIn \/ SignDetached \/ Transmit \/ Open \/ CopyOut \/ Clear

Spec == Init /\ [][Next]_vars

-----------------------------------------------------------------------------
(* The move in front of signing may run over the message itself, yet what  *)
(* is signed and what follows the signature is the caller's message.       *)
SignsTheMessage ==
    pc = "signed" => Slice(sm + SignatureBytes, mlen) = message[1]

(* Opening is whole or nothing.  On success the message is back, whichever *)
(* buffer it went to; on failure no byte of the smlen bytes that the       *)
(* caller gave for it is left as it was.                                   *)
OpensWhole ==
    pc = "opened" =>
        IF ret = 0
        THEN /\ mlen = Len(message[1]) /\ Slice(m, mlen) = message[1]
             /\ ctx = message[2]
        ELSE mlen = -1 /\ \A x \in 0 .. smlen - 1 : mem[m + x] = Zero

(* The bytes of the buffer a call does not write to stay what they were:   *)
(* sign writes to the signed message only, open to the message buffer.     *)
InPlace(a) ==
    IF pc \in {"copy", "sign"} THEN a - sm \in 0 .. SignatureBytes + mlen - 1
                               ELSE a - m \in 0 .. smlen - 1

WritesItsBuffer ==
    [][pc # "signed" => \A a \in Addresses : mem'[a] # mem[a] => InPlace(a)]_vars

=============================================================================
