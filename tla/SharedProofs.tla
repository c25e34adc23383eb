---------------------------- MODULE SharedProofs ----------------------------
(***************************************************************************)
(* What is proved of the calls that share memory: crypto_sign and crypto_  *)
(* sign_open in place, for every length of message and signature;          *)
(* randombytes, for any number of threads and any request; and encode of   *)
(* SPHINCS-Alpha, for every length and alphabet of the code, when one      *)
(* thread calls it.                                                        *)
(***************************************************************************)
EXTENDS MCShared, SequenceTheorems, FiniteSetTheorems, WellFoundedInduction, TLAPS

(***************************************************************************)
(* The move of crypto_sign is right for every length of message and        *)
(* signature, in place or not.  After i bytes the last i of the message    *)
(* are where they belong and the others still where the caller put them.   *)
(***************************************************************************)
Text == message[1]

Moved(n) == \A y \in 1 .. mlen : y > mlen - n => mem[sm + SignatureBytes + y - 1] = Text[y]
Unmoved(n) == \A y \in 1 .. mlen : y <= mlen - n => mem[m + y - 1] = Text[y]

Shape ==
    /\ sm = 0 /\ m \in Buffers
    /\ mem = [a \in Addresses |-> mem[a]]
    /\ mlen \in 0 .. MaxLen
    /\ Text \in [1 .. mlen -> Bytes]

MoveInv ==
    /\ pc \in {"copy", "sign", "signed"} => Shape
    /\ pc = "copy" => i \in 0 .. mlen /\ Moved(i) /\ Unmoved(i)
    /\ pc \in {"sign", "signed"} => Moved(mlen)

(* A string of the model is a sequence whose length is what it is made of. *)
LEMMA StringShape ==
    ASSUME NEW msg \in Strings
    PROVE  Len(msg) \in 0 .. MaxLen /\ msg \in [1 .. Len(msg) -> Bytes]
<1>1. PICK n \in 0 .. MaxLen : msg \in [1 .. n -> Bytes]
  BY DEF Strings
<1>2. n \in Nat /\ msg \in Seq(Bytes)
  BY <1>1, MemoryAssumption, SeqDef
<1>3. Len(msg) = n
  BY <1>1, <1>2, LenProperties
<1> QED  BY <1>1, <1>3

LEMMA MoveInit == Init => MoveInv
<1> SUFFICES ASSUME Init PROVE MoveInv
  OBVIOUS
<1> USE MemoryAssumption
<1>1. PICK msg \in Strings :
          /\ mem = [a \in Addresses |-> IF a - m \in 0 .. Len(msg) - 1
                                        THEN msg[a - m + 1] ELSE Garbage]
          /\ message = <<msg, ctx>> /\ mlen = Len(msg)
  BY DEF Init
<1>2. pc = "copy" /\ i = 0 /\ sm = 0 /\ m \in Buffers /\ Text = msg
  BY <1>1 DEF Init, Text
<1>3. mlen \in 0 .. MaxLen /\ Text \in [1 .. mlen -> Bytes]
  BY <1>1, <1>2, StringShape
<1>4. ASSUME NEW y \in 1 .. mlen
      PROVE  mem[m + y - 1] = Text[y]
  <2>1. m + y - 1 \in Addresses /\ (m + y - 1) - m \in 0 .. mlen - 1 /\ (m + y - 1) - m + 1 = y
    BY <1>2, <1>3 DEF Addresses, Buffers, BufferSize
  <2> QED  BY <2>1, <1>1, <1>2
<1>5. mem = [a \in Addresses |-> mem[a]]
  BY <1>1
<1>6. Moved(0) /\ Unmoved(0)
  BY <1>3, <1>4 DEF Moved, Unmoved
<1> QED  BY <1>2, <1>3, <1>5, <1>6 DEF MoveInv, Shape

(* The byte that moves is neither one that is still to move nor one that   *)
(* has been placed.                                                        *)
LEMMA CopyStep == MoveInv /\ CopyIn => MoveInv'
<1> SUFFICES ASSUME MoveInv, CopyIn PROVE MoveInv'
  OBVIOUS
<1> USE MemoryAssumption
<1>1. Shape /\ i \in 0 .. mlen /\ Moved(i) /\ Unmoved(i) /\ pc = "copy"
  BY DEF MoveInv, CopyIn
<1>2. UNCHANGED <<m, sm, mlen, message>> /\ Text' = Text
  BY DEF CopyIn, Text
<1>3. CASE i < mlen
  <2> DEFINE from == m + mlen - 1 - i
             to == SignatureBytes + mlen - 1 - i
  <2>1. /\ i' = i + 1 /\ pc' = pc
        /\ mem' = [mem EXCEPT ![to] = mem[from]]
    <3>1. sm + SignatureBytes + (mlen - 1 - i) = to /\ m + (mlen - 1 - i) = from
      BY <1>1 DEF Shape, Buffers, BufferSize
    <3> QED  BY <1>3, <1>1, <3>1 DEF CopyIn, FromBack
  <2>2. to \in Addresses
    BY <1>1, <1>3 DEF Shape, Addresses, BufferSize
  <2>3. mem[from] = Text[mlen - i]
    <3>1. mlen - i \in 1 .. mlen /\ mlen - i <= mlen - i /\ m + (mlen - i) - 1 = from
      BY <1>1, <1>3 DEF Shape, Buffers, BufferSize
    <3> QED  BY <3>1, <1>1 DEF Unmoved
  <2>4. \A a \in Addresses : mem'[a] = IF a = to THEN Text[mlen - i] ELSE mem[a]
    BY <2>1, <2>2, <2>3, <1>1 DEF Shape
  <2>5. mem' = [a \in Addresses |-> mem'[a]]
    BY <2>1, <1>1 DEF Shape
  <2> HIDE DEF from, to
  <2>6. Moved(i)'
    <3> SUFFICES ASSUME NEW y \in 1 .. mlen, y > mlen - (i + 1)
                 PROVE  mem'[SignatureBytes + y - 1] = Text[y]
      <4>1. sm' = 0
        BY <1>1, <1>2 DEF Shape
      <4>2. 0 + SignatureBytes = SignatureBytes
        OBVIOUS
      <4> QED  BY <4>1, <4>2, <1>2, <2>1 DEF Moved
    <3>1. SignatureBytes + y - 1 \in Addresses
      BY <1>1 DEF Shape, Addresses, BufferSize
    <3>2. CASE y = mlen - i
      BY <3>1, <3>2, <2>4, <1>1 DEF to, Shape
    <3>3. CASE y # mlen - i
      <4>1. y > mlen - i /\ SignatureBytes + y - 1 # to
        BY <3>3, <1>1 DEF to, Shape
      <4>2. mem[sm + SignatureBytes + y - 1] = Text[y]
        BY <4>1, <1>1 DEF Moved
      <4>3. sm + SignatureBytes + y - 1 = SignatureBytes + y - 1
        BY <1>1 DEF Shape
      <4> QED  BY <4>1, <4>2, <4>3, <3>1, <2>4
    <3> QED  BY <3>2, <3>3
  <2>7. Unmoved(i)'
    <3> SUFFICES ASSUME NEW y \in 1 .. mlen, y <= mlen - (i + 1)
                 PROVE  mem'[m + y - 1] = Text[y]
      BY <1>2, <2>1 DEF Unmoved
    <3>1. m + y - 1 \in Addresses /\ m + y - 1 # to
      BY <1>1 DEF Shape, Addresses, Buffers, BufferSize, to
    <3>2. mem[m + y - 1] = Text[y]
      BY <1>1 DEF Unmoved, Shape
    <3> QED  BY <3>1, <3>2, <2>4
  <2>8. Shape'
    BY <1>1, <1>2, <2>5 DEF Shape, Addresses, BufferSize, Buffers
  <2>9. i' \in 0 .. mlen'
    BY <1>1, <1>2, <1>3, <2>1 DEF Shape
  <2> QED  BY <2>1, <2>6, <2>7, <2>8, <2>9, <1>1 DEF MoveInv
<1>4. CASE ~(i < mlen)
  <2>1. pc' = "sign" /\ UNCHANGED <<mem, i>> /\ i = mlen
    BY <1>1, <1>4 DEF CopyIn, Shape
  <2> QED  BY <2>1, <1>1, <1>2 DEF MoveInv, Shape, Moved, Text
<1> QED  BY <1>3, <1>4

(* The signature goes in front of the message. *)
LEMMA SignStep == MoveInv /\ SignDetached => MoveInv'
<1> SUFFICES ASSUME MoveInv, SignDetached PROVE MoveInv'
  OBVIOUS
<1> USE MemoryAssumption
<1>1. Shape /\ Moved(mlen) /\ pc' = "signed" /\ UNCHANGED <<m, sm, mlen, message>>
  BY DEF MoveInv, SignDetached
<1>2. Text' = Text
  BY <1>1 DEF Text
<1>3. CASE ctx \in LongContexts
  BY <1>1, <1>2, <1>3 DEF SignDetached, MoveInv, Shape, Moved
<1>4. CASE ctx \notin LongContexts
  <2>1. PICK msg : mem' = [a \in Addresses |-> IF a - sm \in 0 .. SignatureBytes - 1
                                               THEN SignatureByte(a - sm, msg, ctx) ELSE mem[a]]
    BY <1>4 DEF SignDetached
  <2>2. Moved(mlen)'
    <3> SUFFICES ASSUME NEW y \in 1 .. mlen
                 PROVE  mem'[SignatureBytes + y - 1] = Text[y]
      BY <1>1, <1>2 DEF Moved, Shape
    <3>1. /\ SignatureBytes + y - 1 \in Addresses
          /\ ~((SignatureBytes + y - 1) - sm \in 0 .. SignatureBytes - 1)
      BY <1>1 DEF Shape, Addresses, BufferSize
    <3>2. mem[sm + SignatureBytes + y - 1] = Text[y]
      <4>1. y > mlen - mlen
        BY <1>1 DEF Shape
      <4> QED  BY <4>1, <1>1 DEF Moved
    <3>3. sm + SignatureBytes + y - 1 = SignatureBytes + y - 1
      BY <1>1 DEF Shape
    <3> QED  BY <3>1, <3>2, <3>3, <2>1
  <2>3. mem' = [a \in Addresses |-> mem'[a]]
    BY <2>1
  <2> QED  BY <1>1, <1>2, <2>2, <2>3 DEF MoveInv, Shape, Addresses, BufferSize, Buffers
<1> QED  BY <1>3, <1>4

LEMMA MoveStep == MoveInv /\ [Next]_vars => MoveInv'
<1> SUFFICES ASSUME MoveInv, [Next]_vars PROVE MoveInv'
  OBVIOUS
<1>1. CASE UNCHANGED vars
  BY <1>1 DEF vars, MoveInv, Shape, Moved, Unmoved, Text
<1>2. CASE CopyIn
  BY <1>2, CopyStep
<1>3. CASE SignDetached
  BY <1>3, SignStep
<1>4. CASE Transmit
  BY <1>4 DEF Transmit, MoveInv
<1>5. CASE Open
  BY <1>5 DEF Open, BadSignature, MoveInv
<1>6. CASE CopyOut
  BY <1>6 DEF CopyOut, MoveInv
<1>7. CASE Clear
  BY <1>7 DEF Clear, MoveInv
<1> QED  BY <1>1, <1>2, <1>3, <1>4, <1>5, <1>6, <1>7 DEF Next

(* What follows the signature is the message the caller passed, wherever   *)
(* it was.                                                                 *)
THEOREM MessageKept == Spec => []SignsTheMessage
<1>1. MoveInv => SignsTheMessage
  <2> SUFFICES ASSUME MoveInv, pc = "signed"
               PROVE  Slice(sm + SignatureBytes, mlen) = message[1]
    BY DEF SignsTheMessage
  <2>1. Shape /\ Moved(mlen)
    BY DEF MoveInv
  <2>2. \A y \in 1 .. mlen : mem[sm + SignatureBytes + y - 1] = Text[y]
    BY <2>1 DEF Moved, Shape
  <2>3. Text = [y \in 1 .. mlen |-> Text[y]]
    BY <2>1 DEF Shape
  <2> QED  BY <2>2, <2>3 DEF Slice, Text
<1> QED  BY <1>1, MoveInit, MoveStep, PTL DEF Spec

-----------------------------------------------------------------------------
(***************************************************************************)
(* Opening, for every length of message and signature and wherever the     *)
(* message goes.  A signed message that arrives is the one that was made   *)
(* but for one byte; one that verifies is the very same; and a copy from   *)
(* the front to the front of the same buffer has overwritten only bytes    *)
(* that were copied already.                                               *)
(***************************************************************************)
Size == Len(Text)

(* The signed message as crypto_sign left it. *)
Image(y) == IF y < SignatureBytes THEN SignatureByte(y, Text, message[2])
                                  ELSE Text[y - SignatureBytes + 1]

Arrived ==
    \E a \in Addresses :
        \A y \in 0 .. SignatureBytes + Size - 1 :
            mem[y] = Image(y) \/ (y = a /\ mem[y] \in Bytes)

Given ==
    /\ sm = 0 /\ m \in Buffers
    /\ mem = [a \in Addresses |-> mem[a]]
    /\ Size \in 0 .. MaxLen /\ Text \in [1 .. Size -> Bytes] /\ message[2] \in Contexts
    /\ ctx \in Contexts

OpenInv ==
    /\ pc \in {"copy", "sign", "signed"} => Given /\ mlen = Size /\ ctx = message[2]
    /\ pc = "signed" /\ ret = 0 =>
           /\ smlen = SignatureBytes + Size
           /\ \A y \in 0 .. SignatureBytes + Size - 1 : mem[y] = Image(y)
    /\ pc \in {"open", "good", "badsig"} =>
           Given /\ smlen \in 0 .. SignatureBytes + Size
    /\ pc = "open" => i = 0 /\ Arrived
    /\ pc = "good" =>
           /\ mlen = Size /\ smlen = SignatureBytes + Size /\ ctx = message[2]
           /\ i \in 0 .. Size
           /\ \A y \in 1 .. Size : y > i => mem[SignatureBytes + y - 1] = Text[y]
           /\ \A y \in 1 .. Size : y <= i => mem[m + y - 1] = Text[y]
    /\ pc = "badsig" =>
           mlen = -1 /\ i \in 0 .. smlen /\ \A y \in 0 .. i - 1 : mem[m + y] = Zero
    /\ OpensWhole

LEMMA OpenInit == Init => OpenInv
<1> SUFFICES ASSUME Init PROVE OpenInv
  OBVIOUS
<1> USE MemoryAssumption
<1>1. PICK msg \in Strings :
          /\ mem = [a \in Addresses |-> IF a - m \in 0 .. Len(msg) - 1
                                        THEN msg[a - m + 1] ELSE Garbage]
          /\ message = <<msg, ctx>> /\ mlen = Len(msg) /\ ctx \in Contexts
  BY DEF Init
<1>2. pc = "copy" /\ sm = 0 /\ m \in Buffers /\ Text = msg /\ message[2] = ctx
  BY <1>1 DEF Init, Text
<1>3. Size \in 0 .. MaxLen /\ Text \in [1 .. Size -> Bytes] /\ mlen = Size
  BY <1>1, <1>2, StringShape DEF Size
<1>4. mem = [a \in Addresses |-> mem[a]]
  BY <1>1
<1> QED  BY <1>1, <1>2, <1>3, <1>4 DEF OpenInv, Given, OpensWhole

(* The move only changes the memory. *)
LEMMA CopyOpen == OpenInv /\ CopyIn => OpenInv'
<1> SUFFICES ASSUME OpenInv, CopyIn PROVE OpenInv'
  OBVIOUS
<1>1. Given /\ mlen = Size /\ ctx = message[2]
  BY DEF OpenInv, CopyIn
<1>2. UNCHANGED <<m, sm, mlen, smlen, ctx, ret, message>> /\ pc' \in {"copy", "sign"}
  BY DEF CopyIn
<1>3. Text' = Text /\ Size' = Size
  BY <1>2 DEF Text, Size
<1>4. mem' = [a \in Addresses |-> mem'[a]]
  BY <1>1 DEF CopyIn, Given
<1> QED  BY <1>1, <1>2, <1>3, <1>4 DEF OpenInv, Given, OpensWhole, Addresses, BufferSize, Buffers

(* The signed bytes are the caller's message, by MoveInv. *)
LEMMA SignOpen == MoveInv /\ OpenInv /\ SignDetached => OpenInv'
<1> SUFFICES ASSUME MoveInv, OpenInv, SignDetached PROVE OpenInv'
  OBVIOUS
<1> USE MemoryAssumption
<1>1. Given /\ mlen = Size /\ ctx = message[2] /\ Shape /\ Moved(mlen)
  BY DEF OpenInv, MoveInv, SignDetached
<1>2. UNCHANGED <<i, m, sm, mlen, ctx, message>> /\ pc' = "signed"
  BY DEF SignDetached
<1>3. Text' = Text /\ Size' = Size
  BY <1>2 DEF Text, Size
<1>4. CASE ctx \in LongContexts
  BY <1>1, <1>2, <1>3, <1>4 DEF SignDetached, OpenInv, Given, OpensWhole
<1>5. CASE ctx \notin LongContexts
  <2> DEFINE msg == Slice(sm + SignatureBytes, mlen)
  <2>1. /\ smlen' = SignatureBytes + mlen
        /\ mem' = [a \in Addresses |-> IF a - sm \in 0 .. SignatureBytes - 1
                                        THEN SignatureByte(a - sm, msg, ctx) ELSE mem[a]]
    BY <1>5 DEF SignDetached
  <2>2. \A y \in 1 .. mlen : mem[sm + SignatureBytes + y - 1] = Text[y]
    <3>1. \A y \in 1 .. mlen : y > mlen - mlen
      BY <1>1 DEF Shape
    <3> QED  BY <3>1, <1>1 DEF Moved
  <2>3. msg = Text
    <3>1. Text = [y \in 1 .. mlen |-> Text[y]]
      BY <1>1 DEF Given
    <3> QED  BY <3>1, <2>2 DEF Slice
  <2> HIDE DEF msg
  <2>4. ASSUME NEW y \in 0 .. SignatureBytes + Size - 1
        PROVE  mem'[y] = Image(y)
    <3>1. y \in Addresses /\ y - sm = y
      BY <1>1 DEF Given, Addresses, BufferSize
    <3>2. CASE y < SignatureBytes
      BY <3>1, <3>2, <2>1, <2>3, <1>1 DEF Image
    <3>3. CASE y >= SignatureBytes
      <4>1. y - SignatureBytes + 1 \in 1 .. mlen
            /\ sm + SignatureBytes + (y - SignatureBytes + 1) - 1 = y
        BY <3>3, <1>1 DEF Given
      <4>2. mem[y] = Text[y - SignatureBytes + 1]
        BY <4>1, <2>2
      <4> QED  BY <3>1, <3>3, <4>2, <2>1 DEF Image
    <3> QED  BY <3>2, <3>3
  <2>5. \A y \in 0 .. SignatureBytes + Size - 1 : Image(y)' = Image(y)
    BY <1>2, <1>3 DEF Image
  <2>6. mem' = [a \in Addresses |-> mem'[a]]
    BY <2>1
  <2> QED  BY <1>1, <1>2, <1>3, <2>1, <2>4, <2>5, <2>6
           DEF OpenInv, Given, OpensWhole, Addresses, BufferSize, Buffers
<1> QED  BY <1>4, <1>5

(* One byte at most is another one when a signed message arrives. *)
LEMMA TransmitOpen == OpenInv /\ Transmit => OpenInv'
<1> SUFFICES ASSUME OpenInv, Transmit PROVE OpenInv'
  OBVIOUS
<1> USE MemoryAssumption
<1>1. /\ Given /\ smlen = SignatureBytes + Size
      /\ \A y \in 0 .. SignatureBytes + Size - 1 : mem[y] = Image(y)
  BY DEF OpenInv, Transmit
<1>2. /\ UNCHANGED <<sm, message>> /\ pc' = "open" /\ i' = 0 /\ ctx' \in Contexts
      /\ m' \in Buffers /\ smlen' \in 0 .. smlen
  BY DEF Transmit
<1>3. Text' = Text /\ Size' = Size /\ \A y : Image(y)' = Image(y)
  BY <1>2 DEF Text, Size, Image
<1>4. \E a \in Addresses :
          \A y \in 0 .. SignatureBytes + Size - 1 :
              mem'[y] = Image(y) \/ (y = a /\ mem'[y] \in Bytes)
  <2>1. CASE UNCHANGED mem
    <3>1. 0 \in Addresses
      BY DEF Addresses, BufferSize
    <3> QED  BY <2>1, <3>1, <1>1
  <2>2. ASSUME NEW a \in sm .. sm + smlen - 1, NEW b \in Bytes, mem' = [mem EXCEPT ![a] = b]
        PROVE  <1>4
    <3>1. a \in Addresses /\ \A y \in 0 .. SignatureBytes + Size - 1 : y \in Addresses
      BY <1>1 DEF Given, Addresses, BufferSize
    <3>2. \A y \in Addresses : mem'[y] = IF y = a THEN b ELSE mem[y]
      BY <2>2, <1>1 DEF Given
    <3> QED  BY <3>1, <3>2, <1>1
  <2> QED  BY <2>1, <2>2 DEF Transmit
<1>5. mem' = [a \in Addresses |-> mem'[a]]
  BY <1>1 DEF Transmit, Given
<1>6. Arrived'
  BY <1>3, <1>4 DEF Arrived, Addresses, BufferSize
<1> QED  BY <1>1, <1>2, <1>3, <1>5, <1>6
         DEF OpenInv, Given, OpensWhole, Addresses, BufferSize, Buffers

(* What verifies is what was signed: had a byte of the signature been      *)
(* another one, it would be no byte of a signature, and had one of the     *)
(* message been, or the length, the signature would be another.            *)
LEMMA VerifiesOnlySigned ==
    ASSUME OpenInv, pc = "open", NEW n \in Nat, smlen = SignatureBytes + n, Verifies(n)
    PROVE  /\ n = Size /\ ctx = message[2]
           /\ \A y \in 1 .. Size : mem[SignatureBytes + y - 1] = Text[y]
<1> USE MemoryAssumption
<1>1. Given /\ Arrived /\ n \in 0 .. Size
  BY DEF OpenInv, Given
<1> DEFINE msg == Slice(sm + SignatureBytes, n)
<1>2. msg = [y \in 1 .. n |-> mem[SignatureBytes + y - 1]]
  BY <1>1 DEF Slice, Given
<1>0. 0 < SignatureBytes /\ 0 \in 0 .. SignatureBytes - 1 /\ 0 \in 0 .. SignatureBytes + Size - 1
  BY <1>1 DEF Given
<1>3. mem[0] = SignatureByte(0, msg, ctx)
  <2>1. mem[sm + 0] = SignatureByte(0, msg, ctx)
    BY <1>0 DEF Verifies
  <2> QED  BY <2>1, <1>1 DEF Given
<1> HIDE DEF msg
<1>4. PICK a \in Addresses :
          \A y \in 0 .. SignatureBytes + Size - 1 :
              mem[y] = Image(y) \/ (y = a /\ mem[y] \in Bytes)
  BY <1>1 DEF Arrived
<1>5. msg \in Strings
  <2>1. ASSUME NEW y \in 1 .. n PROVE mem[SignatureBytes + y - 1] \in Bytes
    <3>1. SignatureBytes + y - 1 \in 0 .. SignatureBytes + Size - 1
      BY <1>1 DEF Given
    <3>2. Image(SignatureBytes + y - 1) = Text[y] /\ Text[y] \in Bytes
      <4>1. y \in 1 .. Size /\ ~(SignatureBytes + y - 1 < SignatureBytes)
            /\ SignatureBytes + y - 1 - SignatureBytes + 1 = y
        BY <1>1 DEF Given
      <4> QED  BY <4>1, <1>1 DEF Image, Given
    <3> QED  BY <3>1, <3>2, <1>4
  <2>2. msg \in [1 .. n -> Bytes]
    BY <2>1, <1>2
  <2>3. n \in 0 .. MaxLen
    BY <1>1 DEF Given
  <2> QED  BY <2>2, <2>3 DEF Strings
<1>6. mem[0] \notin Bytes
  BY <1>0, <1>1, <1>3, <1>5, SignatureAssumption DEF Given
<1>7. mem[0] = SignatureByte(0, Text, message[2])
  <2>1. mem[0] = Image(0)
    BY <1>0, <1>4, <1>6
  <2> QED  BY <1>0, <2>1 DEF Image
<1>8. msg = Text /\ ctx = message[2]
  BY <1>3, <1>7 DEF SignatureByte
<1>9. n = Size
  <2>1. 1 .. n = 1 .. Size
    BY <1>1, <1>2, <1>8 DEF Given
  <2> QED  BY <2>1, <1>1 DEF Given
<1> QED  BY <1>2, <1>8, <1>9

LEMMA OpenStep == OpenInv /\ Open => OpenInv'
<1> SUFFICES ASSUME OpenInv, Open PROVE OpenInv'
  OBVIOUS
<1> USE MemoryAssumption
<1>1. Given /\ i = 0 /\ smlen \in 0 .. SignatureBytes + Size /\ pc = "open"
  BY DEF OpenInv, Open
<1>2. UNCHANGED <<mem, i, m, sm, smlen, ctx, ret, message>>
  BY DEF Open
<1>3. Text' = Text /\ Size' = Size /\ Given'
  BY <1>1, <1>2 DEF Text, Size, Given, Addresses, BufferSize, Buffers
<1>4. CASE BadSignature
  BY <1>1, <1>2, <1>3, <1>4 DEF BadSignature, OpenInv, OpensWhole
<1>5. CASE ~BadSignature
  <2> DEFINE n == smlen - SignatureBytes
  <2>1. n \in Nat /\ Verifies(n) /\ pc' = "good" /\ mlen' = n
    BY <1>1, <1>5 DEF Open, TooShort, Given
  <2>2. smlen = SignatureBytes + n
    BY <1>1 DEF Given
  <2> HIDE DEF n
  <2>3. /\ n = Size /\ ctx = message[2]
        /\ \A y \in 1 .. Size : mem[SignatureBytes + y - 1] = Text[y]
    BY <2>1, <2>2, <1>1, VerifiesOnlySigned
  <2>4. i' = 0 /\ i' \in 0 .. Size' /\ \A y \in 1 .. Size : ~(y <= i')
    BY <1>1, <1>2, <1>3 DEF Given
  <2> QED  BY <1>1, <1>2, <1>3, <2>1, <2>2, <2>3, <2>4 DEF OpenInv, OpensWhole
<1> QED  BY <1>4, <1>5

(* A byte that goes to the front of its own buffer lands on one that was   *)
(* copied before.                                                          *)
LEMMA CopyOutOpen == OpenInv /\ CopyOut => OpenInv'
<1> SUFFICES ASSUME OpenInv, CopyOut PROVE OpenInv'
  OBVIOUS
<1> USE MemoryAssumption
<1>1. /\ Given /\ mlen = Size /\ smlen = SignatureBytes + Size /\ ctx = message[2]
      /\ i \in 0 .. Size /\ pc = "good"
      /\ \A y \in 1 .. Size : y > i => mem[SignatureBytes + y - 1] = Text[y]
      /\ \A y \in 1 .. Size : y <= i => mem[m + y - 1] = Text[y]
  BY DEF OpenInv, CopyOut
<1>2. UNCHANGED <<m, sm, mlen, smlen, ctx, message>>
  BY DEF CopyOut
<1>3. Text' = Text /\ Size' = Size
  BY <1>2 DEF Text, Size
<1>4. CASE i < mlen
  <2> DEFINE to == m + i
             from == SignatureBytes + i
  <2>1. mem' = [mem EXCEPT ![to] = mem[from]] /\ i' = i + 1 /\ UNCHANGED <<pc, ret>>
    <3>1. sm + SignatureBytes + i = from
      BY <1>1 DEF Given
    <3> QED  BY <1>4, <3>1 DEF CopyOut
  <2>2. mem[from] = Text[i + 1]
    <3>1. i + 1 \in 1 .. Size /\ i + 1 > i /\ SignatureBytes + (i + 1) - 1 = from
      BY <1>1, <1>4 DEF Given
    <3> QED  BY <3>1, <1>1
  <2>3. \A a \in Addresses : mem'[a] = IF a = to THEN Text[i + 1] ELSE mem[a]
    BY <2>1, <2>2, <1>1 DEF Given
  <2>4. Given'
    BY <2>1, <1>1, <1>2, <1>3 DEF Given, Addresses, BufferSize, Buffers
  <2> HIDE DEF to, from
  <2>5. ASSUME NEW y \in 1 .. Size, y > i + 1
        PROVE  mem'[SignatureBytes + y - 1] = Text[y]
    <3>1. SignatureBytes + y - 1 \in Addresses /\ SignatureBytes + y - 1 # to /\ y > i
      BY <2>5, <1>1, <1>4 DEF Given, Addresses, Buffers, BufferSize, to
    <3> QED  BY <3>1, <2>3, <1>1
  <2>6. ASSUME NEW y \in 1 .. Size, y <= i + 1
        PROVE  mem'[m + y - 1] = Text[y]
    <3>1. m + y - 1 \in Addresses
      BY <1>1 DEF Given, Addresses, Buffers, BufferSize
    <3>2. CASE y = i + 1
      BY <3>1, <3>2, <2>3, <1>1 DEF Given, Buffers, to
    <3>3. CASE y # i + 1
      <4>1. y <= i /\ m + y - 1 # to
        BY <3>3, <2>6, <1>1 DEF Given, Buffers, BufferSize, to
      <4> QED  BY <4>1, <3>1, <2>3, <1>1
    <3> QED  BY <3>2, <3>3
  <2>7. i' \in 0 .. Size
    BY <2>1, <1>1, <1>4 DEF Given
  <2> QED  BY <1>1, <1>2, <1>3, <2>1, <2>4, <2>5, <2>6, <2>7 DEF OpenInv, OpensWhole, Given
<1>5. CASE ~(i < mlen)
  <2>1. i = Size /\ pc' = "opened" /\ ret' = 0 /\ UNCHANGED mem
    BY <1>1, <1>5 DEF CopyOut, Given
  <2>2. \A y \in 1 .. Size : mem[m + y - 1] = Text[y]
    <3>1. \A y \in 1 .. Size : y <= i
      BY <2>1, <1>1 DEF Given
    <3> QED  BY <3>1, <1>1
  <2>3. Slice(m, mlen)' = Text
    <3>1. Text = [y \in 1 .. Size |-> Text[y]]
      BY <1>1 DEF Given
    <3> QED  BY <3>1, <2>1, <2>2, <1>1, <1>2 DEF Slice
  <2> QED  BY <1>1, <1>2, <1>3, <2>1, <2>3 DEF OpenInv, OpensWhole, Text, Size
<1> QED  BY <1>4, <1>5

LEMMA ClearOpen == OpenInv /\ Clear => OpenInv'
<1> SUFFICES ASSUME OpenInv, Clear PROVE OpenInv'
  OBVIOUS
<1> USE MemoryAssumption DEF ClearedTo
<1>1. /\ Given /\ mlen = -1 /\ smlen \in 0 .. SignatureBytes + Size /\ i \in 0 .. smlen
      /\ pc = "badsig" /\ \A y \in 0 .. i - 1 : mem[m + y] = Zero
  BY DEF OpenInv, Clear
<1>2. UNCHANGED <<m, sm, mlen, smlen, ctx, message>>
  BY DEF Clear
<1>3. Text' = Text /\ Size' = Size
  BY <1>2 DEF Text, Size
<1>4. CASE i < smlen
  <2>1. mem' = [mem EXCEPT ![m + i] = Zero] /\ i' = i + 1 /\ UNCHANGED <<pc, ret>>
    BY <1>4 DEF Clear
  <2>2. Given'
    BY <2>1, <1>1, <1>2, <1>3 DEF Given, Addresses, BufferSize, Buffers
  <2>3. ASSUME NEW y \in 0 .. i
        PROVE  mem'[m + y] = Zero
    <3>1. m + y \in Addresses /\ (y = i \/ y \in 0 .. i - 1)
      BY <1>1, <1>4 DEF Given, Addresses, Buffers, BufferSize
    <3>2. mem'[m + y] = IF m + y = m + i THEN Zero ELSE mem[m + y]
      BY <3>1, <2>1, <1>1 DEF Given
    <3> QED  BY <3>1, <3>2, <1>1
  <2>4. i' \in 0 .. smlen /\ \A y \in 0 .. i' - 1 : y \in 0 .. i
    BY <2>1, <1>1, <1>4 DEF Given
  <2> QED  BY <1>1, <1>2, <1>3, <2>1, <2>2, <2>3, <2>4 DEF OpenInv, OpensWhole
<1>5. CASE ~(i < smlen)
  <2>1. i = smlen /\ pc' = "opened" /\ ret' = -1 /\ UNCHANGED mem
    BY <1>1, <1>5 DEF Clear, Given
  <2> QED  BY <1>1, <1>2, <1>3, <2>1 DEF OpenInv, OpensWhole
<1> QED  BY <1>4, <1>5

LEMMA OpenInvStep == MoveInv /\ OpenInv /\ [Next]_vars => OpenInv'
<1> SUFFICES ASSUME MoveInv, OpenInv, [Next]_vars PROVE OpenInv'
  OBVIOUS
<1>1. CASE UNCHANGED vars
  BY <1>1 DEF vars, OpenInv, Given, Arrived, OpensWhole, Text, Size, Image, Slice
<1> QED  BY <1>1, CopyOpen, SignOpen, TransmitOpen, OpenStep, CopyOutOpen, ClearOpen DEF Next

(* A message is opened as a whole or not at all, for all lengths and       *)
(* whichever buffer it is opened into.                                     *)
THEOREM WholeOrNothing == Spec => []OpensWhole
<1>1. OpenInv => OpensWhole
  BY DEF OpenInv
<1> QED  BY <1>1, MoveInit, MoveStep, OpenInit, OpenInvStep, PTL DEF Spec

(* No byte is written outside the buffer that a call is given for it.      *)
THEOREM WritesInPlace == Spec => WritesItsBuffer
<1> DEFINE InBuffer == pc # "signed" => \A a \in Addresses : mem'[a] # mem[a] => InPlace(a)
<1> USE MemoryAssumption
<1>1. ASSUME OpenInv, MoveInv, [Next]_vars PROVE InBuffer
  <2> SUFFICES ASSUME pc # "signed", NEW a \in Addresses, mem'[a] # mem[a]
               PROVE  InPlace(a)
    OBVIOUS
  <2>1. CASE CopyIn
    <3>1. /\ sm = 0 /\ i \in 0 .. mlen /\ mlen \in 0 .. MaxLen /\ i < mlen /\ pc = "copy"
          /\ mem = [b \in Addresses |-> mem[b]]
          /\ mem' = [mem EXCEPT ![sm + SignatureBytes + (mlen - 1 - i)] = mem[m + (mlen - 1 - i)]]
      BY <1>1, <2>1 DEF CopyIn, MoveInv, Shape, FromBack
    <3>2. a = sm + SignatureBytes + (mlen - 1 - i)
      BY <3>1
    <3> QED  BY <3>1, <3>2 DEF InPlace
  <2>2. CASE SignDetached
    <3>1. sm = 0 /\ mlen \in 0 .. MaxLen /\ pc = "sign"
      BY <1>1, <2>2 DEF SignDetached, MoveInv, Shape
    <3>2. a - sm \in 0 .. SignatureBytes - 1
      BY <2>2 DEF SignDetached
    <3> QED  BY <3>1, <3>2 DEF InPlace, Addresses, BufferSize
  <2>3. CASE CopyOut
    <3>1. /\ sm = 0 /\ m \in Buffers /\ Size \in 0 .. MaxLen /\ i \in 0 .. Size /\ i < mlen
          /\ mlen = Size /\ smlen = SignatureBytes + Size /\ pc = "good"
          /\ mem = [b \in Addresses |-> mem[b]]
          /\ mem' = [mem EXCEPT ![m + i] = mem[sm + SignatureBytes + i]]
      BY <1>1, <2>3 DEF CopyOut, OpenInv, Given
    <3>2. a = m + i
      BY <3>1
    <3> QED  BY <3>1, <3>2 DEF InPlace, Buffers, BufferSize
  <2>4. CASE Clear
    <3>1. /\ m \in Buffers /\ Size \in 0 .. MaxLen /\ smlen \in 0 .. SignatureBytes + Size
          /\ i \in 0 .. smlen /\ i < smlen /\ pc = "badsig"
          /\ mem = [b \in Addresses |-> mem[b]]
          /\ mem' = [mem EXCEPT ![m + i] = Zero]
      BY <1>1, <2>4 DEF Clear, OpenInv, Given, ClearedTo
    <3>2. a = m + i
      BY <3>1
    <3> QED  BY <3>1, <3>2 DEF InPlace, Buffers, BufferSize
  <2> QED  BY <1>1, <2>1, <2>2, <2>3, <2>4 DEF Next, Transmit, Open, vars
<1>2. OpenInv /\ MoveInv /\ [Next]_vars => [InBuffer]_vars
  BY <1>1
<1> QED  BY <1>2, MoveInit, MoveStep, OpenInit, OpenInvStep, PTL DEF Spec, WritesItsBuffer

-----------------------------------------------------------------------------
(***************************************************************************)
(* randombytes fills what it is asked for, for any number of threads, any  *)
(* sizes and either way of building it.                                    *)
(***************************************************************************)
LEMMA Sizes == MaxBytes \in Nat /\ MaxChunk \in Nat
BY SizesAssumption DEF Rand!SizesAssumption

Labels == {"idle", "test", "open", "interrupted", "failed", "acquire", "loop", "release", "returned"}

(* What is left of the request of a thread and what is written add up; no  *)
(* byte is left when the loop is over.                                     *)
Progress(t) ==
    /\ out[t] \in Nat /\ outlen[t] \in Nat /\ request[t] \in 0 .. MaxBytes
    /\ out[t] + outlen[t] = request[t]
    /\ written[t] = [b \in 0 .. MaxBytes |-> IF b < out[t] THEN 1 ELSE 0]
    /\ at[t] \in {"release", "returned"} => outlen[t] = 0

(* Once opened, the descriptor stays open unless an interrupted open took  *)
(* it away.                                                                *)
Open3 == fd # Rand!NoFd \/ overwritten

(* Why a thread that looks for a descriptor may go on: it has one, or one  *)
(* was taken away, or its own open failed.                                 *)
Cause(t) ==
    /\ own[t] \notin {Rand!Nothing, Rand!NoFd} => Open3
    /\ at[t] = "interrupted" => Rand!Seen(t) # Rand!NoFd \/ overwritten \/ errno[t] \in {EINTR, EIO}
    /\ at[t] = "failed" => Rand!Seen(t) # Rand!NoFd \/ overwritten \/ errno[t] = EIO
    /\ at[t] = "loop" /\ variant = "device" => Rand!Seen(t) # Rand!NoFd \/ overwritten
    /\ at[t] = "acquire" => variant = "windows"

RandomInv ==
    /\ variant \in Rand!Variants
    /\ at \in [Callers -> Labels]
    /\ errno \in [Callers -> {0, EINTR, EIO, EBADF}]
    /\ own \in [Callers -> {Rand!Nothing, Rand!NoFd, Rand!Descriptor}]
    /\ DOMAIN out = Callers /\ DOMAIN outlen = Callers
    /\ DOMAIN request = Callers /\ DOMAIN written = Callers
    /\ \A t \in Callers : Progress(t) /\ Cause(t)
    /\ stopped => overwritten \/ \E t \in Callers : errno[t] = EIO

(* Before the first call nothing is asked for and nothing written.         *)
LEMMA RandomInit == ASSUME Rand!Init PROVE RandomInv
<1>1. \A t \in Callers : Progress(t)
  BY Sizes DEF Rand!Init, Progress
<1>2. \A t \in Callers : Cause(t)
  BY DEF Rand!Init, Cause, Rand!Nothing
<1> QED  BY <1>1, <1>2 DEF Rand!Init, RandomInv, Labels

(* Opening: one thread's answer may be another's loss, and that is marked. *)
LEMMA OpenedKeeps ==
    ASSUME RandomInv, NEW t \in Callers,
           NEW value, NEW error,
           \/ value = Rand!Descriptor /\ error = errno[t]
           \/ value = Rand!NoFd /\ error \in {EINTR, EIO},
           Rand!Opened(t, value, error), ~stopped
    PROVE  RandomInv'
<1>1. /\ fd' = value /\ own' = [own EXCEPT ![t] = value] /\ errno' = [errno EXCEPT ![t] = error]
      /\ overwritten' = (overwritten \/ (value = Rand!NoFd /\ fd # Rand!NoFd))
      /\ at' = [at EXCEPT ![t] = "interrupted"]
      /\ UNCHANGED <<variant, rereads, Rand!bufferVars, stopped>>
  BY DEF Rand!Opened, Rand!Goto
<1>2. ASSUME NEW u \in Callers PROVE Progress(u)'
  BY <1>1 DEF RandomInv, Progress, Rand!bufferVars
<1>3. Open3 => Open3'
  BY <1>1 DEF Open3
<1>4. Cause(t)'
  <2>1. own'[t] = value /\ errno'[t] = error /\ at'[t] = "interrupted"
    BY <1>1 DEF RandomInv
  <2>2. CASE value = Rand!Descriptor
    BY <1>1, <2>1, <2>2 DEF Cause, Open3, Rand!Seen, Rand!NoFd, Rand!Nothing, Rand!Descriptor
  <2>3. CASE value = Rand!NoFd /\ error \in {EINTR, EIO}
    BY <1>1, <2>1, <2>3 DEF Cause, Rand!Nothing, Rand!NoFd
  <2> QED  BY <2>2, <2>3
<1>5. ASSUME NEW u \in Callers, u # t PROVE Cause(u)'
  <2>1. own'[u] = own[u] /\ errno'[u] = errno[u] /\ at'[u] = at[u] /\ Cause(u)
    BY <1>1, <1>5 DEF RandomInv
  <2>2. Rand!Seen(u) # Rand!NoFd \/ overwritten => Rand!Seen(u)' # Rand!NoFd \/ overwritten'
    BY <1>1, <2>1 DEF Rand!Seen
  <2> QED  BY <1>1, <1>3, <2>1, <2>2 DEF Cause
<1>6. own' \in [Callers -> {Rand!Nothing, Rand!NoFd, Rand!Descriptor}] /\ errno' \in [Callers -> {0, EINTR, EIO, EBADF}]
      /\ at' \in [Callers -> Labels]
  BY <1>1 DEF RandomInv, Labels
<1> QED  BY <1>1, <1>2, <1>4, <1>5, <1>6 DEF RandomInv, Rand!bufferVars

(* What moves between the labels of the descriptor leaves the buffer alone. *)
LEMMA DescriptorKeeps ==
    ASSUME RandomInv, ~stopped, NEW t \in Callers,
           Rand!TestFd(t) \/ Rand!TestInterrupted(t) \/ Rand!TestFailed(t)
    PROVE  RandomInv'
<1>1. UNCHANGED <<Rand!osVars, errno, own, Rand!bufferVars>>
  BY DEF Rand!TestFd, Rand!TestInterrupted, Rand!TestFailed
<1>2. \A u \in Callers : Rand!Seen(u)' = Rand!Seen(u)
  BY <1>1 DEF Rand!Seen, Rand!osVars
<1>3. (Open3)' = Open3
  BY <1>1 DEF Open3, Rand!osVars
<1>4. /\ at' \in [Callers -> Labels]
      /\ \A u \in Callers : u # t => at'[u] = at[u]
      /\ at'[t] \in {"test", "open", "interrupted", "failed", "loop"}
  BY DEF Rand!TestFd, Rand!TestInterrupted, Rand!TestFailed, Rand!Goto, Rand!Abort, RandomInv, Labels
<1>5. ASSUME NEW u \in Callers PROVE Progress(u)'
  BY <1>1, <1>4 DEF RandomInv, Progress, Rand!bufferVars
<1>6. ASSUME NEW u \in Callers, u # t PROVE Cause(u)'
  BY <1>1, <1>2, <1>3, <1>4, <1>6 DEF RandomInv, Cause, Rand!osVars
<1>7. Cause(t)'
  <2> USE <1>1, <1>2, <1>3, <1>4
  <2>1. Cause(t)
    BY DEF RandomInv
  <2>2. CASE Rand!TestFd(t)
    BY <2>1, <2>2 DEF Rand!TestFd, Rand!Goto, Cause, Rand!osVars, Rand!Seen, Open3, Rand!Nothing, RandomInv
  <2>3. CASE Rand!TestInterrupted(t)
    BY <2>1, <2>3 DEF Rand!TestInterrupted, Rand!Goto, Cause, Rand!osVars, RandomInv
  <2>4. CASE Rand!TestFailed(t)
    BY <2>1, <2>4 DEF Rand!TestFailed, Rand!Abort, Rand!Goto, Cause, Rand!osVars, RandomInv
  <2> QED  BY <2>2, <2>3, <2>4
<1>8. stopped' => overwritten' \/ \E u \in Callers : errno'[u] = EIO
  BY <1>1 DEF Rand!TestFd, Rand!TestInterrupted, Rand!TestFailed, Rand!Abort, Rand!osVars, RandomInv, Cause
<1> QED  BY <1>1, <1>4, <1>5, <1>6, <1>7, <1>8 DEF RandomInv, Rand!osVars, Rand!bufferVars

(* A delivery extends what is written by its n bytes.                      *)
LEMMA FilledKeeps ==
    ASSUME RandomInv, ~stopped, NEW t \in Callers, at[t] = "loop",
           NEW n \in Nat, n <= outlen[t], Rand!Filled(t, n)
    PROVE  RandomInv'
<1>1. /\ out'[t] = out[t] + n /\ outlen'[t] = outlen[t] - n
      /\ written'[t] = [b \in DOMAIN written[t] |->
                           IF b \in out[t] .. out[t] + n - 1 THEN written[t][b] + 1 ELSE written[t][b]]
      /\ \A u \in Callers : u # t => /\ out'[u] = out[u] /\ outlen'[u] = outlen[u]
                                     /\ written'[u] = written[u]
      /\ DOMAIN out' = Callers /\ DOMAIN outlen' = Callers /\ DOMAIN written' = Callers
  BY DEF Rand!Filled, Rand!Advanced, RandomInv
<1>2. own' = [own EXCEPT ![t] = Rand!Nothing] /\ UNCHANGED <<Rand!osVars, at, errno, request, stopped>>
  BY DEF Rand!Filled
<1>3. Progress(t) /\ Cause(t)
  BY DEF RandomInv
<1>4. Progress(t)'
  <2>1. written'[t] = [b \in 0 .. MaxBytes |-> IF b < out[t] + n THEN 1 ELSE 0]
    <3>1. \A b \in 0 .. MaxBytes :
              (IF b \in out[t] .. out[t] + n - 1 THEN written[t][b] + 1 ELSE written[t][b])
                  = IF b < out[t] + n THEN 1 ELSE 0
      BY <1>3, Sizes DEF Progress
    <3>2. DOMAIN written[t] = 0 .. MaxBytes
      BY <1>3 DEF Progress
    <3> QED  BY <1>1, <3>1, <3>2
  <2>2. out[t] + n \in Nat /\ outlen[t] - n \in Nat /\ (out[t] + n) + (outlen[t] - n) = request[t]
    BY <1>3, Sizes DEF Progress
  <2>3. request'[t] = request[t] /\ at'[t] = "loop"
    BY <1>2
  <2>4. request[t] \in 0 .. MaxBytes
    BY <1>3 DEF Progress
  <2> QED  BY <1>1, <2>1, <2>2, <2>3, <2>4 DEF Progress
<1>5. ASSUME NEW u \in Callers, u # t PROVE Progress(u)'
  BY <1>1, <1>2, <1>5 DEF RandomInv, Progress
<1>6. ASSUME NEW u \in Callers PROVE Cause(u)'
  BY <1>2, <1>6 DEF RandomInv, Cause, Rand!osVars, Open3, Rand!Seen
<1>7. own' \in [Callers -> {Rand!Nothing, Rand!NoFd, Rand!Descriptor}]
  BY <1>2 DEF RandomInv
<1> QED  BY <1>1, <1>2, <1>4, <1>5, <1>6, <1>7 DEF RandomInv, Rand!osVars

(* A failed call is repeated or ends the process; a descriptor that is     *)
(* missing in the loop was taken away.                                     *)
LEMMA CallFailsKeeps ==
    ASSUME RandomInv, ~stopped, NEW t \in Callers,
           NEW error \in {EINTR, EIO, EBADF}, Rand!CallFails(t, error),
           error \in {EINTR, EIO} \/ Rand!Unopened(t)
    PROVE  RandomInv'
<1>1. /\ at[t] = "loop" /\ errno' = [errno EXCEPT ![t] = error]
      /\ own' = [own EXCEPT ![t] = Rand!Nothing]
      /\ UNCHANGED <<variant, rereads, fd, overwritten, Rand!bufferVars>>
      /\ at' = at
      /\ stopped' => error # EINTR
  BY DEF Rand!CallFails, Rand!Abort
<1>2. ASSUME NEW u \in Callers PROVE Progress(u)'
  BY <1>1 DEF RandomInv, Progress, Rand!bufferVars
<1>3. ASSUME NEW u \in Callers PROVE Cause(u)'
  <2>1. CASE u = t
    BY <1>1, <2>1 DEF RandomInv, Cause, Open3, Rand!Seen
  <2>2. CASE u # t
    BY <1>1, <2>2 DEF RandomInv, Cause, Open3, Rand!Seen
  <2> QED  BY <2>1, <2>2
<1>4. stopped' => overwritten' \/ \E u \in Callers : errno'[u] = EIO
  <2>1. errno'[t] = error
    BY <1>1 DEF RandomInv
  <2>2. CASE error \notin {EINTR, EIO}
    BY <1>1, <2>2 DEF Rand!Unopened, Rand!Seen, RandomInv, Cause, Open3, Rand!NoFd, Rand!Nothing
  <2> QED  BY <1>1, <2>1, <2>2
<1>5. own' \in [Callers -> {Rand!Nothing, Rand!NoFd, Rand!Descriptor}] /\ errno' \in [Callers -> {0, EINTR, EIO, EBADF}]
  BY <1>1 DEF RandomInv
<1> QED  BY <1>1, <1>2, <1>3, <1>4, <1>5 DEF RandomInv, Rand!bufferVars

(* The loop is left with nothing to do; the contexts of Windows change     *)
(* only where the call stands.                                             *)
LEMMA LeaveKeeps ==
    ASSUME RandomInv, ~stopped, NEW t \in Callers, Rand!Return(t) \/ Rand!Context(t)
    PROVE  RandomInv'
<1>1. UNCHANGED <<Rand!osVars, Rand!bufferVars>>
  BY DEF Rand!Return, Rand!Context
<1>2. \A u \in Callers : u # t => at'[u] = at[u] /\ own'[u] = own[u] /\ errno'[u] = errno[u]
  BY DEF Rand!Return, Rand!Context, Rand!Goto, Rand!Abort, RandomInv
<1>3. /\ at' \in [Callers -> Labels] /\ own' \in [Callers -> {Rand!Nothing, Rand!NoFd, Rand!Descriptor}]
      /\ errno' \in [Callers -> {0, EINTR, EIO, EBADF}]
  BY DEF Rand!Return, Rand!Context, Rand!Goto, Rand!Abort, RandomInv, Labels
<1>4. ASSUME NEW u \in Callers, u # t PROVE Progress(u)' /\ Cause(u)'
  BY <1>1, <1>2, <1>4 DEF RandomInv, Progress, Cause, Rand!bufferVars, Rand!osVars, Open3, Rand!Seen
<1>5. Progress(t)'
  BY <1>1 DEF Rand!Return, Rand!Context, Rand!Wanted, Rand!Goto, Rand!Abort, RandomInv, Progress, Rand!bufferVars
<1>6. Cause(t)'
  <2>1. CASE Rand!Return(t)
    BY <1>1, <2>1 DEF Rand!Return, Rand!Goto, RandomInv, Cause, Rand!osVars
  <2>2. CASE Rand!Context(t)
    <3>1. own' = own /\ Cause(t) /\ variant' = variant /\ (Open3 => Open3')
      BY <1>1, <2>2 DEF Rand!Context, RandomInv, Rand!osVars, Open3
    <3>2. at'[t] \in {"acquire", "release", "loop", "returned"}
      BY <2>2 DEF Rand!Context, Rand!Goto, Rand!Abort, RandomInv
    <3>3. at'[t] = "loop" => at[t] = "acquire"
      BY <2>2 DEF Rand!Context, Rand!Goto, Rand!Abort, RandomInv
    <3>4. at'[t] = "acquire" => at[t] = "acquire"
      BY <2>2 DEF Rand!Context, Rand!Goto, Rand!Abort, RandomInv
    <3> QED  BY <3>1, <3>2, <3>3, <3>4 DEF Cause
  <2> QED  BY <2>1, <2>2
<1>7. stopped' => overwritten' \/ \E u \in Callers : errno'[u] = EIO
  BY <1>1 DEF Rand!Return, Rand!Context, Rand!Abort, Rand!Goto, RandomInv, Rand!osVars
<1> QED  BY <1>1, <1>3, <1>4, <1>5, <1>6, <1>7 DEF RandomInv, Rand!osVars, Rand!bufferVars

(* A new request starts with nothing written.                              *)
LEMMA CallKeeps ==
    ASSUME RandomInv, ~stopped, NEW t \in Callers,
           NEW n \in 0 .. MaxBytes, Rand!Call(t, n)
    PROVE  RandomInv'
<1>1. /\ out' = [out EXCEPT ![t] = 0] /\ outlen' = [outlen EXCEPT ![t] = n]
      /\ request' = [request EXCEPT ![t] = n]
      /\ written' = [written EXCEPT ![t] = [b \in 0 .. MaxBytes |-> 0]]
      /\ UNCHANGED <<Rand!osVars, errno, own, stopped>>
  BY DEF Rand!Call
<1>2. /\ at' \in [Callers -> Labels] /\ at'[t] \in {"loop", "test", "acquire"}
      /\ at'[t] = "loop" => variant # "device"
      /\ at'[t] = "acquire" => variant = "windows"
      /\ \A u \in Callers : u # t => at'[u] = at[u]
  <2>1. CASE variant = "getrandom"
    BY <2>1 DEF Rand!Call, Rand!Goto, RandomInv, Labels
  <2>2. CASE variant = "device"
    BY <2>2 DEF Rand!Call, Rand!Goto, RandomInv, Labels
  <2>3. CASE variant = "windows"
    BY <2>3 DEF Rand!Call, Rand!Goto, RandomInv, Labels
  <2> QED  BY <2>1, <2>2, <2>3 DEF RandomInv, Rand!Variants
<1>3. Progress(t)'
  <2>1. out'[t] = 0 /\ outlen'[t] = n /\ request'[t] = n /\ written'[t] = [b \in 0 .. MaxBytes |-> 0]
    BY <1>1 DEF RandomInv
  <2>2. \A b \in 0 .. MaxBytes : ~(b < 0)
    BY Sizes
  <2> QED  BY <1>2, <2>1, <2>2, Sizes DEF Progress
<1>4. ASSUME NEW u \in Callers, u # t PROVE Progress(u)'
  BY <1>1, <1>2, <1>4 DEF RandomInv, Progress
<1>5. ASSUME NEW u \in Callers PROVE Cause(u)'
  <2>1. CASE u = t
    BY <1>1, <1>2, <2>1 DEF RandomInv, Cause, Rand!osVars, Open3
  <2>2. CASE u # t
    BY <1>1, <1>2, <2>2 DEF RandomInv, Cause, Rand!osVars, Open3, Rand!Seen
  <2> QED  BY <2>1, <2>2
<1> QED  BY <1>1, <1>2, <1>3, <1>4, <1>5 DEF RandomInv, Rand!osVars

(* Every step of every thread keeps the invariant.                         *)
LEMMA RandomStep ==
    ASSUME RandomInv, [Rand!Next]_(Rand!vars) PROVE RandomInv'
<1>1. CASE Rand!Next
  <2>1. PICK t \in Callers : \/ Rand!Step(t) \/ Rand!Interrupted(t) \/ Rand!Failed(t)
                             \/ \E n \in 0 .. MaxBytes : Rand!Call(t, n)
    BY <1>1 DEF Rand!Next
  <2>2. ~stopped /\ Progress(t)
    BY <1>1 DEF Rand!Next, RandomInv
  <2>3. CASE Rand!TestFd(t) \/ Rand!TestInterrupted(t) \/ Rand!TestFailed(t)
    BY <2>2, <2>3, DescriptorKeeps
  <2>4. CASE Rand!Open(t)
    <3>1. CASE Rand!Opened(t, Rand!Descriptor, errno[t])
      BY <2>2, <3>1, OpenedKeeps
    <3>2. CASE \E error \in {EINTR, EIO} : Rand!Opened(t, Rand!NoFd, error)
      BY <2>2, <3>2, OpenedKeeps
    <3> QED  BY <2>4, <3>1, <3>2 DEF Rand!Open
  <2>5. CASE Rand!Deliver(t)
    <3>1. PICK n \in 1 .. outlen[t] : Rand!Filled(t, n)
      BY <2>5, <2>2 DEF Rand!Deliver, Rand!Wanted
    <3>2. n \in Nat /\ n <= outlen[t]
      BY <2>2 DEF Progress
    <3> QED  BY <2>2, <2>5, <3>1, <3>2, FilledKeeps DEF Rand!Deliver
  <2>6. CASE Rand!Generate(t)
    <3> DEFINE n == IF outlen[t] > MaxChunk THEN MaxChunk ELSE outlen[t]
    <3>1. n \in Nat /\ n <= outlen[t]
      BY <2>2, Sizes DEF Progress
    <3>2. Rand!Filled(t, n) /\ at[t] = "loop"
      BY <2>6 DEF Rand!Generate
    <3> HIDE DEF n
    <3> QED  BY <2>2, <3>1, <3>2, FilledKeeps
  <2>7. CASE Rand!BadDescriptor(t) \/ Rand!Interrupted(t) \/ Rand!Failed(t)
    <3>1. \E error \in {EINTR, EIO, EBADF} :
              Rand!CallFails(t, error) /\ (error \in {EINTR, EIO} \/ Rand!Unopened(t))
      BY <2>7 DEF Rand!BadDescriptor, Rand!Interrupted, Rand!Failed
    <3> QED  BY <2>2, <3>1, CallFailsKeeps
  <2>8. CASE Rand!Return(t) \/ Rand!Context(t)
    BY <2>2, <2>8, LeaveKeeps
  <2>9. CASE \E n \in 0 .. MaxBytes : Rand!Call(t, n)
    BY <2>2, <2>9, CallKeeps
  <2> QED  BY <2>1, <2>3, <2>4, <2>5, <2>6, <2>7, <2>8, <2>9 DEF Rand!Step
<1>2. CASE UNCHANGED Rand!vars
  BY <1>2 DEF RandomInv, Progress, Cause, Open3, Rand!Seen, Rand!vars
<1> QED  BY <1>1, <1>2

(* Whatever machine a behaviour runs, randombytes makes its steps or none.  *)
LEMMA RandomRuns == MCSpec => []RandomInv
<1>1. MCInit => RandomInv
  BY RandomInit DEF MCInit
<1>2. RandomInv /\ [MCNext]_<<machine, vars, codeVars, randVars>> => RandomInv'
  <2>1. [MCNext]_<<machine, vars, codeVars, randVars>> => [Rand!Next]_(Rand!vars)
    BY DEF MCNext, randVars, Rand!vars
  <2> QED  BY <2>1, RandomStep
<1> QED  BY <1>1, <1>2, PTL DEF MCSpec

(* randombytes: what returns is filled, every byte once, for any number of *)
(* threads, any lengths and any way the system cuts and interrupts the     *)
(* calls; and the process never stops without a cause.                     *)
THEOREM FillsOrStops == MCSpec => []FilledOrStopped
<1>1. RandomInv => FilledOrStopped
  <2> SUFFICES ASSUME RandomInv PROVE FilledOrStopped
    OBVIOUS
  <2>1. ASSUME NEW t \in Callers, NEW b \in 0 .. MaxBytes
        PROVE  /\ written[t][b] <= IF b < request[t] THEN 1 ELSE 0
               /\ at[t] = "returned" /\ b < request[t] => written[t][b] = 1
    <3>1. Progress(t)
      BY DEF RandomInv
    <3>2. written[t][b] = IF b < out[t] THEN 1 ELSE 0
      BY <3>1 DEF Progress
    <3> QED  BY <3>1, <3>2, Sizes DEF Progress
  <2> QED  BY <2>1 DEF FilledOrStopped, Rand!FilledOrStopped, RandomInv
<1> QED  BY <1>1, RandomRuns, PTL

-----------------------------------------------------------------------------
(***************************************************************************)
(* Numbers of limbs (uintx.c), for every size of a limb: comparison,       *)
(* addition and subtraction do what they are meant to do, the carries      *)
(* between limbs and between halves included.                              *)
(***************************************************************************)
Radix == LimbBase
Square == Radix * Radix

LEMMA RadixLess ==
    ASSUME NEW R \in Nat \ {0},
           NEW u \in 0 .. R - 1, NEW y \in 0 .. R - 1, NEW p \in Nat, NEW q \in Nat
    PROVE  /\ u + R * p < y + R * q <=> p < q \/ (p = q /\ u < y)
           /\ u + R * p \in Nat
           /\ p < R => u + R * p < R * R
<1>1. R * p \in Nat /\ R * q \in Nat
  OBVIOUS
<1>2. CASE p < q
  <2>1. PICK e \in Nat : q = p + 1 + e
    <3>1. q - p - 1 \in Nat /\ q = p + 1 + (q - p - 1)
      BY <1>2
    <3> QED  BY <3>1
  <2>2. R * q = R * p + R + R * e
    BY <2>1
  <2>3. R * e \in Nat
    BY <2>1
  <2>4. u + R * p < y + R * q
    BY <1>1, <2>2, <2>3
  <2> QED  BY <1>2, <2>4
<1>3. CASE q < p
  <2>1. PICK e \in Nat : p = q + 1 + e
    <3>1. p - q - 1 \in Nat /\ p = q + 1 + (p - q - 1)
      BY <1>3
    <3> QED  BY <3>1
  <2>2. R * p = R * q + R + R * e
    BY <2>1
  <2>3. R * e \in Nat
    BY <2>1
  <2>4. ~(u + R * p < y + R * q)
    BY <1>1, <2>2, <2>3
  <2> QED  BY <1>3, <2>4
<1>4. CASE p = q
  BY <1>1, <1>4
<1>5. u + R * p \in Nat
  BY <1>1
<1>6. ASSUME p < R PROVE u + R * p < R * R
  <2>1. PICK e \in Nat : R = p + 1 + e
    <3>1. R - p - 1 \in Nat /\ R = p + 1 + (R - p - 1)
      BY <1>6
    <3> QED  BY <3>1
  <2>2. R * R = R * p + R + R * e
    <3>1. R * (p + 1 + e) = R * p + R + R * e
      OBVIOUS
    <3> QED  BY <2>1, <3>1
  <2>3. R * e \in Nat
    BY <2>1
  <2> QED  BY <1>1, <2>2, <2>3
<1>7. u + R * p < y + R * q <=> p < q \/ (p = q /\ u < y)
  BY <1>2, <1>3, <1>4
<1> QED  BY <1>5, <1>6, <1>7

(* Numbers of two limbs. *)
Two(v) == v[1] + Radix * v[2]
IsTwo(v) == v[1] \in 0 .. Radix - 1 /\ v[2] \in 0 .. Radix - 1

LEMMA RadixIs ==
    /\ Radix \in Nat \ {0} /\ Square \in Nat \ {0}
    /\ Code!Limb = 0 .. Radix - 1
BY CodeAssumption DEF Code!CodeAssumption, Code!Limb, Radix, Square

LEMMA TwoIs ==
    ASSUME NEW v, IsTwo(v)
    PROVE  Two(v) \in 0 .. Square - 1
<1>1. v[1] \in 0 .. Radix - 1 /\ v[2] \in Nat /\ v[2] < Radix
  BY RadixIs DEF IsTwo
<1>2. Two(v) \in Nat /\ Two(v) < Square
  BY <1>1, RadixIs, RadixLess DEF Two, Square
<1> QED  BY <1>2, RadixIs

LEMMA LessTwo ==
    ASSUME NEW v, NEW w, IsTwo(v), IsTwo(w)
    PROVE  Code!less_u128(v, w) <=> Two(v) < Two(w)
<1>1. PICK v1, w1 \in 0 .. Radix - 1, v2, w2 \in Nat :
          v1 = v[1] /\ v2 = v[2] /\ w1 = w[1] /\ w2 = w[2]
  BY RadixIs DEF IsTwo
<1>2. v1 + Radix * v2 < w1 + Radix * w2 <=> v2 < w2 \/ (v2 = w2 /\ v1 < w1)
  BY RadixIs, RadixLess
<1> QED  BY <1>1, <1>2 DEF Two, Code!less_u128

(* A digit and its carry. *)
LEMMA Carries ==
    ASSUME NEW R \in Nat \ {0}, NEW u \in 0 .. R - 1, NEW y \in 0 .. R - 1, NEW c \in {0, 1}
    PROVE  \E d \in {0, 1} : /\ (u + y + c) % R = u + y + c - R * d
                             /\ (u + y + c) % R \in 0 .. R - 1
                             /\ d = 1 <=> u + y + c >= R
<1>1. CASE u + y + c < R
  <2>1. (u + y + c) % R = u + y + c
    BY <1>1
  <2>2. R * 0 = 0
    OBVIOUS
  <2> QED  BY <1>1, <2>1, <2>2
<1>2. CASE u + y + c >= R
  <2>1. PICK e \in 0 .. R - 1 : u + y + c = e + R
    <3>1. u + y + c - R \in 0 .. R - 1 /\ u + y + c = (u + y + c - R) + R
      BY <1>2
    <3> QED  BY <3>1
  <2>2. (e + R) % R = e
    BY <2>1
  <2>3. (u + y + c) % R = u + y + c - R * 1
    BY <2>1, <2>2
  <2> QED  BY <1>2, <2>1, <2>2, <2>3
<1> QED  BY <1>1, <1>2

LEMMA Borrows ==
    ASSUME NEW R \in Nat \ {0}, NEW u \in 0 .. R - 1, NEW y \in 0 .. R - 1, NEW c \in {0, 1}
    PROVE  \E d \in {0, 1} : /\ (u - y - c) % R = u - y - c + R * d
                             /\ (u - y - c) % R \in 0 .. R - 1
                             /\ d = 1 <=> u < y + c
<1>1. CASE u >= y + c
  <2>1. PICK e \in 0 .. R - 1 : u - y - c = e
    BY <1>1
  <2>2. e % R = e
    BY <2>1
  <2>3. R * 0 = 0
    OBVIOUS
  <2> QED  BY <1>1, <2>1, <2>2, <2>3
<1>2. CASE u < y + c
  <2>1. PICK e \in 0 .. R - 1 : u - y - c = e - R
    <3>1. u - y - c + R \in 0 .. R - 1 /\ u - y - c = (u - y - c + R) - R
      BY <1>2
    <3> QED  BY <3>1
  <2>2. (e - R) % R = e
    BY <2>1
  <2>3. (u - y - c) % R = u - y - c + R * 1
    BY <2>1, <2>2
  <2> QED  BY <1>2, <2>1, <2>2, <2>3
<1> QED  BY <1>1, <1>2

LEMMA AddTwo ==
    ASSUME NEW v, NEW w, IsTwo(v), IsTwo(w)
    PROVE  \E d \in {0, 1} : /\ IsTwo(Code!add_u128(v, w))
                             /\ Two(Code!add_u128(v, w)) = Two(v) + Two(w) - Square * d
<1> DEFINE sum == Code!add_u128(v, w)
<1>1. PICK v1, v2, w1, w2 \in 0 .. Radix - 1 : v1 = v[1] /\ v2 = v[2] /\ w1 = w[1] /\ w2 = w[2]
  BY DEF IsTwo
<1>2. PICK c \in {0, 1} : c = (IF v1 > Radix - 1 - w1 THEN 1 ELSE 0)
  OBVIOUS
<1>3. sum[1] = (v1 + w1) % Radix /\ sum[2] = (v2 + w2 + c) % Radix
  BY <1>1, <1>2 DEF Code!add_u128, Radix
<1>4. PICK d1 \in {0, 1} : /\ (v1 + w1 + 0) % Radix = v1 + w1 + 0 - Radix * d1
                           /\ (v1 + w1 + 0) % Radix \in 0 .. Radix - 1
                           /\ d1 = 1 <=> v1 + w1 + 0 >= Radix
  BY RadixIs, Carries
<1>5. d1 = c /\ v1 + w1 + 0 = v1 + w1
  BY <1>2, <1>4, RadixIs
<1>6. PICK d \in {0, 1} : /\ (v2 + w2 + c) % Radix = v2 + w2 + c - Radix * d
                          /\ (v2 + w2 + c) % Radix \in 0 .. Radix - 1
                          /\ d = 1 <=> v2 + w2 + c >= Radix
  <2>1. Radix \in Nat \ {0}
    BY RadixIs
  <2> QED  BY <2>1, Carries
<1>7. IsTwo(sum)
  BY <1>3, <1>4, <1>5, <1>6 DEF IsTwo
<1>8. Two(sum) = (v1 + w1 - Radix * c) + Radix * (v2 + w2 + c - Radix * d)
  <2>1. sum[1] = v1 + w1 - Radix * c
    <3>1. (v1 + w1 + 0) % Radix = v1 + w1 + 0 - Radix * c
      BY <1>4, <1>5
    <3>2. v1 + w1 + 0 = v1 + w1 /\ v1 + w1 + 0 - Radix * c = v1 + w1 - Radix * c
      BY RadixIs
    <3> QED  BY <1>3, <3>1, <3>2
  <2>2. sum[2] = v2 + w2 + c - Radix * d
    BY <1>3, <1>6
  <2> HIDE DEF sum
  <2> QED  BY <2>1, <2>2 DEF Two
<1>9. (v1 + w1 - Radix * c) + Radix * (v2 + w2 + c - Radix * d) =
          (v1 + Radix * v2) + (w1 + Radix * w2) - Radix * Radix * d
  BY RadixIs
<1>10. Two(sum) = Two(v) + Two(w) - Square * d
  BY <1>1, <1>8, <1>9 DEF Two, Square
<1> QED  BY <1>7, <1>10

LEMMA SubTwo ==
    ASSUME NEW v, NEW w, IsTwo(v), IsTwo(w)
    PROVE  \E d \in {0, 1} : /\ IsTwo(Code!sub_u128(v, w))
                             /\ Two(Code!sub_u128(v, w)) = Two(v) - Two(w) + Square * d
<1> DEFINE sum == Code!sub_u128(v, w)
<1>1. PICK v1, v2, w1, w2 \in 0 .. Radix - 1 : v1 = v[1] /\ v2 = v[2] /\ w1 = w[1] /\ w2 = w[2]
  BY DEF IsTwo
<1>2. PICK c \in {0, 1} : c = (IF v1 < w1 THEN 1 ELSE 0)
  OBVIOUS
<1>3. sum[1] = (v1 - w1) % Radix /\ sum[2] = (v2 - w2 - c) % Radix
  BY <1>1, <1>2 DEF Code!sub_u128, Radix
<1>4. PICK d1 \in {0, 1} : /\ (v1 - w1 - 0) % Radix = v1 - w1 - 0 + Radix * d1
                           /\ (v1 - w1 - 0) % Radix \in 0 .. Radix - 1
                           /\ d1 = 1 <=> v1 < w1 + 0
  BY RadixIs, Borrows
<1>5. d1 = c /\ v1 - w1 - 0 = v1 - w1
  BY <1>2, <1>4, RadixIs
<1>6. PICK d \in {0, 1} : /\ (v2 - w2 - c) % Radix = v2 - w2 - c + Radix * d
                          /\ (v2 - w2 - c) % Radix \in 0 .. Radix - 1
                          /\ d = 1 <=> v2 < w2 + c
  BY RadixIs, Borrows
<1>7. IsTwo(sum)
  BY <1>3, <1>4, <1>5, <1>6 DEF IsTwo
<1>8. Two(sum) = (v1 - w1 + Radix * c) + Radix * (v2 - w2 - c + Radix * d)
  <2>1. sum[1] = v1 - w1 + Radix * c
    BY <1>3, <1>4, <1>5
  <2>2. sum[2] = v2 - w2 - c + Radix * d
    BY <1>3, <1>6
  <2> HIDE DEF sum
  <2> QED  BY <2>1, <2>2 DEF Two
<1>9. (v1 - w1 + Radix * c) + Radix * (v2 - w2 - c + Radix * d) =
          (v1 + Radix * v2) - (w1 + Radix * w2) + Radix * Radix * d
  BY RadixIs
<1>10. Two(sum) = Two(v) - Two(w) + Square * d
  BY <1>1, <1>8, <1>9 DEF Two, Square
<1> QED  BY <1>7, <1>10

(* Numbers of four limbs: two halves. *)
LEMMA FourIs ==
    ASSUME NEW v, v \in Code!U256
    PROVE  /\ IsTwo(Code!Low(v)) /\ IsTwo(Code!High(v))
           /\ Code!Value(v) = Two(Code!Low(v)) + Square * Two(Code!High(v))
           /\ Code!Value(v) \in Nat /\ Code!Value(v) < Square * Square
<1>1. PICK v1, v2, v3, v4 \in 0 .. Radix - 1 : v1 = v[1] /\ v2 = v[2] /\ v3 = v[3] /\ v4 = v[4]
  BY RadixIs DEF Code!U256
<1>2. IsTwo(Code!Low(v)) /\ IsTwo(Code!High(v))
  BY <1>1 DEF IsTwo, Code!Low, Code!High
<1>3. Two(Code!Low(v)) = v1 + Radix * v2 /\ Two(Code!High(v)) = v3 + Radix * v4
  BY <1>1 DEF Two, Code!Low, Code!High
<1>4. Code!Value(v) = v1 + Radix * (v2 + Radix * (v3 + Radix * v4))
  BY <1>1 DEF Code!Value, Radix
<1>5. v1 + Radix * (v2 + Radix * (v3 + Radix * v4)) =
          (v1 + Radix * v2) + (Radix * Radix) * (v3 + Radix * v4)
  BY RadixIs
<1>6. Code!Value(v) = Two(Code!Low(v)) + Square * Two(Code!High(v))
  BY <1>3, <1>4, <1>5 DEF Square
<1>7. PICK lo, hi \in 0 .. Square - 1 : lo = Two(Code!Low(v)) /\ hi = Two(Code!High(v))
  BY <1>2, TwoIs
<1>8. lo + Square * hi \in Nat /\ lo + Square * hi < Square * Square
  <2>1. hi \in Nat /\ hi < Square
    BY <1>7, RadixIs
  <2> QED  BY <2>1, RadixIs, RadixLess
<1> QED  BY <1>2, <1>6, <1>7, <1>8

LEMMA LessFour ==
    ASSUME NEW v, NEW w, v \in Code!U256, w \in Code!U256
    PROVE  Code!less_u256(v, w) <=> Code!Value(v) < Code!Value(w)
<1>1. PICK v1, v2, v3, v4 \in 0 .. Radix - 1 : v1 = v[1] /\ v2 = v[2] /\ v3 = v[3] /\ v4 = v[4]
  BY RadixIs DEF Code!U256
<1>2. PICK w1, w2, w3, w4 \in 0 .. Radix - 1 : w1 = w[1] /\ w2 = w[2] /\ w3 = w[3] /\ w4 = w[4]
  BY RadixIs DEF Code!U256
<1>3. Code!less_u256(v, w) <=>
          \/ v4 < w4
          \/ v4 = w4 /\ v3 < w3
          \/ v4 = w4 /\ v3 = w3 /\ v2 < w2
          \/ v4 = w4 /\ v3 = w3 /\ v2 = w2 /\ v1 < w1
  <2>1. Code!less_u256(v, w) <=>
            \/ v[1] < w[1] /\ v[2] = w[2] /\ v[3] = w[3] /\ v[4] = w[4]
            \/ v[2] < w[2] /\ v[3] = w[3] /\ v[4] = w[4]
            \/ v[3] < w[3] /\ v[4] = w[4]
            \/ v[4] < w[4]
    BY DEF Code!less_u256
  <2> QED  BY <1>1, <1>2, <2>1
<1>4. /\ Code!Value(v) = v1 + Radix * (v2 + Radix * (v3 + Radix * v4))
      /\ Code!Value(w) = w1 + Radix * (w2 + Radix * (w3 + Radix * w4))
  BY <1>1, <1>2 DEF Code!Value, Radix
<1>5. PICK vc, wc \in Nat : vc = v3 + Radix * v4 /\ wc = w3 + Radix * w4
  BY RadixIs
<1>6. PICK vb, wb \in Nat : vb = v2 + Radix * vc /\ wb = w2 + Radix * wc
  BY RadixIs
<1>7. vc < wc <=> v4 < w4 \/ (v4 = w4 /\ v3 < w3)
  BY <1>5, RadixIs, RadixLess
<1>8. wc < vc <=> w4 < v4 \/ (v4 = w4 /\ w3 < v3)
  BY <1>5, RadixIs, RadixLess
<1>9. vb < wb <=> vc < wc \/ (vc = wc /\ v2 < w2)
  BY <1>6, RadixIs, RadixLess
<1>10. wb < vb <=> wc < vc \/ (vc = wc /\ w2 < v2)
  BY <1>6, RadixIs, RadixLess
<1>11. v1 + Radix * vb < w1 + Radix * wb <=> vb < wb \/ (vb = wb /\ v1 < w1)
  BY RadixIs, RadixLess
<1>12. Code!Value(v) < Code!Value(w) <=> vb < wb \/ (vb = wb /\ v1 < w1)
  BY <1>4, <1>5, <1>6, <1>11
<1>13. vc = wc <=> v4 = w4 /\ v3 = w3
  BY <1>7, <1>8
<1>14. vb = wb <=> vc = wc /\ v2 = w2
  BY <1>9, <1>10
<1> QED  BY <1>3, <1>7, <1>9, <1>12, <1>13, <1>14

LEMMA Halves ==
    ASSUME NEW lo, NEW hi, Len(lo) = 2, Len(hi) = 2, lo \in Seq(Code!Limb), hi \in Seq(Code!Limb)
    PROVE  /\ lo \o hi \in Code!U256
           /\ Two(Code!Low(lo \o hi)) = Two(lo) /\ Two(Code!High(lo \o hi)) = Two(hi)
<1>1. PICK v : v = lo \o hi
  OBVIOUS
<1>2. /\ v \in Seq(Code!Limb) /\ Len(v) = 4
      /\ v[1] = lo[1] /\ v[2] = lo[2] /\ v[3] = hi[1] /\ v[4] = hi[2]
  <2>1. /\ v \in Seq(Code!Limb) /\ Len(v) = Len(lo) + Len(hi)
        /\ \A y \in 1 .. Len(lo) + Len(hi) : v[y] = IF y <= Len(lo) THEN lo[y] ELSE hi[y - Len(lo)]
    BY <1>1, ConcatProperties
  <2> QED  BY <2>1
<1>3. v \in Code!U256
  BY <1>2, LenProperties DEF Code!U256
<1> QED  BY <1>1, <1>2, <1>3 DEF Two, Code!Low, Code!High

LEMMA HalvesOf ==
    ASSUME NEW v, NEW w, IsTwo(v), IsTwo(w)
    PROVE  /\ Len(Code!add_u128(v, w)) = 2 /\ Len(Code!sub_u128(v, w)) = 2
           /\ Code!add_u128(v, w) \in Seq(Code!Limb) /\ Code!sub_u128(v, w) \in Seq(Code!Limb)
           /\ IsTwo(Code!add_u128(v, w)) /\ IsTwo(Code!sub_u128(v, w))
<1>1. IsTwo(Code!add_u128(v, w)) /\ IsTwo(Code!sub_u128(v, w))
  BY AddTwo, SubTwo
<1>2. PICK a1, a2 \in Code!Limb : Code!add_u128(v, w) = <<a1, a2>>
  BY <1>1, RadixIs DEF IsTwo, Code!add_u128
<1>3. PICK b1, b2 \in Code!Limb : Code!sub_u128(v, w) = <<b1, b2>>
  BY <1>1, RadixIs DEF IsTwo, Code!sub_u128
<1>4. \A c1, c2 \in Code!Limb : Len(<<c1, c2>>) = 2 /\ <<c1, c2>> \in Seq(Code!Limb)
  OBVIOUS
<1> QED  BY <1>1, <1>2, <1>3, <1>4

LEMMA BitsAreLimbs ==
    ASSUME NEW bit \in {0, 1}, Radix > 1 \/ bit = 0
    PROVE  IsTwo(<<bit, 0>>) /\ Two(<<bit, 0>>) = bit
BY RadixIs DEF IsTwo, Two

LEMMA AddFour ==
    ASSUME NEW v, NEW w, v \in Code!U256, w \in Code!U256
    PROVE  /\ Code!add_u256(v, w) \in Code!U256
           /\ Code!Value(v) + Code!Value(w) < Square * Square =>
                  Code!Value(Code!add_u256(v, w)) = Code!Value(v) + Code!Value(w)
<1> DEFINE tmp == Code!sub_u128(<<Radix - 1, Radix - 1>>, Code!Low(w))
           bit == IF Code!less_u128(tmp, Code!Low(v)) THEN 1 ELSE 0
           lo == Code!add_u128(Code!Low(v), Code!Low(w))
           mid == Code!add_u128(Code!High(v), Code!High(w))
           hi == Code!add_u128(mid, <<bit, 0>>)
           top == <<Radix - 1, Radix - 1>>
<1>1. IsTwo(Code!Low(v)) /\ IsTwo(Code!Low(w)) /\ IsTwo(Code!High(v)) /\ IsTwo(Code!High(w))
  BY FourIs
<1>2. IsTwo(top) /\ Two(top) = Square - 1
  <2>1. (Radix - 1) + Radix * (Radix - 1) = Radix * Radix - 1
    BY RadixIs
  <2> QED  BY <2>1, RadixIs DEF IsTwo, Two, Square
<1>3. PICK lv, lw, hv, hw \in 0 .. Square - 1 :
          /\ lv = Two(Code!Low(v)) /\ lw = Two(Code!Low(w))
          /\ hv = Two(Code!High(v)) /\ hw = Two(Code!High(w))
  BY <1>1, TwoIs
<1>4. IsTwo(tmp) /\ Two(tmp) = Square - 1 - lw
  <2>1. PICK d \in {0, 1} : IsTwo(tmp) /\ Two(tmp) = Two(top) - lw + Square * d
    <3> HIDE DEF top
    <3> QED  BY <1>1, <1>2, <1>3, SubTwo DEF top
  <2>2. Two(tmp) \in 0 .. Square - 1
    <3> HIDE DEF tmp
    <3> QED  BY <2>1, TwoIs
  <2>3. Square * 0 = 0 /\ Square * 1 = Square
    BY RadixIs
  <2> HIDE DEF tmp, top
  <2>4. d = 0
    BY <1>2, <2>1, <2>2, <2>3, RadixIs
  <2> QED  BY <1>2, <2>1, <2>3, <2>4, RadixIs
<1>5. bit \in {0, 1} /\ (bit = 1 <=> lv + lw >= Square)
  <2>1. Code!less_u128(tmp, Code!Low(v)) <=> Two(tmp) < lv
    <3> HIDE DEF tmp
    <3> QED  BY <1>1, <1>3, <1>4, LessTwo
  <2> HIDE DEF tmp
  <2>2. Square - 1 - lw < lv <=> lv + lw >= Square
    BY RadixIs
  <2> QED  BY <1>4, <2>1, <2>2
<1> HIDE DEF bit
<1>6. IsTwo(<<bit, 0>>) /\ Two(<<bit, 0>>) = bit
  <2>1. CASE Radix = 1
    <3>1. Square = 1
      BY <2>1 DEF Square
    <3> QED  BY <1>5, <3>1, BitsAreLimbs
  <2>2. CASE Radix # 1
    BY <1>5, <2>2, RadixIs, BitsAreLimbs
  <2> QED  BY <2>1, <2>2
<1>7. PICK d \in {0, 1} : Two(lo) = lv + lw - Square * d
  BY <1>1, <1>3, AddTwo
<1>8. PICK e \in {0, 1} : IsTwo(mid) /\ Two(mid) = hv + hw - Square * e
  BY <1>1, <1>3, AddTwo
<1>9. PICK g \in {0, 1} : Two(hi) = Two(mid) + bit - Square * g
  <2> HIDE DEF mid
  <2> QED  BY <1>6, <1>8, AddTwo
<1>10. /\ Len(lo) = 2 /\ Len(hi) = 2 /\ lo \in Seq(Code!Limb) /\ hi \in Seq(Code!Limb)
       /\ IsTwo(lo) /\ IsTwo(hi)
  <2> HIDE DEF mid
  <2> QED  BY <1>1, <1>6, <1>8, HalvesOf
<1>11. Code!add_u256(v, w) = lo \o hi
  BY DEF Code!add_u256, bit, Radix
<1> HIDE DEF lo, hi, mid
<1>12. PICK z : z = lo \o hi
  OBVIOUS
<1>13. z \in Code!U256 /\ Two(Code!Low(z)) = Two(lo) /\ Two(Code!High(z)) = Two(hi)
  BY <1>10, <1>12, Halves
<1>14. Code!Value(z) = Two(lo) + Square * Two(hi) /\ Code!Value(z) \in Nat
  BY <1>13, FourIs
<1>15. Two(lo) \in 0 .. Square - 1 /\ Two(hi) \in 0 .. Square - 1
  BY <1>10, TwoIs
<1>16. d = bit
  BY <1>5, <1>7, <1>15, RadixIs
<1>17. ASSUME Code!Value(v) + Code!Value(w) < Square * Square
       PROVE  Code!Value(z) = Code!Value(v) + Code!Value(w)
  <2>1. Code!Value(v) = lv + Square * hv /\ Code!Value(w) = lw + Square * hw
    BY <1>3, FourIs
  <2>2. PICK f \in {0, 1, 2} : f = e + g
    OBVIOUS
  <2>3. Two(hi) = hv + hw + bit - Square * f
    BY <1>5, <1>8, <1>9, <2>2, RadixIs
  <2>4. Two(lo) + Square * Two(hi) = ((lv + Square * hv) + (lw + Square * hw)) - Square * Square * f
    <3>1. (lv + lw - Square * bit) + Square * (hv + hw + bit - Square * f) =
              ((lv + Square * hv) + (lw + Square * hw)) - Square * Square * f
      BY <1>5, RadixIs
    <3> QED  BY <1>7, <1>16, <2>3, <3>1
  <2>5. PICK total, area \in Nat :
            /\ total = (lv + Square * hv) + (lw + Square * hw) /\ area = Square * Square
    BY RadixIs
  <2>6. total < area
    BY <1>17, <2>1, <2>5
  <2>7. Code!Value(z) = total - area * f
    BY <1>14, <2>4, <2>5
  <2>8. f = 0
    <3>1. CASE f = 1
      BY <1>14, <2>6, <2>7, <3>1
    <3>2. CASE f = 2
      BY <1>14, <2>6, <2>7, <3>2
    <3> QED  BY <3>1, <3>2
  <2> QED  BY <2>1, <2>5, <2>7, <2>8
<1> QED  BY <1>11, <1>12, <1>13, <1>17

LEMMA SubFour ==
    ASSUME NEW v, NEW w, v \in Code!U256, w \in Code!U256,
           Code!Value(w) <= Code!Value(v)
    PROVE  /\ Code!sub_u256(v, w) \in Code!U256
           /\ Code!Value(Code!sub_u256(v, w)) = Code!Value(v) - Code!Value(w)
<1> DEFINE bit == IF Code!less_u128(Code!Low(v), Code!Low(w)) THEN 1 ELSE 0
           lo == Code!sub_u128(Code!Low(v), Code!Low(w))
           mid == Code!sub_u128(Code!High(v), Code!High(w))
           hi == Code!sub_u128(mid, <<bit, 0>>)
<1>1. IsTwo(Code!Low(v)) /\ IsTwo(Code!Low(w)) /\ IsTwo(Code!High(v)) /\ IsTwo(Code!High(w))
  BY FourIs
<1>3. PICK lv, lw, hv, hw \in 0 .. Square - 1 :
          /\ lv = Two(Code!Low(v)) /\ lw = Two(Code!Low(w))
          /\ hv = Two(Code!High(v)) /\ hw = Two(Code!High(w))
  BY <1>1, TwoIs
<1>5. bit \in {0, 1} /\ (bit = 1 <=> lv < lw)
  <2>1. Code!less_u128(Code!Low(v), Code!Low(w)) <=> lv < lw
    BY <1>1, <1>3, LessTwo
  <2> QED  BY <2>1
<1> HIDE DEF bit
<1>6. IsTwo(<<bit, 0>>) /\ Two(<<bit, 0>>) = bit
  <2>1. CASE Radix = 1
    <3>1. Square = 1
      BY <2>1 DEF Square
    <3> QED  BY <1>5, <3>1, BitsAreLimbs
  <2>2. CASE Radix # 1
    BY <1>5, <2>2, RadixIs, BitsAreLimbs
  <2> QED  BY <2>1, <2>2
<1>7. PICK d \in {0, 1} : Two(lo) = lv - lw + Square * d
  BY <1>1, <1>3, SubTwo
<1>8. PICK e \in {0, 1} : IsTwo(mid) /\ Two(mid) = hv - hw + Square * e
  BY <1>1, <1>3, SubTwo
<1>9. PICK g \in {0, 1} : Two(hi) = Two(mid) - bit + Square * g
  <2> HIDE DEF mid
  <2> QED  BY <1>6, <1>8, SubTwo
<1>10. /\ Len(lo) = 2 /\ Len(hi) = 2 /\ lo \in Seq(Code!Limb) /\ hi \in Seq(Code!Limb)
       /\ IsTwo(lo) /\ IsTwo(hi)
  <2> HIDE DEF mid
  <2> QED  BY <1>1, <1>6, <1>8, HalvesOf
<1>11. Code!sub_u256(v, w) = lo \o hi
  BY DEF Code!sub_u256, bit
<1> HIDE DEF lo, hi, mid
<1>12. PICK z : z = lo \o hi
  OBVIOUS
<1>13. z \in Code!U256 /\ Two(Code!Low(z)) = Two(lo) /\ Two(Code!High(z)) = Two(hi)
  BY <1>10, <1>12, Halves
<1>14. /\ Code!Value(z) = Two(lo) + Square * Two(hi) /\ Code!Value(z) \in Nat
       /\ Code!Value(z) < Square * Square
  BY <1>13, FourIs
<1>15. Two(lo) \in 0 .. Square - 1 /\ Two(hi) \in 0 .. Square - 1
  BY <1>10, TwoIs
<1>16. d = bit
  BY <1>5, <1>7, <1>15, RadixIs
<1>17. Code!Value(z) = Code!Value(v) - Code!Value(w)
  <2>1. /\ Code!Value(v) = lv + Square * hv /\ Code!Value(w) = lw + Square * hw
    BY <1>3, FourIs
  <2>2. PICK f \in {0, 1, 2} : f = e + g
    OBVIOUS
  <2>3. Two(hi) = hv - hw - bit + Square * f
    BY <1>5, <1>8, <1>9, <2>2, RadixIs
  <2>4. Two(lo) + Square * Two(hi) = (lv + Square * hv) - (lw + Square * hw) + Square * Square * f
    <3>1. (lv - lw + Square * bit) + Square * (hv - hw - bit + Square * f) =
              (lv + Square * hv) - (lw + Square * hw) + Square * Square * f
      BY <1>5, RadixIs
    <3> QED  BY <1>7, <1>16, <2>3, <3>1
  <2>5. PICK more, less, area \in Nat :
            /\ more = lv + Square * hv /\ less = lw + Square * hw /\ area = Square * Square
    BY RadixIs
  <2>6. less <= more
    BY <2>1, <2>5
  <2>7. Code!Value(z) = more - less + area * f
    BY <1>14, <2>4, <2>5
  <2>8. f = 0
    <3>1. CASE f = 1
      BY <1>14, <2>5, <2>6, <2>7, <3>1
    <3>2. CASE f = 2
      BY <1>14, <2>5, <2>6, <2>7, <3>2
    <3> QED  BY <3>1, <3>2
  <2> QED  BY <2>1, <2>5, <2>7, <2>8
<1> QED  BY <1>11, <1>12, <1>13, <1>17

-----------------------------------------------------------------------------
(***************************************************************************)
(* Words and their sums.  Induction over the numbers is by the set of      *)
(* those that a property holds of.                                         *)
(***************************************************************************)
LEMMA Induction ==
    ASSUME NEW T, T \subseteq Nat, 0 \in T, \A n \in T : n + 1 \in T
    PROVE  T = Nat
<1> DEFINE Rest == Nat \ T
           R == OpToRel(<, Nat)
<1> SUFFICES ASSUME Rest # {} PROVE FALSE
  OBVIOUS
<1>1. PICK n \in Rest : \A l \in Rest : ~(<<l, n>> \in R)
  <2>1. IsWellFoundedOn(R, Nat)
    BY NatLessThanWellFounded
  <2>2. Rest \subseteq Nat
    OBVIOUS
  <2> HIDE DEF R, Rest
  <2> QED BY <2>1, <2>2, WFMin
<1>2. n # 0 /\ n - 1 \in Nat /\ n - 1 < n
  OBVIOUS
<1>3. <<n - 1, n>> \in R
  BY <1>2 DEF OpToRel
<1>4. n - 1 \in T
  BY <1>1, <1>2, <1>3
<1>5. (n - 1) + 1 = n
  OBVIOUS
<1> QED BY <1>4, <1>5

Strung(n) == [1 .. n -> Nat]

LEMMA StrungLen == ASSUME NEW n \in Nat, NEW w \in Strung(n) PROVE Len(w) = n
<1>1. w \in Seq(Nat)
  BY SeqDef DEF Strung
<1> QED  BY <1>1, LenProperties DEF Strung

(* The sums of the prefixes. *)
Adds(f, w, n) == f[0] = 0 /\ \A y \in 1 .. n : f[y] = f[y - 1] + w[y]

LEMMA SumsExist ==
    ASSUME NEW n \in Nat, NEW w \in Strung(n)
    PROVE  \E f \in [0 .. n -> Nat] : Adds(f, w, n)
<1> DEFINE T == {l \in Nat : l <= n => \E f \in [0 .. l -> Nat] : Adds(f, w, l)}
<1>1. 0 \in T
  <2>1. [y \in 0 .. 0 |-> 0] \in [0 .. 0 -> Nat] /\ Adds([y \in 0 .. 0 |-> 0], w, 0)
    BY DEF Adds
  <2> QED  BY <2>1
<1>2. ASSUME NEW l \in T PROVE l + 1 \in T
  <2>1. l \in Nat /\ l + 1 \in Nat
    OBVIOUS
  <2>2. ASSUME l + 1 <= n PROVE \E f \in [0 .. l + 1 -> Nat] : Adds(f, w, l + 1)
    <3>1. PICK f \in [0 .. l -> Nat] : Adds(f, w, l)
      BY <2>1, <2>2
    <3>2. PICK last \in Nat : last = f[l] + w[l + 1]
      <4>1. f[l] \in Nat /\ l + 1 \in 1 .. n
        BY <2>1, <2>2, <3>1
      <4>2. w[l + 1] \in Nat
        BY <4>1 DEF Strung
      <4> QED  BY <4>1, <4>2
    <3> DEFINE g == [y \in 0 .. l + 1 |-> IF y = l + 1 THEN last ELSE f[y]]
    <3>3. (\A y \in 0 .. l : g[y] = f[y]) /\ g[l + 1] = last
      BY <2>1
    <3>4. g \in [0 .. l + 1 -> Nat]
      BY <2>1, <3>1, <3>2
    <3> HIDE DEF g
    <3>5. ASSUME NEW y \in 1 .. l + 1 PROVE g[y] = g[y - 1] + w[y]
      <4>1. CASE y = l + 1
        <5>1. y - 1 = l /\ l \in 0 .. l
          BY <2>1, <4>1
        <5> QED  BY <3>2, <3>3, <4>1, <5>1
      <4>2. CASE y # l + 1
        <5>1. y \in 1 .. l /\ y \in 0 .. l /\ y - 1 \in 0 .. l
          BY <2>1, <4>2
        <5> QED  BY <3>1, <3>3, <5>1 DEF Adds
      <4> QED  BY <4>1, <4>2
    <3>6. g[0] = 0
      BY <2>1, <3>1, <3>3 DEF Adds
    <3>7. Adds(g, w, l + 1)
      BY <3>5, <3>6 DEF Adds
    <3> QED  BY <3>4, <3>7
  <2> QED  BY <2>1, <2>2
<1>3. T = Nat
  <2> HIDE DEF T
  <2>1. T \subseteq Nat
    BY DEF T
  <2> QED  BY <1>1, <1>2, <2>1, Induction
<1>4. n \in T
  <2> HIDE DEF T
  <2> QED  BY <1>3
<1> QED  BY <1>4

LEMMA SumsAgree ==
    ASSUME NEW n \in Nat, NEW f, NEW g, NEW v, NEW w, Adds(f, v, n), Adds(g, w, n),
           \A y \in 1 .. n : v[y] = w[y]
    PROVE  f[n] = g[n]
<1> DEFINE T == {l \in Nat : l <= n => f[l] = g[l]}
<1>1. 0 \in T
  BY DEF Adds
<1>2. ASSUME NEW l \in T PROVE l + 1 \in T
  <2>1. l \in Nat
    OBVIOUS
  <2>2. ASSUME l + 1 <= n PROVE f[l + 1] = g[l + 1]
    <3>1. l <= n /\ l + 1 \in 1 .. n /\ (l + 1) - 1 = l
      BY <2>1, <2>2
    <3>2. f[l] = g[l]
      BY <2>1, <3>1
    <3>3. f[l + 1] = f[(l + 1) - 1] + v[l + 1] /\ g[l + 1] = g[(l + 1) - 1] + w[l + 1]
      BY <3>1 DEF Adds
    <3>4. v[l + 1] = w[l + 1]
      BY <3>1
    <3> QED  BY <3>1, <3>2, <3>3, <3>4
  <2> QED  BY <2>1, <2>2
<1>3. T = Nat
  <2> HIDE DEF T
  <2>1. T \subseteq Nat
    BY DEF T
  <2> QED  BY <1>1, <1>2, <2>1, Induction
<1>4. n \in T
  <2> HIDE DEF T
  <2> QED  BY <1>3
<1> QED  BY <1>4

LEMMA SumIs ==
    ASSUME NEW n \in Nat, NEW w \in Strung(n)
    PROVE  \E f \in [0 .. n -> Nat] : Adds(f, w, n) /\ Code!SumOf(w) = f[n]
<1> DEFINE Is(g) == g = [y \in 0 .. Len(w) |-> IF y = 0 THEN 0 ELSE g[y - 1] + w[y]]
           f == CHOOSE g : Is(g)
<1>1. Len(w) = n
  BY StrungLen
<1>2. PICK e \in [0 .. n -> Nat] : Adds(e, w, n)
  BY SumsExist
<1>3. Is(e)
  <2>1. \A y \in 0 .. n : e[y] = IF y = 0 THEN 0 ELSE e[y - 1] + w[y]
    BY <1>2 DEF Adds
  <2>2. e = [y \in 0 .. n |-> e[y]]
    BY <1>2
  <2> QED  BY <1>1, <2>1, <2>2
<1>4. Is(f)
  <2> HIDE DEF Is
  <2> QED  BY <1>3
<1>5. Code!SumOf(w) = f[Len(w)]
  BY DEF Code!SumOf
<1> HIDE DEF f
<1>6. f[0] = 0
  BY <1>1, <1>4
<1>7. \A y \in 1 .. n : f[y] = f[y - 1] + w[y]
  BY <1>1, <1>4
<1>8. Adds(f, w, n)
  BY <1>6, <1>7 DEF Adds
<1>9. f[n] = e[n]
  BY <1>2, <1>8, SumsAgree
<1> QED  BY <1>1, <1>2, <1>5, <1>9

LEMMA SumZero ==
    ASSUME NEW w \in Strung(0)
    PROVE  Code!SumOf(w) = 0
<1>1. PICK f \in [0 .. 0 -> Nat] : Adds(f, w, 0) /\ Code!SumOf(w) = f[0]
  BY SumIs
<1> QED  BY <1>1 DEF Adds

LEMMA SumLast ==
    ASSUME NEW n \in Nat, NEW w \in Strung(n + 1), NEW v \in Strung(n),
           \A y \in 1 .. n : v[y] = w[y]
    PROVE  /\ Code!SumOf(w) = Code!SumOf(v) + w[n + 1]
           /\ Code!SumOf(w) \in Nat /\ Code!SumOf(v) \in Nat
<1>1. PICK f \in [0 .. n + 1 -> Nat] : Adds(f, w, n + 1) /\ Code!SumOf(w) = f[n + 1]
  BY SumIs
<1>2. PICK g \in [0 .. n -> Nat] : Adds(g, v, n) /\ Code!SumOf(v) = g[n]
  BY SumIs
<1>3. Adds(f, w, n) /\ f[n + 1] = f[n] + w[n + 1]
  <2>1. \A y \in 1 .. n : y \in 1 .. n + 1
    OBVIOUS
  <2>2. n + 1 \in 1 .. n + 1 /\ (n + 1) - 1 = n
    OBVIOUS
  <2>3. f[n + 1] = f[(n + 1) - 1] + w[n + 1]
    BY <1>1, <2>2 DEF Adds
  <2> QED  BY <1>1, <2>1, <2>2, <2>3 DEF Adds
<1>4. f[n] = g[n]
  BY <1>2, <1>3, SumsAgree
<1> QED  BY <1>1, <1>2, <1>3, <1>4

(* A word behind a word. *)
Joined(p, q, n, l) == [y \in 1 .. n + l |-> IF y <= n THEN p[y] ELSE q[y - n]]

LEMMA SumJoined ==
    ASSUME NEW n \in Nat, NEW l \in Nat, NEW p \in Strung(n), NEW q \in Strung(l)
    PROVE  Code!SumOf(Joined(p, q, n, l)) = Code!SumOf(p) + Code!SumOf(q)
<1> DEFINE Holds(e) == \A r \in Strung(e) :
                           Code!SumOf(Joined(p, r, n, e)) = Code!SumOf(p) + Code!SumOf(r)
           T == {e \in Nat : Holds(e)}
<1>1. ASSUME NEW e \in Nat, NEW r \in Strung(e)
      PROVE  /\ Joined(p, r, n, e) \in Strung(n + e)
             /\ \A y \in 1 .. n : Joined(p, r, n, e)[y] = p[y]
             /\ \A y \in 1 .. e : Joined(p, r, n, e)[n + y] = r[y]
  <2>1. \A y \in 1 .. n + e : (IF y <= n THEN p[y] ELSE r[y - n]) \in Nat
    BY DEF Strung
  <2>2. \A y \in 1 .. e : n + y \in 1 .. n + e /\ ~(n + y <= n) /\ (n + y) - n = y
    OBVIOUS
  <2> QED  BY <2>1, <2>2 DEF Joined, Strung
<1>0. Code!SumOf(p) \in Nat
  BY SumIs
<1>2. 0 \in T
  <2>1. SUFFICES ASSUME NEW r \in Strung(0)
                 PROVE  Code!SumOf(Joined(p, r, n, 0)) = Code!SumOf(p) + Code!SumOf(r)
    OBVIOUS
  <2>2. Joined(p, r, n, 0) = p
    <3>1. n + 0 = n /\ p = [y \in 1 .. n |-> p[y]]
      BY DEF Strung
    <3> QED  BY <3>1 DEF Joined
  <2>3. Code!SumOf(r) = 0
    BY SumZero
  <2> QED  BY <1>0, <2>2, <2>3
<1>3. ASSUME NEW e \in T PROVE e + 1 \in T
  <2>1. e \in Nat /\ Holds(e)
    OBVIOUS
  <2>2. SUFFICES ASSUME NEW r \in Strung(e + 1)
                 PROVE  Code!SumOf(Joined(p, r, n, e + 1)) = Code!SumOf(p) + Code!SumOf(r)
    BY <2>1
  <2>3. PICK o \in Strung(e) : \A y \in 1 .. e : o[y] = r[y]
    <3>1. [y \in 1 .. e |-> r[y]] \in Strung(e)
      BY <2>1 DEF Strung
    <3> QED  BY <3>1
  <2>4. PICK j1, j2 : j1 = Joined(p, r, n, e + 1) /\ j2 = Joined(p, o, n, e)
    OBVIOUS
  <2>5. /\ j1 \in Strung(n + (e + 1))
        /\ \A y \in 1 .. n : j1[y] = p[y]
        /\ \A y \in 1 .. e + 1 : j1[n + y] = r[y]
    BY <2>1, <2>4, <1>1
  <2>6. /\ j2 \in Strung(n + e)
        /\ \A y \in 1 .. n : j2[y] = p[y]
        /\ \A y \in 1 .. e : j2[n + y] = o[y]
    BY <2>1, <2>4, <1>1
  <2>7. n + (e + 1) = (n + e) + 1
    BY <2>1
  <2>8. ASSUME NEW y \in 1 .. n + e PROVE j2[y] = j1[y]
    <3>1. CASE y <= n
      BY <2>5, <2>6, <3>1
    <3>2. CASE y > n
      <4>1. PICK x1 \in 1 .. e : y = n + x1
        <5>1. y - n \in 1 .. e /\ y = n + (y - n)
          BY <2>1, <3>2
        <5> QED  BY <5>1
      <4>2. x1 \in 1 .. e + 1
        BY <2>1
      <4> QED  BY <2>3, <2>5, <2>6, <4>1, <4>2
    <3> QED  BY <3>1, <3>2
  <2>9. Code!SumOf(j1) = Code!SumOf(j2) + j1[(n + e) + 1]
    <3>1. n + e \in Nat /\ j1 \in Strung((n + e) + 1)
      BY <2>1, <2>5, <2>7
    <3> QED  BY <2>6, <2>8, <3>1, SumLast
  <2>10. j1[(n + e) + 1] = r[e + 1]
    <3>1. e + 1 \in 1 .. e + 1
      BY <2>1
    <3> QED  BY <2>5, <2>7, <3>1
  <2>11. /\ Code!SumOf(r) = Code!SumOf(o) + r[e + 1] /\ Code!SumOf(o) \in Nat
    BY <2>1, <2>3, SumLast
  <2>12. r[e + 1] \in Nat
    BY <2>1 DEF Strung
  <2>13. Code!SumOf(j2) = Code!SumOf(p) + Code!SumOf(o)
    BY <2>1, <2>4
  <2> QED  BY <1>0, <2>4, <2>9, <2>10, <2>11, <2>12, <2>13
<1>4. T = Nat
  <2> HIDE DEF T
  <2>1. T \subseteq Nat
    BY DEF T
  <2> QED  BY <1>2, <1>3, <2>1, Induction
<1>5. l \in T
  <2> HIDE DEF T
  <2> QED  BY <1>4
<1> QED  BY <1>5

(* Every name is a set of its own size. *)
LEMMA Matched ==
    ASSUME NEW S, NEW T, IsFiniteSet(S), NEW f \in [S -> T],
           \A x1, x2 \in S : f[x1] = f[x2] => x1 = x2,
           \A y \in T : \E x1 \in S : f[x1] = y
    PROVE  IsFiniteSet(T) /\ Cardinality(T) = Cardinality(S)
<1>1. f \in Bijection(S, T)
  BY DEF Bijection, Injection, IsInjective, Surjection
<1>2. ExistsBijection(S, T)
  BY <1>1 DEF ExistsBijection
<1> QED  BY <1>2, FS_Bijection

LEMMA CountsAsCode == \A S : Code!Cardinality(S) = Cardinality(S)
BY DEF Cardinality, Code!Cardinality

Alphabet == 0 .. Winternitz - 1
Str(n) == [1 .. n -> Alphabet]

LEMMA WordsAre ==
    ASSUME NEW n \in Nat
    PROVE  /\ Str(n) \subseteq Strung(n)
           /\ \A sum : Code!Words(n, sum) = {w \in Str(n) : Code!SumOf(w) = sum}
           /\ Winternitz \in Nat \ {0} /\ CodeLength \in Nat \ {0}
<1>1. Winternitz \in Nat \ {0} /\ CodeLength \in Nat \ {0}
  BY CodeAssumption DEF Code!CodeAssumption
<1>2. Alphabet \subseteq Nat
  BY <1>1 DEF Alphabet
<1> QED  BY <1>1, <1>2 DEF Str, Strung, Code!Words, Alphabet

LEMMA StrFinite == \A n \in Nat : IsFiniteSet(Str(n))
<1> DEFINE T == {n \in Nat : IsFiniteSet(Str(n))}
<1>1. 0 \in T
  <2>1. PICK e : e = [y \in 1 .. 0 |-> 0]
    OBVIOUS
  <2>2. \A w \in Str(0) : w = e
    BY <2>1 DEF Str
  <2>3. Str(0) \subseteq {e}
    BY <2>2
  <2>4. IsFiniteSet({e})
    BY FS_Singleton
  <2> QED  BY <2>3, <2>4, FS_Subset
<1>2. ASSUME NEW n \in T PROVE n + 1 \in T
  <2>1. n \in Nat /\ IsFiniteSet(Str(n))
    OBVIOUS
  <2>2. IsFiniteSet(Alphabet)
    BY WordsAre, FS_Interval DEF Alphabet
  <2>3. IsFiniteSet(Str(n) \X Alphabet)
    BY <2>1, <2>2, FS_Product
  <2> DEFINE longer(x1) == [y \in 1 .. n + 1 |-> IF y = n + 1 THEN x1[2] ELSE x1[1][y]]
             f == [x1 \in Str(n) \X Alphabet |-> longer(x1)]
  <2>4. ASSUME NEW x1 \in Str(n) \X Alphabet
        PROVE  /\ longer(x1) \in Str(n + 1)
               /\ longer(x1)[n + 1] = x1[2] /\ \A y \in 1 .. n : longer(x1)[y] = x1[1][y]
    <3>1. \A y \in 1 .. n + 1 : (IF y = n + 1 THEN x1[2] ELSE x1[1][y]) \in Alphabet
      BY <2>1 DEF Str
    <3> QED  BY <2>1, <3>1 DEF Str
  <2>5. f \in [Str(n) \X Alphabet -> Str(n + 1)]
    <3> HIDE DEF longer
    <3> QED  BY <2>4
  <2>6. ASSUME NEW w \in Str(n + 1) PROVE \E x1 \in Str(n) \X Alphabet : f[x1] = w
    <3>1. PICK v : v = [y \in 1 .. n |-> w[y]]
      OBVIOUS
    <3>2. v \in Str(n) /\ w[n + 1] \in Alphabet
      BY <2>1, <3>1 DEF Str
    <3>3. PICK x1 \in Str(n) \X Alphabet : x1 = <<v, w[n + 1]>>
      BY <3>2
    <3>4. \A y \in 1 .. n + 1 : longer(x1)[y] = w[y]
      BY <2>1, <3>1, <3>3
    <3>5. longer(x1) = w
      <4>1. longer(x1) = [y \in 1 .. n + 1 |-> longer(x1)[y]] /\ w = [y \in 1 .. n + 1 |-> w[y]]
        BY DEF Str
      <4> HIDE DEF longer
      <4> QED  BY <3>4, <4>1
    <3> QED  BY <3>5
  <2>7. f \in Surjection(Str(n) \X Alphabet, Str(n + 1))
    <3> HIDE DEF f
    <3> QED  BY <2>5, <2>6 DEF Surjection
  <2>8. IsFiniteSet(Str(n + 1))
    <3> HIDE DEF f
    <3> QED  BY <2>3, <2>7, FS_Surjection
  <2> QED  BY <2>1, <2>8
<1>3. T = Nat
  <2> HIDE DEF T
  <2>1. T \subseteq Nat
    BY DEF T
  <2> QED  BY <1>1, <1>2, <2>1, Induction
<1>4. \A n \in Nat : n \in T
  <2> HIDE DEF T
  <2> QED  BY <1>3
<1> QED  BY <1>4

LEMMA WordsFinite ==
    ASSUME NEW n \in Nat, NEW sum
    PROVE  IsFiniteSet(Code!Words(n, sum)) /\ Cardinality(Code!Words(n, sum)) \in Nat
<1>1. Code!Words(n, sum) \subseteq Str(n)
  BY WordsAre
<1> QED  BY <1>1, StrFinite, FS_Subset, FS_CardinalityType

(* Those of a length and a sum that begin with the n letters of p are as   *)
(* many as there are words for what p leaves.                              *)
Completing(p, n, l, sum) ==
    {w \in Str(n + l) : (\A y \in 1 .. n : w[y] = p[y]) /\ Code!SumOf(w) = sum}

LEMMA CountCompleting ==
    ASSUME NEW n \in Nat, NEW l \in Nat, NEW p \in Str(n), NEW sum \in Nat
    PROVE  /\ IsFiniteSet(Completing(p, n, l, sum))
           /\ Cardinality(Completing(p, n, l, sum)) =
                  Cardinality(Code!Words(l, sum - Code!SumOf(p)))
<1> DEFINE S == Code!Words(l, sum - Code!SumOf(p))
           T == Completing(p, n, l, sum)
           f == [q \in S |-> Joined(p, q, n, l)]
<1>1. IsFiniteSet(S)
  BY WordsFinite
<1>2. p \in Strung(n) /\ Code!SumOf(p) \in Nat
  BY WordsAre, SumIs
<1>3. ASSUME NEW q \in Str(l)
      PROVE  /\ Joined(p, q, n, l) \in Str(n + l)
             /\ \A y \in 1 .. n : Joined(p, q, n, l)[y] = p[y]
             /\ \A y \in 1 .. l : Joined(p, q, n, l)[n + y] = q[y]
             /\ Code!SumOf(Joined(p, q, n, l)) = Code!SumOf(p) + Code!SumOf(q)
             /\ Code!SumOf(q) \in Nat
  <2>1. \A y \in 1 .. n + l : (IF y <= n THEN p[y] ELSE q[y - n]) \in Alphabet
    BY DEF Str
  <2>2. \A y \in 1 .. l : n + y \in 1 .. n + l /\ ~(n + y <= n) /\ (n + y) - n = y
    OBVIOUS
  <2>3. /\ Joined(p, q, n, l) \in Str(n + l)
        /\ \A y \in 1 .. n : Joined(p, q, n, l)[y] = p[y]
        /\ \A y \in 1 .. l : Joined(p, q, n, l)[n + y] = q[y]
    BY <2>1, <2>2 DEF Joined, Str
  <2>4. q \in Strung(l)
    BY WordsAre
  <2> QED  BY <1>2, <2>3, <2>4, SumJoined, SumIs
<1>4. S = {q \in Str(l) : Code!SumOf(q) = sum - Code!SumOf(p)}
  BY WordsAre
<1>5. f \in [S -> T]
  <2>1. ASSUME NEW q \in S PROVE Joined(p, q, n, l) \in T
    <3>1. q \in Str(l) /\ Code!SumOf(q) = sum - Code!SumOf(p)
      BY <1>4
    <3>2. Code!SumOf(Joined(p, q, n, l)) = sum
      BY <1>2, <1>3, <3>1
    <3> QED  BY <1>3, <3>1, <3>2 DEF Completing
  <2> HIDE DEF S, T
  <2> QED  BY <2>1
<1>6. ASSUME NEW q1 \in S, NEW q2 \in S, f[q1] = f[q2] PROVE q1 = q2
  <2>1. q1 \in Str(l) /\ q2 \in Str(l) /\ Joined(p, q1, n, l) = Joined(p, q2, n, l)
    BY <1>4, <1>6
  <2>2. \A y \in 1 .. l : q1[y] = q2[y]
    BY <1>3, <2>1
  <2> QED  BY <2>1, <2>2 DEF Str
<1>7. ASSUME NEW w \in T PROVE \E q \in S : f[q] = w
  <2>1. w \in Str(n + l) /\ (\A y \in 1 .. n : w[y] = p[y]) /\ Code!SumOf(w) = sum
    BY DEF Completing
  <2>2. PICK q : q = [y \in 1 .. l |-> w[n + y]]
    OBVIOUS
  <2>3. q \in Str(l)
    <3>1. \A y \in 1 .. l : n + y \in 1 .. n + l
      OBVIOUS
    <3> QED  BY <2>1, <2>2, <3>1 DEF Str
  <2>4. PICK e : e = Joined(p, q, n, l)
    OBVIOUS
  <2>5. /\ e \in Str(n + l)
        /\ \A y \in 1 .. n : e[y] = p[y]
        /\ \A y \in 1 .. l : e[n + y] = q[y]
        /\ Code!SumOf(e) = Code!SumOf(p) + Code!SumOf(q)
        /\ Code!SumOf(q) \in Nat
    BY <1>3, <2>3, <2>4
  <2>6. ASSUME NEW y \in 1 .. n + l PROVE e[y] = w[y]
    <3>1. CASE y <= n
      BY <2>1, <2>5, <3>1
    <3>2. CASE y > n
      <4>1. PICK z1 \in 1 .. l : y = n + z1
        <5>1. y - n \in 1 .. l /\ y = n + (y - n)
          BY <3>2
        <5> QED  BY <5>1
      <4> QED  BY <2>2, <2>5, <4>1
    <3> QED  BY <3>1, <3>2
  <2>7. e = w
    BY <2>1, <2>5, <2>6 DEF Str
  <2>8. Code!SumOf(q) = sum - Code!SumOf(p)
    BY <1>2, <2>1, <2>5, <2>7
  <2>9. q \in S
    BY <1>4, <2>3, <2>8
  <2> QED  BY <2>4, <2>7, <2>9
<1> HIDE DEF S, T, f
<1>8. IsFiniteSet(T) /\ Cardinality(T) = Cardinality(S)
  BY <1>1, <1>5, <1>6, <1>7, Matched
<1> QED  BY <1>8 DEF S, T

(* A message is one of as many numbers as there are messages. *)
Limbed(n) == {v \in Code!U256 : \A y \in n + 1 .. 4 : v[y] = 0}

LEMMA LimbedCount ==
    /\ IsFiniteSet(Limbed(0)) /\ Cardinality(Limbed(0)) = 1
    /\ \A n \in 0 .. 3 :
           IsFiniteSet(Limbed(n)) =>
               /\ IsFiniteSet(Limbed(n + 1))
               /\ Cardinality(Limbed(n + 1)) = Radix * Cardinality(Limbed(n))
<1>1. Limbed(0) = {Code!Zero256}
  <2>1. Code!Zero256 \in Limbed(0)
    BY RadixIs DEF Limbed, Code!U256, Code!Zero256
  <2>2. ASSUME NEW v \in Limbed(0) PROVE v = Code!Zero256
    BY DEF Limbed, Code!U256, Code!Zero256
  <2> QED  BY <2>1, <2>2
<1>2. ASSUME NEW n \in 0 .. 3, IsFiniteSet(Limbed(n))
      PROVE  /\ IsFiniteSet(Limbed(n + 1))
             /\ Cardinality(Limbed(n + 1)) = Radix * Cardinality(Limbed(n))
  <2> DEFINE wide(x1) == [x1[2] EXCEPT ![n + 1] = x1[1]]
             S == Code!Limb \X Limbed(n)
             T == Limbed(n + 1)
             f == [x1 \in S |-> wide(x1)]
  <2>1. IsFiniteSet(Code!Limb) /\ Cardinality(Code!Limb) = Radix
    BY RadixIs, FS_Interval
  <2>2. IsFiniteSet(S) /\ Cardinality(S) = Radix * Cardinality(Limbed(n))
    BY <1>2, <2>1, FS_Product
  <2>3. ASSUME NEW x1 \in S
        PROVE  /\ wide(x1) \in T /\ wide(x1)[n + 1] = x1[1]
               /\ \A y \in 1 .. 4 : y # n + 1 => wide(x1)[y] = x1[2][y]
    <3>1. x1[1] \in Code!Limb /\ x1[2] \in Code!U256 /\ \A y \in n + 1 .. 4 : x1[2][y] = 0
      BY DEF Limbed
    <3>2. n + 1 \in 1 .. 4
      OBVIOUS
    <3>3. /\ wide(x1) \in Code!U256 /\ wide(x1)[n + 1] = x1[1]
          /\ \A y \in 1 .. 4 : y # n + 1 => wide(x1)[y] = x1[2][y]
      BY <3>1, <3>2 DEF Code!U256
    <3>4. \A y \in (n + 1) + 1 .. 4 : y \in 1 .. 4 /\ y # n + 1 /\ y \in n + 1 .. 4
      OBVIOUS
    <3> HIDE DEF wide
    <3>5. \A y \in (n + 1) + 1 .. 4 : wide(x1)[y] = 0
      BY <3>1, <3>3, <3>4
    <3> QED  BY <3>3, <3>5 DEF Limbed
  <2>4. f \in [S -> T]
    <3> HIDE DEF S, T, wide
    <3> QED  BY <2>3
  <2>5. ASSUME NEW x1 \in S, NEW x2 \in S, f[x1] = f[x2] PROVE x1 = x2
    <3>1. wide(x1) = wide(x2)
      <4> HIDE DEF S, wide
      <4> QED  BY <2>5
    <3>2. x1[1] = x2[1]
      <4> HIDE DEF wide
      <4> QED  BY <2>3, <3>1
    <3>3. x1[2] \in Code!U256 /\ x2[2] \in Code!U256 /\ x1[2][n + 1] = 0 /\ x2[2][n + 1] = 0
      BY DEF Limbed
    <3>4. \A y \in 1 .. 4 : x1[2][y] = x2[2][y]
      <4> HIDE DEF wide
      <4> QED  BY <2>3, <3>1, <3>3
    <3>5. x1[2] = x2[2]
      BY <3>3, <3>4 DEF Code!U256
    <3> QED  BY <3>2, <3>5
  <2>6. ASSUME NEW v \in T PROVE \E x1 \in S : f[x1] = v
    <3>1. PICK w : w = [v EXCEPT ![n + 1] = 0]
      OBVIOUS
    <3>2. v \in Code!U256 /\ n + 1 \in 1 .. 4 /\ \A y \in (n + 1) + 1 .. 4 : v[y] = 0
      BY DEF Limbed
    <3>3. w \in Code!U256 /\ w[n + 1] = 0 /\ \A y \in 1 .. 4 : y # n + 1 => w[y] = v[y]
      BY <3>1, <3>2, RadixIs DEF Code!U256
    <3>4. w \in Limbed(n)
      <4>1. ASSUME NEW y \in n + 1 .. 4 PROVE w[y] = 0
        <5>1. y = n + 1 \/ y \in (n + 1) + 1 .. 4
          OBVIOUS
        <5> QED  BY <3>2, <3>3, <5>1
      <4> QED  BY <3>3, <4>1 DEF Limbed
    <3>5. v[n + 1] \in Code!Limb
      BY <3>2 DEF Code!U256
    <3>6. PICK x1 \in S : x1 = <<v[n + 1], w>>
      BY <3>4, <3>5
    <3>7. \A y \in 1 .. 4 : wide(x1)[y] = v[y]
      <4> HIDE DEF wide
      <4> QED  BY <2>3, <3>3, <3>6
    <3>8. wide(x1) \in Code!U256
      <4> HIDE DEF wide
      <4> QED  BY <2>3 DEF Limbed
    <3>9. wide(x1) = v
      <4> HIDE DEF wide
      <4> QED  BY <3>2, <3>7, <3>8 DEF Code!U256
    <3> QED  BY <3>9
  <2> HIDE DEF S, T, f
  <2>7. IsFiniteSet(T) /\ Cardinality(T) = Cardinality(S)
    BY <2>2, <2>4, <2>5, <2>6, Matched
  <2> QED  BY <2>2, <2>7 DEF T
<1> QED  BY <1>1, <1>2, FS_Singleton

LEMMA RadixFits ==
    ASSUME NEW R \in Nat \ {0}, NEW u \in 0 .. R - 1, NEW p \in Nat, NEW q \in Nat, p < q
    PROVE  u + R * p < R * q /\ u + R * p \in Nat
<1>1. 0 \in 0 .. R - 1
  OBVIOUS
<1>2. u + R * p < 0 + R * q
  BY <1>1, RadixLess
<1>3. R * q \in Nat /\ R * p \in Nat
  OBVIOUS
<1> QED  BY <1>2, <1>3

LEMMA LimbedFits ==
    ASSUME NEW n \in 1 .. 4, NEW v \in Limbed(n)
    PROVE  IsFiniteSet(Limbed(n)) /\ Code!Value(v) < Cardinality(Limbed(n))
<1>1. PICK c0, c1, c2, c3, c4 \in Nat :
          /\ c0 = Cardinality(Limbed(0)) /\ c1 = Cardinality(Limbed(1))
          /\ c2 = Cardinality(Limbed(2)) /\ c3 = Cardinality(Limbed(3))
          /\ c4 = Cardinality(Limbed(4))
          /\ c0 = 1 /\ c1 = Radix * c0 /\ c2 = Radix * c1 /\ c3 = Radix * c2 /\ c4 = Radix * c3
          /\ IsFiniteSet(Limbed(1)) /\ IsFiniteSet(Limbed(2)) /\ IsFiniteSet(Limbed(3))
          /\ IsFiniteSet(Limbed(4))
  <2>1. IsFiniteSet(Limbed(0)) /\ Cardinality(Limbed(0)) = 1
    BY LimbedCount
  <2>2. IsFiniteSet(Limbed(1)) /\ Cardinality(Limbed(1)) = Radix * Cardinality(Limbed(0))
    <3>1. 0 \in 0 .. 3 /\ 0 + 1 = 1
      OBVIOUS
    <3> QED  BY <2>1, <3>1, LimbedCount
  <2>3. IsFiniteSet(Limbed(2)) /\ Cardinality(Limbed(2)) = Radix * Cardinality(Limbed(1))
    <3>1. 1 \in 0 .. 3 /\ 1 + 1 = 2
      OBVIOUS
    <3> QED  BY <2>2, <3>1, LimbedCount
  <2>4. IsFiniteSet(Limbed(3)) /\ Cardinality(Limbed(3)) = Radix * Cardinality(Limbed(2))
    <3>1. 2 \in 0 .. 3 /\ 2 + 1 = 3
      OBVIOUS
    <3> QED  BY <2>3, <3>1, LimbedCount
  <2>5. IsFiniteSet(Limbed(4)) /\ Cardinality(Limbed(4)) = Radix * Cardinality(Limbed(3))
    <3>1. 3 \in 0 .. 3 /\ 3 + 1 = 4
      OBVIOUS
    <3> QED  BY <2>4, <3>1, LimbedCount
  <2> QED  BY <2>1, <2>2, <2>3, <2>4, <2>5, FS_CardinalityType
<1>2. PICK v1, v2, v3, v4 \in 0 .. Radix - 1 : v1 = v[1] /\ v2 = v[2] /\ v3 = v[3] /\ v4 = v[4]
  BY RadixIs DEF Code!U256, Limbed
<1>3. Code!Value(v) = v1 + Radix * (v2 + Radix * (v3 + Radix * v4))
  BY <1>2 DEF Code!Value, Radix
<1>4. \A u \in 0 .. Radix - 1 : u < c1 /\ u + Radix * 0 = u
  BY <1>1, RadixIs
<1>5. \A y \in n + 1 .. 4 : v[y] = 0
  BY DEF Limbed
<1>6. CASE n = 1
  <2>1. v2 = 0 /\ v3 = 0 /\ v4 = 0
    BY <1>2, <1>5, <1>6
  <2>2. Code!Value(v) = v1
    BY <1>3, <1>4, <2>1, RadixIs
  <2> QED  BY <1>1, <1>4, <1>6, <2>2
<1>7. CASE n = 2
  <2>1. v3 = 0 /\ v4 = 0
    BY <1>2, <1>5, <1>7
  <2>2. Code!Value(v) = v1 + Radix * v2
    BY <1>3, <1>4, <2>1, RadixIs
  <2>3. v2 \in Nat /\ v2 < c1
    BY <1>4
  <2>4. v1 + Radix * v2 < Radix * c1
    BY <2>3, RadixIs, RadixFits
  <2> QED  BY <1>1, <1>7, <2>2, <2>4
<1>8. CASE n = 3
  <2>1. v4 = 0
    BY <1>2, <1>5, <1>8
  <2>2. Code!Value(v) = v1 + Radix * (v2 + Radix * v3)
    BY <1>3, <1>4, <2>1, RadixIs
  <2>3. v3 \in Nat /\ v3 < c1
    BY <1>4
  <2>4. PICK t \in Nat : t = v2 + Radix * v3 /\ t < c2
    <3>1. v2 + Radix * v3 < Radix * c1 /\ v2 + Radix * v3 \in Nat
      BY <2>3, RadixIs, RadixFits
    <3> QED  BY <1>1, <3>1
  <2>5. v1 + Radix * t < Radix * c2
    BY <2>4, RadixIs, RadixFits
  <2> QED  BY <1>1, <1>8, <2>2, <2>4, <2>5
<1>9. CASE n = 4
  <2>3. v4 \in Nat /\ v4 < c1
    BY <1>4
  <2>4. PICK t \in Nat : t = v3 + Radix * v4 /\ t < c2
    <3>1. v3 + Radix * v4 < Radix * c1 /\ v3 + Radix * v4 \in Nat
      BY <2>3, RadixIs, RadixFits
    <3> QED  BY <1>1, <3>1
  <2>5. PICK u \in Nat : u = v2 + Radix * t /\ u < c3
    <3>1. v2 + Radix * t < Radix * c2 /\ v2 + Radix * t \in Nat
      BY <2>4, RadixIs, RadixFits
    <3> QED  BY <1>1, <3>1
  <2>6. v1 + Radix * u < Radix * c3
    BY <2>5, RadixIs, RadixFits
  <2> QED  BY <1>1, <1>3, <1>9, <2>4, <2>5, <2>6
<1> QED  BY <1>1, <1>6, <1>7, <1>8, <1>9

LEMMA MessageHasAWord ==
    ASSUME NEW v \in Code!Messages
    PROVE  /\ v \in Code!U256
           /\ Code!Value(v) < Cardinality(Code!Words(CodeLength, Code!HalfSum))
<1>1. MessageLimbs \in 1 .. 4 /\ CodeLength \in Nat
  BY CodeAssumption DEF Code!CodeAssumption
<1>2. Code!Messages = Limbed(MessageLimbs)
  BY DEF Code!Messages, Limbed
<1>3. /\ IsFiniteSet(Limbed(MessageLimbs))
      /\ Code!Value(v) < Cardinality(Limbed(MessageLimbs))
  BY <1>1, <1>2, LimbedFits
<1>4. Cardinality(Limbed(MessageLimbs)) <= Cardinality(Code!Words(CodeLength, Code!HalfSum))
  BY <1>2, EveryMessageHasAWord, CountsAsCode DEF Code!EveryMessageHasAWord
<1>5. v \in Code!U256 /\ Code!Value(v) \in Nat
  BY FourIs DEF Code!Messages
<1>6. Cardinality(Limbed(MessageLimbs)) \in Nat
  BY <1>3, FS_CardinalityType
<1>7. Cardinality(Code!Words(CodeLength, Code!HalfSum)) \in Nat
  BY <1>1, WordsFinite
<1> QED  BY <1>3, <1>4, <1>5, <1>6, <1>7

-----------------------------------------------------------------------------
(***************************************************************************)
(* The words by their first letters.                                       *)
(***************************************************************************)
Then(p, n, d) == [y \in 1 .. n + 1 |-> IF y = n + 1 THEN d ELSE p[y]]

LEMMA ThenIs ==
    ASSUME NEW n \in Nat, NEW p \in Str(n), NEW d \in Alphabet
    PROVE  /\ Then(p, n, d) \in Str(n + 1)
           /\ Then(p, n, d)[n + 1] = d /\ \A y \in 1 .. n : Then(p, n, d)[y] = p[y]
           /\ Code!SumOf(Then(p, n, d)) = Code!SumOf(p) + d /\ Code!SumOf(p) \in Nat /\ d \in Nat
           /\ Then(p, n, d) = Append(p, d)
<1>1. /\ Then(p, n, d) \in Str(n + 1)
      /\ Then(p, n, d)[n + 1] = d /\ \A y \in 1 .. n : Then(p, n, d)[y] = p[y]
  <2>1. \A y \in 1 .. n + 1 : (IF y = n + 1 THEN d ELSE p[y]) \in Alphabet
    BY DEF Str
  <2> QED  BY <2>1 DEF Then, Str
<1>2. p \in Strung(n) /\ Then(p, n, d) \in Strung(n + 1)
  BY <1>1, WordsAre
<1>3. Code!SumOf(Then(p, n, d)) = Code!SumOf(p) + d /\ Code!SumOf(p) \in Nat
  <2>1. PICK q \in Strung(n + 1) : q = Then(p, n, d)
    BY <1>2
  <2>2. q[n + 1] = d /\ \A y \in 1 .. n : p[y] = q[y]
    BY <1>1, <2>1
  <2>3. Code!SumOf(q) = Code!SumOf(p) + q[n + 1] /\ Code!SumOf(p) \in Nat
    BY <1>2, <2>2, SumLast
  <2> QED  BY <2>1, <2>2, <2>3
<1>4. d \in Nat
  BY WordsAre DEF Alphabet
<1>5. Then(p, n, d) = Append(p, d)
  <2>1. p \in Seq(Alphabet)
    BY SeqDef DEF Str
  <2>2. Len(p) = n
    BY <2>1, LenProperties DEF Str
  <2>3. /\ Append(p, d) \in Seq(Alphabet) /\ Len(Append(p, d)) = n + 1
        /\ Append(p, d)[n + 1] = d /\ \A y \in 1 .. n : Append(p, d)[y] = p[y]
    BY <2>1, <2>2, AppendProperties
  <2>4. Append(p, d) \in Str(n + 1)
    BY <2>3, LenProperties DEF Str
  <2>5. \A y \in 1 .. n + 1 : Append(p, d)[y] = Then(p, n, d)[y]
    BY <1>1, <2>3
  <2> QED  BY <1>1, <2>4, <2>5 DEF Str
<1> QED  BY <1>1, <1>3, <1>4, <1>5

(* What begins a word has no greater sum. *)
LEMMA BeginsSmaller ==
    ASSUME NEW n \in Nat, NEW l \in Nat, NEW p \in Str(n), NEW w \in Str(n + l),
           \A y \in 1 .. n : w[y] = p[y]
    PROVE  Code!SumOf(p) <= Code!SumOf(w) /\ Code!SumOf(p) \in Nat /\ Code!SumOf(w) \in Nat
<1>1. PICK q : q = [y \in 1 .. l |-> w[n + y]]
  OBVIOUS
<1>2. q \in Str(l)
  <2>1. \A y \in 1 .. l : n + y \in 1 .. n + l
    OBVIOUS
  <2> QED  BY <1>1, <2>1 DEF Str
<1>3. p \in Strung(n) /\ q \in Strung(l)
  BY <1>2, WordsAre
<1>4. w = Joined(p, q, n, l)
  <2>1. \A y \in 1 .. n + l : (IF y <= n THEN p[y] ELSE q[y - n]) = w[y]
    <3> SUFFICES ASSUME NEW y \in 1 .. n + l
                 PROVE  (IF y <= n THEN p[y] ELSE q[y - n]) = w[y]
      OBVIOUS
    <3>1. CASE y <= n
      BY <3>1
    <3>2. CASE y > n
      <4>1. y - n \in 1 .. l /\ n + (y - n) = y
        BY <3>2
      <4>2. q[y - n] = w[n + (y - n)]
        BY <1>1, <4>1
      <4> QED  BY <3>2, <4>1, <4>2
    <3> QED  BY <3>1, <3>2
  <2> QED  BY <2>1 DEF Joined, Str
<1>5. Code!SumOf(w) = Code!SumOf(p) + Code!SumOf(q)
  BY <1>3, <1>4, SumJoined
<1>6. Code!SumOf(p) \in Nat /\ Code!SumOf(q) \in Nat
  BY <1>3, SumIs
<1> QED  BY <1>5, <1>6

(* Those that go on with d. *)
Going(p, n, d, size, sum) ==
    {w \in Code!Words(size, sum) : (\A y \in 1 .. n : w[y] = p[y]) /\ w[n + 1] = d}

LEMMA CountGoing ==
    ASSUME NEW size \in Nat, NEW n \in Nat, n < size, NEW p \in Str(n), NEW d \in Alphabet,
           NEW sum \in Nat
    PROVE  /\ IsFiniteSet(Going(p, n, d, size, sum))
           /\ Cardinality(Going(p, n, d, size, sum)) =
                  Cardinality(Code!Words(size - n - 1, sum - Code!SumOf(p) - d))
<1>1. PICK l \in Nat : size = (n + 1) + l
  <2>1. size - n - 1 \in Nat /\ size = (n + 1) + (size - n - 1)
    OBVIOUS
  <2> QED  BY <2>1
<1>2. PICK q \in Str(n + 1) :
          /\ q[n + 1] = d /\ \A y \in 1 .. n : q[y] = p[y]
          /\ Code!SumOf(q) = Code!SumOf(p) + d /\ Code!SumOf(p) \in Nat /\ d \in Nat
  BY ThenIs
<1>3. Going(p, n, d, size, sum) = Completing(q, n + 1, l, sum)
  <2>1. Code!Words(size, sum) = {w \in Str((n + 1) + l) : Code!SumOf(w) = sum}
    BY <1>1, WordsAre
  <2>2. ASSUME NEW w
        PROVE  (\A y \in 1 .. n + 1 : w[y] = q[y]) <=> (\A y \in 1 .. n : w[y] = p[y]) /\ w[n + 1] = d
    <3>1. \A y : y \in 1 .. n + 1 <=> y \in 1 .. n \/ y = n + 1
      OBVIOUS
    <3> QED  BY <1>2, <3>1
  <2> QED  BY <2>1, <2>2 DEF Going, Completing
<1>4. /\ IsFiniteSet(Completing(q, n + 1, l, sum))
      /\ Cardinality(Completing(q, n + 1, l, sum)) =
             Cardinality(Code!Words(l, sum - Code!SumOf(q)))
  <2>1. n + 1 \in Nat
    OBVIOUS
  <2> QED  BY <2>1, CountCompleting
<1>5. size - n - 1 = l /\ sum - Code!SumOf(q) = sum - Code!SumOf(p) - d
  BY <1>1, <1>2
<1> QED  BY <1>3, <1>4, <1>5

(* A set and another that has nothing of it. *)
LEMMA Apart ==
    ASSUME NEW A, NEW B, NEW C, IsFiniteSet(A), IsFiniteSet(B), C = A \cup B, A \cap B = {}
    PROVE  /\ Cardinality(A) \in Nat /\ Cardinality(B) \in Nat /\ Cardinality(C) \in Nat
           /\ IsFiniteSet(C) /\ Cardinality(C) = Cardinality(A) + Cardinality(B)
<1>1. Cardinality(A) \in Nat /\ Cardinality(B) \in Nat
  BY FS_CardinalityType
<1>2. /\ IsFiniteSet(A \cup B)
      /\ Cardinality(A \cup B) = Cardinality(A) + Cardinality(B) - Cardinality(A \cap B)
  BY FS_Union
<1>3. Cardinality({}) = 0
  BY FS_EmptySet
<1>4. Cardinality(C) = Cardinality(A) + Cardinality(B) - Cardinality({}) /\ IsFiniteSet(C)
  <2>1. A \cap B = {} /\ C = A \cup B
    OBVIOUS
  <2> QED  BY <1>2, <2>1, Zenon
<1>5. Cardinality(C) = Cardinality(A) + Cardinality(B)
  <2>1. PICK r \in Nat, q \in Nat : r = Cardinality(A) /\ q = Cardinality(B)
    BY <1>1
  <2>2. Cardinality(C) = r + q - 0
    BY <1>3, <1>4, <2>1, Zenon
  <2> QED  BY <2>1, <2>2
<1>6. Cardinality(C) \in Nat
  BY <1>1, <1>5
<1> QED  BY <1>1, <1>4, <1>5, <1>6, Zenon

(* The fill counts the words by their first letter. *)
Started(n, sum, d) == {w \in Code!Words(n, sum) : w[1] < d}

LEMMA CountStarted ==
    ASSUME NEW n \in Nat, NEW sum \in Nat
    PROVE  /\ Cardinality(Started(n + 1, sum, 0)) = 0
           /\ \A d \in Nat :
                  /\ Cardinality(Started(n + 1, sum, d)) \in Nat
                  /\ Cardinality(Started(n + 1, sum, d)) <= Cardinality(Code!Words(n + 1, sum))
                  /\ IF Code!DigitFits(d, sum)
                     THEN Cardinality(Started(n + 1, sum, d + 1)) =
                              Cardinality(Started(n + 1, sum, d))
                                  + Cardinality(Code!Words(n, sum - d))
                     ELSE Started(n + 1, sum, d) = Code!Words(n + 1, sum)
<1>1. Code!Words(n + 1, sum) = {w \in Str(n + 1) : Code!SumOf(w) = sum} /\ 1 \in 1 .. n + 1
  BY WordsAre
<1>2. ASSUME NEW w \in Code!Words(n + 1, sum)
      PROVE  w[1] \in Alphabet /\ w[1] \in Nat /\ w[1] < Winternitz /\ w[1] <= sum
  <2>1. w \in Str(n + 1) /\ Code!SumOf(w) = sum /\ w[1] \in Alphabet
    BY <1>1 DEF Str
  <2>2. w[1] \in Nat /\ w[1] < Winternitz
    BY <2>1, WordsAre DEF Alphabet
  <2>3. PICK e \in Str(0) : TRUE
    <3>1. [y \in 1 .. 0 |-> 0] \in Str(0)
      BY DEF Str
    <3> QED  BY <3>1
  <2>4. PICK q \in Str(0 + 1) : q[0 + 1] = w[1] /\ Code!SumOf(q) = Code!SumOf(e) + w[1]
    <3>1. PICK d \in Alphabet : d = w[1]
      BY <2>1
    <3>2. PICK q \in Str(0 + 1) : q = Then(e, 0, d)
      <4>1. 0 \in Nat
        OBVIOUS
      <4> QED  BY <4>1, ThenIs
    <3>3. q[0 + 1] = d /\ Code!SumOf(q) = Code!SumOf(e) + d
      <4>1. 0 \in Nat
        OBVIOUS
      <4>2. Then(e, 0, d)[0 + 1] = d /\ Code!SumOf(Then(e, 0, d)) = Code!SumOf(e) + d
        BY <4>1, ThenIs
      <4> QED  BY <3>2, <4>2
    <3> QED  BY <3>1, <3>2, <3>3
  <2>5. Code!SumOf(e) = 0
    BY SumZero, WordsAre
  <2>6. q \in Str(1) /\ \A y \in 1 .. 1 : w[y] = q[y]
    <3>1. 0 + 1 = 1 /\ \A y \in 1 .. 1 : y = 1
      OBVIOUS
    <3> QED  BY <2>4, <3>1
  <2>7. w \in Str(1 + n)
    <3>1. 1 + n = n + 1
      OBVIOUS
    <3> QED  BY <2>1, <3>1
  <2>8. Code!SumOf(q) <= Code!SumOf(w)
    BY <2>6, <2>7, BeginsSmaller
  <2> QED  BY <2>1, <2>2, <2>4, <2>5, <2>8
<1>3. Started(n + 1, sum, 0) = {}
  <2>1. \A w \in Code!Words(n + 1, sum) : ~(w[1] < 0)
    BY <1>2
  <2> QED  BY <2>1 DEF Started
<1>4. ASSUME NEW d \in Nat
      PROVE  /\ IsFiniteSet(Started(n + 1, sum, d))
             /\ Cardinality(Started(n + 1, sum, d)) \in Nat
             /\ Cardinality(Started(n + 1, sum, d)) <= Cardinality(Code!Words(n + 1, sum))
  <2>1. Started(n + 1, sum, d) \subseteq Code!Words(n + 1, sum)
    BY DEF Started
  <2>2. IsFiniteSet(Code!Words(n + 1, sum))
    BY WordsFinite
  <2> QED  BY <2>1, <2>2, FS_Subset, FS_CardinalityType
<1>5. ASSUME NEW d \in Nat, Code!DigitFits(d, sum)
      PROVE  Cardinality(Started(n + 1, sum, d + 1)) =
                 Cardinality(Started(n + 1, sum, d)) + Cardinality(Code!Words(n, sum - d))
  <2>1. d \in Alphabet /\ d <= sum
    BY <1>5, WordsAre DEF Code!DigitFits, Alphabet
  <2>2. PICK e \in Str(0) : TRUE
    <3>1. [y \in 1 .. 0 |-> 0] \in Str(0)
      BY DEF Str
    <3> QED  BY <3>1
  <2>3. Code!SumOf(e) = 0
    BY SumZero, WordsAre
  <2>4. PICK G : G = Going(e, 0, d, n + 1, sum)
    OBVIOUS
  <2>5. IsFiniteSet(G) /\ Cardinality(G) = Cardinality(Code!Words(n, sum - d))
    <3>1. /\ IsFiniteSet(G)
          /\ Cardinality(G) = Cardinality(Code!Words(n + 1 - 0 - 1, sum - Code!SumOf(e) - d))
      <4>1. 0 \in Nat /\ n + 1 \in Nat /\ 0 < n + 1
        OBVIOUS
      <4> QED  BY <2>1, <2>4, <4>1, CountGoing
    <3>2. n + 1 - 0 - 1 = n /\ sum - Code!SumOf(e) - d = sum - d
      BY <2>3
    <3> QED  BY <3>1, <3>2
  <2>6. G = {w \in Code!Words(n + 1, sum) : w[1] = d}
    <3>1. 0 + 1 = 1 /\ 1 .. 0 = {}
      OBVIOUS
    <3> QED  BY <2>4, <3>1 DEF Going
  <2>7. /\ Started(n + 1, sum, d + 1) = Started(n + 1, sum, d) \cup G
        /\ Started(n + 1, sum, d) \cap G = {}
    <3>1. \A w \in Code!Words(n + 1, sum) :
              /\ w[1] < d + 1 <=> w[1] < d \/ w[1] = d
              /\ ~(w[1] < d /\ w[1] = d)
      BY <1>2
    <3> QED  BY <2>6, <3>1 DEF Started
  <2> QED  BY <1>4, <2>5, <2>7, Apart
<1>6. ASSUME NEW d \in Nat, ~Code!DigitFits(d, sum)
      PROVE  Started(n + 1, sum, d) = Code!Words(n + 1, sum)
  <2>1. \A w \in Code!Words(n + 1, sum) : w[1] < d
    BY <1>2, <1>6, WordsAre DEF Code!DigitFits
  <2> QED  BY <2>1 DEF Started
<1>7. Cardinality({}) = 0
  BY FS_EmptySet
<1> QED  BY <1>3, <1>4, <1>5, <1>6, <1>7

-----------------------------------------------------------------------------
(***************************************************************************)
(* The scan has the digits p and tries d: the words behind it, and those   *)
(* that it may still come to.                                              *)
(***************************************************************************)
All == Code!Words(CodeLength, Code!HalfSum)
Behind(p, n, d) ==
    {w \in All : \/ \E y \in 1 .. n : w[y] < p[y] /\ \A o \in 1 .. y - 1 : w[o] = p[o]
                 \/ (\A o \in 1 .. n : w[o] = p[o]) /\ w[n + 1] < d}
Ahead(p, n, d) == {w \in All : (\A o \in 1 .. n : w[o] = p[o]) /\ w[n + 1] >= d}
Goes(p, n, d) == Going(p, n, d, CodeLength, Code!HalfSum)

LEMMA HalfNat == Code!HalfSum \in Nat /\ CodeLength \in Nat \ {0} /\ Winternitz \in Nat \ {0}
<1>1. CodeLength \in Nat \ {0} /\ Winternitz \in Nat \ {0}
  BY CodeAssumption DEF Code!CodeAssumption
<1>2. PICK c \in Nat : c = CodeLength * (Winternitz - 1)
  BY <1>1
<1>3. c \div 2 \in Nat
  BY <1>2
<1>4. Code!HalfSum = c \div 2
  BY <1>2 DEF Code!HalfSum
<1> QED  BY <1>1, <1>3, <1>4

LEMMA AllAre ==
    /\ IsFiniteSet(All)
    /\ \A w \in All : /\ w \in Str(CodeLength) /\ Code!SumOf(w) = Code!HalfSum
                      /\ \A y \in 1 .. CodeLength : w[y] \in Alphabet /\ w[y] \in Nat
<1>1. All = {w \in Str(CodeLength) : Code!SumOf(w) = Code!HalfSum}
  BY HalfNat, WordsAre DEF All
<1>2. Alphabet \subseteq Nat
  BY HalfNat DEF Alphabet
<1>3. IsFiniteSet(All)
  BY HalfNat, WordsFinite DEF All
<1> QED  BY <1>1, <1>2, <1>3 DEF Str

(* The digit that is tried has its words, which the next leaves behind.    *)
LEMMA Splits ==
    ASSUME NEW n \in Nat, n < CodeLength, NEW p \in Str(n), NEW d \in Alphabet
    PROVE  /\ Behind(p, n, d + 1) = Behind(p, n, d) \cup Goes(p, n, d)
           /\ Behind(p, n, d) \cap Goes(p, n, d) = {}
           /\ Ahead(p, n, d) = Goes(p, n, d) \cup Ahead(p, n, d + 1)
           /\ Goes(p, n, d) \cap Ahead(p, n, d + 1) = {}
<1>1. d \in Nat /\ n + 1 \in 1 .. CodeLength
  BY HalfNat DEF Alphabet
<1>2. \A w \in All : w[n + 1] \in Nat
  BY <1>1, AllAre
<1>3. \A w \in All : /\ w[n + 1] < d + 1 <=> w[n + 1] < d \/ w[n + 1] = d
                     /\ w[n + 1] >= d <=> w[n + 1] >= d + 1 \/ w[n + 1] = d
                     /\ ~(w[n + 1] < d /\ w[n + 1] = d) /\ ~(w[n + 1] >= d + 1 /\ w[n + 1] = d)
  BY <1>1, <1>2
<1>4. Goes(p, n, d) = {w \in All : (\A o \in 1 .. n : w[o] = p[o]) /\ w[n + 1] = d}
  BY DEF Goes, Going, All
<1>5. \A w \in All : \A y \in 1 .. n : ~(w[y] < p[y] /\ w[y] = p[y])
  <2>1. \A w \in All : \A y \in 1 .. n : w[y] \in Nat
    <3>1. \A y \in 1 .. n : y \in 1 .. CodeLength
      BY HalfNat
    <3> QED  BY <3>1, AllAre
  <2> QED  BY <2>1
<1>6. Behind(p, n, d + 1) = Behind(p, n, d) \cup Goes(p, n, d)
  BY <1>3, <1>4 DEF Behind
<1>7. Behind(p, n, d) \cap Goes(p, n, d) = {}
  BY <1>3, <1>4, <1>5 DEF Behind
<1>8. Ahead(p, n, d) = Goes(p, n, d) \cup Ahead(p, n, d + 1)
  BY <1>3, <1>4 DEF Ahead
<1>9. Goes(p, n, d) \cap Ahead(p, n, d + 1) = {}
  BY <1>3, <1>4 DEF Ahead
<1> QED  BY <1>6, <1>7, <1>8, <1>9

LEMMA CountSplits ==
    ASSUME NEW n \in Nat, n < CodeLength, NEW p \in Str(n), NEW d \in Alphabet
    PROVE  /\ Cardinality(Behind(p, n, d)) \in Nat /\ Cardinality(Ahead(p, n, d + 1)) \in Nat
           /\ Cardinality(Goes(p, n, d)) \in Nat
           /\ Cardinality(Behind(p, n, d + 1)) = Cardinality(Behind(p, n, d)) + Cardinality(Goes(p, n, d))
           /\ Cardinality(Ahead(p, n, d)) = Cardinality(Goes(p, n, d)) + Cardinality(Ahead(p, n, d + 1))
           /\ Cardinality(Goes(p, n, d)) =
                  Cardinality(Code!Words(CodeLength - n - 1, Code!HalfSum - Code!SumOf(p) - d))
<1>1. IsFiniteSet(Behind(p, n, d)) /\ IsFiniteSet(Ahead(p, n, d + 1)) /\ IsFiniteSet(Goes(p, n, d))
  <2>1. /\ Behind(p, n, d) \subseteq All /\ Ahead(p, n, d + 1) \subseteq All
        /\ Goes(p, n, d) \subseteq All
    BY DEF Behind, Ahead, Goes, Going, All
  <2> QED  BY <2>1, AllAre, FS_Subset
<1>2. Cardinality(Goes(p, n, d)) =
          Cardinality(Code!Words(CodeLength - n - 1, Code!HalfSum - Code!SumOf(p) - d))
  BY HalfNat, CountGoing DEF Goes
<1>3. /\ Cardinality(Behind(p, n, d)) \in Nat /\ Cardinality(Goes(p, n, d)) \in Nat
      /\ Cardinality(Behind(p, n, d + 1)) = Cardinality(Behind(p, n, d)) + Cardinality(Goes(p, n, d))
  <2>1. /\ Behind(p, n, d + 1) = Behind(p, n, d) \cup Goes(p, n, d)
        /\ Behind(p, n, d) \cap Goes(p, n, d) = {}
    BY Splits
  <2> QED  BY <1>1, <2>1, Apart, Zenon
<1>4. /\ Cardinality(Ahead(p, n, d + 1)) \in Nat
      /\ Cardinality(Ahead(p, n, d)) = Cardinality(Goes(p, n, d)) + Cardinality(Ahead(p, n, d + 1))
  <2>1. /\ Ahead(p, n, d) = Goes(p, n, d) \cup Ahead(p, n, d + 1)
        /\ Goes(p, n, d) \cap Ahead(p, n, d + 1) = {}
    BY Splits
  <2>2. PICK A, B, C : A = Goes(p, n, d) /\ B = Ahead(p, n, d + 1) /\ C = Ahead(p, n, d)
    OBVIOUS
  <2>3. Cardinality(B) \in Nat /\ Cardinality(C) = Cardinality(A) + Cardinality(B)
    BY <1>1, <2>1, <2>2, Apart
  <2> QED  BY <2>2, <2>3
<1> QED  BY <1>2, <1>3, <1>4

(* While there are words ahead the digit fits. *)
LEMMA AheadFits ==
    ASSUME NEW n \in Nat, n < CodeLength, NEW p \in Str(n), NEW d \in Nat,
           Cardinality(Ahead(p, n, d)) # 0
    PROVE  d \in Alphabet /\ Code!DigitFits(d, Code!HalfSum - Code!SumOf(p))
<1>1. PICK w \in Ahead(p, n, d) : TRUE
  BY FS_EmptySet
<1>2. /\ w \in Str(CodeLength) /\ Code!SumOf(w) = Code!HalfSum /\ n + 1 \in 1 .. CodeLength
      /\ w[n + 1] >= d /\ \A o \in 1 .. n : w[o] = p[o]
  BY <1>1, AllAre, HalfNat DEF Ahead
<1>3. PICK e \in Alphabet : e = w[n + 1]
  BY <1>2 DEF Str
<1>4. e \in Nat /\ e < Winternitz /\ d <= e
  BY <1>2, <1>3, HalfNat DEF Alphabet
<1>5. PICK q \in Str(n + 1) :
          /\ q[n + 1] = e /\ \A y \in 1 .. n : q[y] = p[y]
          /\ Code!SumOf(q) = Code!SumOf(p) + e /\ Code!SumOf(p) \in Nat
  BY ThenIs
<1>6. \A y \in 1 .. n + 1 : w[y] = q[y]
  <2>1. \A y : y \in 1 .. n + 1 <=> y \in 1 .. n \/ y = n + 1
    OBVIOUS
  <2> QED  BY <1>2, <1>3, <1>5, <2>1
<1>7. Code!SumOf(q) <= Code!SumOf(w)
  <2>1. PICK l \in Nat : CodeLength = (n + 1) + l
    <3>1. CodeLength - (n + 1) \in Nat /\ CodeLength = (n + 1) + (CodeLength - (n + 1))
      BY HalfNat
    <3> QED  BY <3>1
  <2>2. w \in Str((n + 1) + l) /\ n + 1 \in Nat
    BY <1>2, <2>1
  <2> QED  BY <1>6, <2>2, BeginsSmaller
<1> QED  BY <1>2, <1>4, <1>5, <1>7, HalfNat DEF Alphabet, Code!DigitFits

(* Before the first digit all words are ahead. *)
LEMMA AllAhead ==
    ASSUME NEW p \in Str(0)
    PROVE  Cardinality(Behind(p, 0, 0)) = 0 /\ Ahead(p, 0, 0) = All
<1>1. \A w \in All : w[0 + 1] \in Nat
  BY AllAre, HalfNat
<1>2. 1 .. 0 = {}
  OBVIOUS
<1>3. Behind(p, 0, 0) = {} /\ Ahead(p, 0, 0) = All
  BY <1>1, <1>2 DEF Behind, Ahead
<1> QED  BY <1>3, FS_EmptySet

(* To take a digit is to begin the next position. *)
LEMMA TakesOn ==
    ASSUME NEW n \in Nat, n + 1 < CodeLength, NEW p \in Str(n), NEW d \in Alphabet,
           NEW q \in Str(n + 1), q[n + 1] = d, \A y \in 1 .. n : q[y] = p[y]
    PROVE  Behind(q, n + 1, 0) = Behind(p, n, d) /\ Ahead(q, n + 1, 0) = Goes(p, n, d)
<1>1. \A w \in All : w[(n + 1) + 1] \in Nat
  BY AllAre, HalfNat
<1>2. \A y : y \in 1 .. n + 1 <=> y \in 1 .. n \/ y = n + 1
  OBVIOUS
<1>3. \A w : (\A o \in 1 .. n + 1 : w[o] = q[o]) <=> (\A o \in 1 .. n : w[o] = p[o]) /\ w[n + 1] = d
  BY <1>2
<1>4. Ahead(q, n + 1, 0) = Goes(p, n, d)
  <2>1. \A w \in All : w[(n + 1) + 1] >= 0
    BY <1>1
  <2> QED  BY <1>3, <2>1 DEF Ahead, Goes, Going, All
<1>5. ASSUME NEW w \in All
      PROVE  (\E y \in 1 .. n + 1 : w[y] < q[y] /\ \A o \in 1 .. y - 1 : w[o] = q[o]) <=>
                 \/ \E y \in 1 .. n : w[y] < p[y] /\ \A o \in 1 .. y - 1 : w[o] = p[o]
                 \/ (\A o \in 1 .. n : w[o] = p[o]) /\ w[n + 1] < d
  <2>1. \A y \in 1 .. n : (\A o \in 1 .. y - 1 : w[o] = q[o]) <=> (\A o \in 1 .. y - 1 : w[o] = p[o])
    <3>1. \A y \in 1 .. n : \A o \in 1 .. y - 1 : o \in 1 .. n
      OBVIOUS
    <3> QED  BY <3>1
  <2>2. (\A o \in 1 .. (n + 1) - 1 : w[o] = q[o]) <=> (\A o \in 1 .. n : w[o] = p[o])
    <3>1. (n + 1) - 1 = n
      OBVIOUS
    <3> QED  BY <3>1
  <2> QED  BY <1>2, <2>1, <2>2
<1>6. \A w \in All : ~(w[(n + 1) + 1] < 0)
  BY <1>1
<1>7. Behind(q, n + 1, 0) = Behind(p, n, d)
  BY <1>5, <1>6 DEF Behind
<1> QED  BY <1>4, <1>7

(* The last digit makes the word. *)
LEMMA TakesLast ==
    ASSUME NEW n \in Nat, n + 1 = CodeLength, NEW p \in Str(n), NEW d \in Alphabet,
           NEW q \in Str(n + 1), q[n + 1] = d, \A y \in 1 .. n : q[y] = p[y],
           Cardinality(Goes(p, n, d)) # 0
    PROVE  /\ q \in All /\ Cardinality(Goes(p, n, d)) = 1
           /\ {v \in All : Code!Before(v, q)} = Behind(p, n, d)
<1>1. PICK w0 \in Goes(p, n, d) : TRUE
  BY FS_EmptySet
<1>2. \A y : y \in 1 .. n + 1 <=> y \in 1 .. n \/ y = n + 1
  OBVIOUS
<1>3. \A w \in Goes(p, n, d) : w \in All /\ w = q
  <2> SUFFICES ASSUME NEW w \in Goes(p, n, d) PROVE w \in All /\ w = q
    OBVIOUS
  <2>1. w \in All /\ (\A y \in 1 .. n : w[y] = p[y]) /\ w[n + 1] = d
    BY DEF Goes, Going, All
  <2>2. w \in Str(n + 1)
    BY <2>1, AllAre
  <2>3. \A y \in 1 .. n + 1 : w[y] = q[y]
    BY <1>2, <2>1
  <2> QED  BY <2>1, <2>2, <2>3 DEF Str
<1>4. Goes(p, n, d) = {q} /\ q \in All
  BY <1>1, <1>3
<1>5. Cardinality({q}) = 1
  BY FS_Singleton
<1>6. DOMAIN q = 1 .. n + 1
  BY DEF Str
<1>7. ASSUME NEW w \in All
      PROVE  (\E y \in 1 .. n + 1 : w[y] < q[y] /\ \A o \in 1 .. y - 1 : w[o] = q[o]) <=>
                 \/ \E y \in 1 .. n : w[y] < p[y] /\ \A o \in 1 .. y - 1 : w[o] = p[o]
                 \/ (\A o \in 1 .. n : w[o] = p[o]) /\ w[n + 1] < d
  <2>1. \A y \in 1 .. n : (\A o \in 1 .. y - 1 : w[o] = q[o]) <=> (\A o \in 1 .. y - 1 : w[o] = p[o])
    <3>1. \A y \in 1 .. n : \A o \in 1 .. y - 1 : o \in 1 .. n
      OBVIOUS
    <3> QED  BY <3>1
  <2>2. (\A o \in 1 .. (n + 1) - 1 : w[o] = q[o]) <=> (\A o \in 1 .. n : w[o] = p[o])
    <3>1. (n + 1) - 1 = n
      OBVIOUS
    <3> QED  BY <3>1
  <2> QED  BY <1>2, <2>1, <2>2
<1>8. {v \in All : Code!Before(v, q)} = Behind(p, n, d)
  BY <1>6, <1>7 DEF Code!Before, Behind
<1> QED  BY <1>4, <1>5, <1>8

-----------------------------------------------------------------------------
(***************************************************************************)
(* encode with one thread.  The fill has the rows before its own right,    *)
(* and in its own the entries before the one it makes, which holds the     *)
(* words that begin with a digit below k; the last row may overflow.  The  *)
(* scan has the words it left behind, and its rest is less than what is    *)
(* ahead.                                                                  *)
(***************************************************************************)
OneEncoder == \A t, u \in Encoders : t = u

Right(r, c) == Code!Value(dp[r][c]) = Cardinality(Code!Words(r, c))

Complete == \A r \in 0 .. CodeLength - 1, c \in 0 .. Code!HalfSum : Right(r, c)

Untouched == \A c \in 0 .. Code!HalfSum : dp[0][c] = Code!Zero256

Rows(n) == \A r \in 0 .. n - 1, c \in 0 .. Code!HalfSum : Right(r, c)

Entries(t, n) ==
    row[t] < CodeLength => \A c \in 0 .. Code!HalfSum : c < n => Right(row[t], c)

Adding(t) ==
    row[t] < CodeLength =>
        Code!Value(dp[row[t]][col[t]]) = Cardinality(Started(row[t], col[t], k[t]))

FillsRow(t) ==
    /\ ~done /\ row[t] \in 1 .. CodeLength /\ col[t] \in 0 .. Code!HalfSum
    /\ Rows(row[t]) /\ Entries(t, col[t])

Asked(t) == number[t] \in Code!Messages /\ x[t] = number[t] /\ s[t] = Code!HalfSum /\ word[t] = << >>

Scans(t) ==
    /\ row[t] \in 0 .. CodeLength - 1 /\ col[t] \in Nat
    /\ word[t] \in Str(CodeLength - 1 - row[t])
    /\ s[t] = Code!HalfSum - Code!SumOf(word[t])
    /\ Code!Value(number[t]) =
           Cardinality(Behind(word[t], CodeLength - 1 - row[t], col[t])) + Code!Value(x[t])
    /\ Code!Value(x[t]) < Cardinality(Ahead(word[t], CodeLength - 1 - row[t], col[t]))

Ranked(t) ==
    /\ word[t] \in All
    /\ Cardinality({v \in All : Code!Before(v, word[t])}) = Code!Value(number[t])

CodeShape ==
    /\ done \in BOOLEAN
    /\ dp \in [0 .. CodeLength -> [0 .. Code!HalfSum -> Code!U256]]
    /\ label \in [Encoders -> {"idle", "test", "clear", "add", "scan", "return"}]
    /\ row \in [Encoders -> -1 .. CodeLength] /\ col \in [Encoders -> 0 .. Code!HalfSum + 1]
    /\ k \in [Encoders -> 0 .. Winternitz]
    /\ x \in [Encoders -> Code!U256] /\ number \in [Encoders -> Code!U256]
    /\ s \in [Encoders -> 0 .. Code!HalfSum]
    /\ word \in [Encoders -> Seq(Alphabet)] /\ \A t \in Encoders : Len(word[t]) <= CodeLength

Thread(t) ==
    /\ label[t] \in {"idle", "test"} /\ ~done => Untouched
    /\ label[t] \in {"clear", "add"} => FillsRow(t)
    /\ label[t] = "add" => Adding(t)
    /\ label[t] \in {"test", "clear", "add"} => Asked(t)
    /\ label[t] \in {"scan", "return"} => done
    /\ label[t] = "scan" => Scans(t)
    /\ label[t] = "return" => Ranked(t)

CodeInv == CodeShape /\ (done => Complete) /\ \A t \in Encoders : Thread(t)

LEMMA Fits ==
    ASSUME NEW r \in 0 .. CodeLength - 1, NEW c \in 0 .. Code!HalfSum
    PROVE  /\ Cardinality(Code!Words(r, c)) \in Nat
           /\ Cardinality(Code!Words(r, c)) < Square * Square
<1>1. Code!Cardinality(Code!Words(r, c)) < (LimbBase * LimbBase) * (LimbBase * LimbBase)
  BY RowsFit DEF Code!RowsFit
<1>2. IsFiniteSet(Code!Words(r, c))
  <2>1. r \in Nat
    BY HalfNat
  <2> QED  BY <2>1, WordsFinite
<1> QED  BY <1>1, <1>2, CountsAsCode, FS_CardinalityType DEF Square, Radix

(* The first row: one word of no digits. *)
LEMMA RowZero ==
    /\ Cardinality(Code!Words(0, 0)) = 1
    /\ \A c \in 1 .. Code!HalfSum : Cardinality(Code!Words(0, c)) = 0
<1>1. PICK e : e = [y \in 1 .. 0 |-> 0]
  OBVIOUS
<1>2. \A w \in Str(0) : w = e
  BY <1>1 DEF Str
<1>3. e \in Str(0)
  BY <1>1 DEF Str
<1>4. Code!SumOf(e) = 0
  BY <1>3, SumZero, WordsAre
<1>5. Code!Words(0, 0) = {e}
  BY <1>2, <1>3, <1>4, WordsAre
<1>6. \A c \in 1 .. Code!HalfSum : Code!Words(0, c) = {}
  BY <1>2, <1>4, WordsAre, HalfNat
<1> QED  BY <1>5, <1>6, FS_Singleton, FS_EmptySet

(* Zero and one, when a limb can hold a one. *)
LEMMA Units ==
    /\ Code!Zero256 \in Code!U256 /\ Code!Value(Code!Zero256) = 0
    /\ Code!One256 \in Code!U256 /\ Code!Value(Code!One256) = 1
<1>1. Radix \in Nat /\ Radix > 1
  <2>1. 0 \in 0 .. CodeLength - 1 /\ 0 \in 0 .. Code!HalfSum
    BY HalfNat
  <2>2. Cardinality(Code!Words(0, 0)) < Square * Square
    BY <2>1, Fits
  <2>4. Square * Square > 1
    BY <2>2, RowZero, RadixIs
  <2>5. Radix # 1
    BY <2>4 DEF Square
  <2> QED  BY <2>5, RadixIs
<1>2. 0 \in Code!Limb /\ 1 \in Code!Limb
  BY <1>1 DEF Code!Limb, Radix
<1>3. Code!Zero256 \in Code!U256 /\ Code!One256 \in Code!U256
  BY <1>2 DEF Code!Zero256, Code!One256, Code!U256
<1>4. /\ Code!Zero256[1] = 0 /\ Code!Zero256[2] = 0 /\ Code!Zero256[3] = 0 /\ Code!Zero256[4] = 0
      /\ Code!One256[1] = 1 /\ Code!One256[2] = 0 /\ Code!One256[3] = 0 /\ Code!One256[4] = 0
  BY DEF Code!Zero256, Code!One256
<1>5. \A v \in Code!U256 : v[2] = 0 /\ v[3] = 0 /\ v[4] = 0 => Code!Value(v) = v[1]
  <2> SUFFICES ASSUME NEW v \in Code!U256, v[2] = 0, v[3] = 0, v[4] = 0
               PROVE  Code!Value(v) = v[1]
    OBVIOUS
  <2>1. Code!Value(v) = v[1] + Radix * (0 + Radix * (0 + Radix * 0))
    BY DEF Code!Value, Radix
  <2>2. Radix * 0 = 0
    BY <1>1
  <2>3. v[1] \in Nat
    BY DEF Code!U256, Code!Limb
  <2> QED  BY <2>1, <2>2, <2>3
<1> QED  BY <1>3, <1>4, <1>5

LEMMA EncodeInit == ASSUME Code!Init PROVE CodeInv
<1>1. CodeShape
  <2>1. Code!Zero256 \in Code!U256 /\ << >> \in Seq(Alphabet) /\ Len(<< >>) = 0
    BY Units
  <2>2. 0 \in 0 .. Code!HalfSum /\ 0 \in -1 .. CodeLength /\ 0 \in 0 .. Winternitz /\ 0 <= CodeLength
        /\ 0 \in 0 .. Code!HalfSum + 1
    BY HalfNat
  <2>3. /\ row = [t \in Encoders |-> 0] /\ col = row /\ k = row /\ s = row
        /\ x = [t \in Encoders |-> Code!Zero256] /\ number = x
        /\ word = [t \in Encoders |-> << >>] /\ label = [t \in Encoders |-> "idle"]
        /\ dp = [r \in 0 .. CodeLength |-> [c \in 0 .. Code!HalfSum |-> Code!Zero256]] /\ done = FALSE
    BY DEF Code!Init
  <2>4. dp \in [0 .. CodeLength -> [0 .. Code!HalfSum -> Code!U256]]
    BY <2>1, <2>3
  <2> HIDE DEF CodeShape
  <2>5. /\ row \in [Encoders -> -1 .. CodeLength] /\ col \in [Encoders -> 0 .. Code!HalfSum + 1]
        /\ k \in [Encoders -> 0 .. Winternitz] /\ s \in [Encoders -> 0 .. Code!HalfSum]
    BY <2>2, <2>3
  <2>6. /\ word \in [Encoders -> Seq(Alphabet)] /\ \A t \in Encoders : Len(word[t]) <= CodeLength
    BY <2>1, <2>2, <2>3
  <2> QED  BY <2>1, <2>3, <2>4, <2>5, <2>6 DEF CodeShape
<1>2. Untouched
  BY HalfNat DEF Code!Init, Untouched
<1>3. done = FALSE /\ \A t \in Encoders : label[t] = "idle"
  BY DEF Code!Init
<1> QED  BY <1>1, <1>2, <1>3 DEF CodeInv, Thread

LEMMA CallKeepsCode ==
    ASSUME OneEncoder, CodeInv, NEW t \in Encoders, NEW msg \in Code!Messages, Code!Call(t, msg)
    PROVE  CodeInv'
<1>1. CodeShape /\ (done => Complete) /\ Thread(t) /\ \A u \in Encoders : u = t
  BY DEF CodeInv, OneEncoder
<1>2. /\ label[t] \in {"idle", "return"} /\ label' = [label EXCEPT ![t] = "test"]
      /\ number' = Code!Set(number, t, msg) /\ x' = Code!Set(x, t, msg)
      /\ s' = Code!Set(s, t, Code!HalfSum) /\ word' = Code!Set(word, t, << >>)
      /\ UNCHANGED <<done, dp, row, col, k>>
  BY DEF Code!Call, Code!Goto
<1>3. msg \in Code!U256 /\ Code!HalfSum \in 0 .. Code!HalfSum /\ << >> \in Seq(Alphabet) /\ Len(<< >>) = 0
  BY MessageHasAWord, HalfNat
<1>4. /\ number' \in [Encoders -> Code!U256] /\ number'[t] = msg
      /\ x' \in [Encoders -> Code!U256] /\ x'[t] = msg
      /\ s' \in [Encoders -> 0 .. Code!HalfSum] /\ s'[t] = Code!HalfSum
      /\ word' \in [Encoders -> Seq(Alphabet)] /\ word'[t] = << >>
  BY <1>1, <1>2, <1>3 DEF CodeShape, Code!Set
<1>5. label' \in [Encoders -> {"idle", "test", "clear", "add", "scan", "return"}] /\ label'[t] = "test"
  BY <1>1, <1>2 DEF CodeShape
<1>6. CodeShape'
  <2>1. \A u \in Encoders : Len(word'[u]) <= CodeLength
    BY <1>1, <1>3, <1>4, HalfNat
  <2> QED  BY <1>1, <1>2, <1>4, <1>5, <2>1 DEF CodeShape
<1>7. (done => Complete)' /\ (~done => Untouched)'
  BY <1>1, <1>2 DEF Complete, Right, Untouched, Thread
<1>8. Asked(t)'
  BY <1>4 DEF Asked
<1> QED  BY <1>1, <1>5, <1>6, <1>7, <1>8 DEF CodeInv, Thread

Wrote(r, c, v) == dp' = [dp EXCEPT ![r][c] = v]

LEMMA Writes ==
    ASSUME CodeShape, NEW r \in 0 .. CodeLength, NEW c \in 0 .. Code!HalfSum, NEW v \in Code!U256,
           Wrote(r, c, v)
    PROVE  /\ dp' \in [0 .. CodeLength -> [0 .. Code!HalfSum -> Code!U256]]
           /\ dp'[r][c] = v
           /\ \A r2 \in 0 .. CodeLength, c2 \in 0 .. Code!HalfSum :
                  r2 # r \/ c2 # c => dp'[r2][c2] = dp[r2][c2]
BY DEF CodeShape, Wrote

(* Where the scan begins all words are ahead. *)
LEMMA ScanBegins ==
    ASSUME NEW t \in Encoders, Asked(t), row'[t] = CodeLength - 1, col'[t] = 0,
           UNCHANGED <<x, s, word, number>>
    PROVE  Scans(t)'
<1>1. CodeLength - 1 - row'[t] = 0 /\ row'[t] \in 0 .. CodeLength - 1
  BY HalfNat
<1>2. << >> \in Str(0) /\ Code!SumOf(<< >>) = 0
  <2>1. << >> \in Str(0)
    BY DEF Str
  <2> QED  BY <2>1, SumZero, WordsAre
<1>3. Cardinality(Behind(<< >>, 0, 0)) = 0 /\ Ahead(<< >>, 0, 0) = All
  BY <1>2, AllAhead
<1>4. Code!Value(x[t]) < Cardinality(All) /\ Code!Value(x[t]) \in Nat
  BY MessageHasAWord, FourIs DEF Asked, All
<1>5. /\ word'[t] = << >> /\ s'[t] = Code!HalfSum /\ number'[t] = number[t] /\ x'[t] = x[t]
      /\ number[t] = x[t]
  BY DEF Asked
<1>6. Code!HalfSum = Code!HalfSum - 0
  BY HalfNat
<1>7. Code!Value(x[t]) = 0 + Code!Value(x[t])
  BY <1>4
<1> QED  BY <1>1, <1>2, <1>3, <1>4, <1>5, <1>6, <1>7 DEF Scans

LEMMA TestKeepsCode ==
    ASSUME OneEncoder, CodeInv, NEW t \in Encoders, Code!TestDone(t)
    PROVE  CodeInv'
<1>1. CodeShape /\ (done => Complete) /\ Thread(t) /\ \A u \in Encoders : u = t
  BY DEF CodeInv, OneEncoder
<1>2. label[t] = "test" /\ UNCHANGED <<done, k, x, s, word, number>> /\ Asked(t)
  BY <1>1 DEF Code!TestDone, Thread
<1>3. CASE done
  <2>1. /\ row' = Code!Set(row, t, CodeLength - 1) /\ col' = Code!Set(col, t, 0)
        /\ label' = [label EXCEPT ![t] = "scan"] /\ UNCHANGED dp
    BY <1>3 DEF Code!TestDone, Code!Goto
  <2>2. CodeLength - 1 \in -1 .. CodeLength /\ 0 \in 0 .. Code!HalfSum + 1
    BY HalfNat
  <2>3. /\ row' \in [Encoders -> -1 .. CodeLength] /\ row'[t] = CodeLength - 1
        /\ col' \in [Encoders -> 0 .. Code!HalfSum + 1] /\ col'[t] = 0
        /\ label' \in [Encoders -> {"idle", "test", "clear", "add", "scan", "return"}]
        /\ label'[t] = "scan"
    BY <1>1, <2>1, <2>2 DEF CodeShape, Code!Set
  <2>4. CodeShape'
    BY <1>1, <1>2, <2>1, <2>3 DEF CodeShape
  <2>5. (done => Complete)'
    BY <1>1, <1>2, <2>1 DEF Complete, Right
  <2>6. Scans(t)'
    BY <1>2, <2>3, ScanBegins
  <2> QED  BY <1>1, <1>2, <1>3, <2>3, <2>4, <2>5, <2>6 DEF CodeInv, Thread
<1>4. CASE ~done
  <2>1. /\ row' = Code!Set(row, t, 1) /\ col' = Code!Set(col, t, 0)
        /\ label' = [label EXCEPT ![t] = "clear"] /\ dp' = [dp EXCEPT ![0][0] = Code!One256]
    BY <1>4 DEF Code!TestDone, Code!Goto
  <2>2. /\ 1 \in -1 .. CodeLength /\ 0 \in 0 .. Code!HalfSum + 1 /\ 0 \in 0 .. CodeLength
        /\ 0 \in 0 .. Code!HalfSum
    BY HalfNat
  <2>3. /\ row' \in [Encoders -> -1 .. CodeLength] /\ row'[t] = 1
        /\ col' \in [Encoders -> 0 .. Code!HalfSum + 1] /\ col'[t] = 0
        /\ label' \in [Encoders -> {"idle", "test", "clear", "add", "scan", "return"}]
        /\ label'[t] = "clear"
    BY <1>1, <2>1, <2>2 DEF CodeShape, Code!Set
  <2>4. /\ dp' \in [0 .. CodeLength -> [0 .. Code!HalfSum -> Code!U256]]
        /\ dp'[0][0] = Code!One256
        /\ \A c \in 0 .. Code!HalfSum : c # 0 => dp'[0][c] = dp[0][c]
    <3>1. Wrote(0, 0, Code!One256) /\ Code!One256 \in Code!U256
      BY <2>1, Units DEF Wrote
    <3> QED  BY <1>1, <2>2, <3>1, Writes
  <2>5. CodeShape'
    BY <1>1, <1>2, <2>3, <2>4 DEF CodeShape
  <2>6. Rows(1)'
    <3>1. \A c \in 0 .. Code!HalfSum : Code!Value(dp'[0][c]) = Cardinality(Code!Words(0, c))
      <4> SUFFICES ASSUME NEW c \in 0 .. Code!HalfSum
                   PROVE  Code!Value(dp'[0][c]) = Cardinality(Code!Words(0, c))
        OBVIOUS
      <4>1. CASE c = 0
        BY <2>4, <4>1, RowZero, Units
      <4>2. CASE c # 0
        <5>1. c \in 1 .. Code!HalfSum
          BY <4>2, HalfNat
        <5>2. dp'[0][c] = Code!Zero256
          BY <1>1, <1>2, <1>4, <2>4, <4>2 DEF Thread, Untouched
        <5> QED  BY <5>1, <5>2, RowZero, Units
      <4> QED  BY <4>1, <4>2
    <3>2. \A r \in 0 .. 1 - 1 : r = 0
      OBVIOUS
    <3> QED  BY <3>1, <3>2 DEF Rows, Right
  <2>7. FillsRow(t)'
    <3>1. ~done' /\ row'[t] \in 1 .. CodeLength /\ col'[t] \in 0 .. Code!HalfSum
      BY <1>2, <1>4, <2>2, <2>3, HalfNat
    <3>2. Entries(t, col[t])'
      <4>1. \A c \in 0 .. Code!HalfSum : ~(c < 0)
        BY HalfNat
      <4> QED  BY <2>3, <4>1 DEF Entries
    <3> QED  BY <2>3, <2>6, <3>1, <3>2 DEF FillsRow
  <2>8. Asked(t)'
    BY <1>2 DEF Asked
  <2> QED  BY <1>1, <1>2, <1>4, <2>3, <2>5, <2>7, <2>8 DEF CodeInv, Thread
<1> QED  BY <1>3, <1>4

LEMMA ClearKeepsCode ==
    ASSUME OneEncoder, CodeInv, NEW t \in Encoders, Code!Clear(t)
    PROVE  CodeInv'
<1>1. CodeShape /\ (done => Complete) /\ Thread(t) /\ \A u \in Encoders : u = t
  BY DEF CodeInv, OneEncoder
<1>2. /\ UNCHANGED <<done, row, col, x, s, word, number>>
      /\ Asked(t) /\ FillsRow(t) /\ ~done
      /\ label' = [label EXCEPT ![t] = "add"] /\ k' = Code!Set(k, t, 0)
      /\ dp' = [dp EXCEPT ![row[t]][col[t]] = Code!Zero256]
  BY <1>1 DEF Code!Clear, Code!Goto, Thread, FillsRow
<1>3. /\ row[t] \in 1 .. CodeLength /\ col[t] \in 0 .. Code!HalfSum
      /\ Rows(row[t]) /\ Entries(t, col[t]) /\ row[t] \in 0 .. CodeLength
  BY <1>2, HalfNat DEF FillsRow
<1>4. /\ dp' \in [0 .. CodeLength -> [0 .. Code!HalfSum -> Code!U256]]
      /\ dp'[row[t]][col[t]] = Code!Zero256
      /\ \A r2 \in 0 .. CodeLength, c2 \in 0 .. Code!HalfSum :
             r2 # row[t] \/ c2 # col[t] => dp'[r2][c2] = dp[r2][c2]
  <2>1. Wrote(row[t], col[t], Code!Zero256) /\ Code!Zero256 \in Code!U256
    BY <1>2, Units DEF Wrote
  <2> QED  BY <1>1, <1>3, <2>1, Writes
<1>5. /\ k' \in [Encoders -> 0 .. Winternitz] /\ k'[t] = 0
      /\ label' \in [Encoders -> {"idle", "test", "clear", "add", "scan", "return"}]
      /\ label'[t] = "add"
  <2>1. 0 \in 0 .. Winternitz
    BY HalfNat
  <2> QED  BY <1>1, <1>2, <2>1 DEF CodeShape, Code!Set
<1>6. CodeShape'
  BY <1>1, <1>2, <1>4, <1>5 DEF CodeShape
<1>7. FillsRow(t)'
  <2>1. Rows(row[t])'
    <3>1. \A r \in 0 .. row[t] - 1 : r \in 0 .. CodeLength /\ r # row[t]
      BY <1>3, HalfNat
    <3> QED  BY <1>2, <1>3, <1>4, <3>1 DEF Rows, Right
  <2>2. Entries(t, col[t])'
    <3>1. \A c \in 0 .. Code!HalfSum : c < col[t] => c # col[t]
      BY <1>3, HalfNat
    <3> QED  BY <1>2, <1>3, <1>4, <3>1 DEF Entries, Right
  <2> QED  BY <1>2, <1>3, <2>1, <2>2 DEF FillsRow
<1>8. Adding(t)'
  <2>1. PICK n \in Nat : row[t] = n + 1
    <3>1. row[t] - 1 \in Nat /\ row[t] = (row[t] - 1) + 1
      BY <1>3, HalfNat
    <3> QED  BY <3>1
  <2>2. col[t] \in Nat
    BY <1>3, HalfNat
  <2>3. Cardinality(Started(n + 1, col[t], 0)) = 0
    BY <2>2, CountStarted
  <2> QED  BY <1>2, <1>4, <1>5, <2>1, <2>3, Units DEF Adding
<1>9. Asked(t)'
  BY <1>2 DEF Asked
<1> QED  BY <1>1, <1>2, <1>5, <1>6, <1>7, <1>8, <1>9 DEF CodeInv, Thread

LEMMA AddKeepsCode ==
    ASSUME OneEncoder, CodeInv, NEW t \in Encoders, Code!Add(t)
    PROVE  CodeInv'
<1>1. CodeShape /\ (done => Complete) /\ Thread(t) /\ \A u \in Encoders : u = t
  BY DEF CodeInv, OneEncoder
<1> DEFINE there == dp[row[t] - 1][col[t] - k[t]]
           more == Code!add_u256(dp[row[t]][col[t]], there)
<1>2. /\ UNCHANGED <<done, label, row, col, x, s, word, number>>
      /\ Asked(t) /\ FillsRow(t) /\ Adding(t) /\ ~done /\ label[t] = "add"
      /\ Code!DigitFits(k[t], col[t]) /\ k' = Code!Set(k, t, k[t] + 1)
      /\ dp' = [dp EXCEPT ![row[t]][col[t]] = more]
  BY <1>1 DEF Code!Add, Thread, FillsRow
<1>3. /\ row[t] \in 1 .. CodeLength /\ col[t] \in 0 .. Code!HalfSum
      /\ Rows(row[t]) /\ Entries(t, col[t]) /\ row[t] \in 0 .. CodeLength
  BY <1>2, HalfNat DEF FillsRow
<1>4. /\ k[t] \in Nat /\ k[t] + 1 \in 0 .. Winternitz /\ k[t] <= col[t]
      /\ row[t] - 1 \in 0 .. CodeLength - 1 /\ row[t] - 1 \in 0 .. row[t] - 1
      /\ row[t] - 1 \in 0 .. CodeLength /\ col[t] - k[t] \in 0 .. Code!HalfSum
  BY <1>1, <1>2, <1>3, HalfNat DEF CodeShape, Code!DigitFits
<1>5. there \in Code!U256 /\ dp[row[t]][col[t]] \in Code!U256 /\ dp \in [0 .. CodeLength -> [0 .. Code!HalfSum -> Code!U256]]
  BY <1>1, <1>3, <1>4 DEF CodeShape
<1>6. more \in Code!U256
  BY <1>5, AddFour
<1>7. /\ dp' \in [0 .. CodeLength -> [0 .. Code!HalfSum -> Code!U256]]
      /\ dp'[row[t]][col[t]] = more
      /\ \A r2 \in 0 .. CodeLength, c2 \in 0 .. Code!HalfSum :
             r2 # row[t] \/ c2 # col[t] => dp'[r2][c2] = dp[r2][c2]
  <2>1. Wrote(row[t], col[t], more)
    BY <1>2 DEF Wrote
  <2> HIDE DEF more
  <2> QED  BY <1>1, <1>3, <1>6, <2>1, Writes
<1>8. k' \in [Encoders -> 0 .. Winternitz] /\ k'[t] = k[t] + 1
  BY <1>1, <1>2, <1>4 DEF CodeShape, Code!Set
<1>9. CodeShape'
  BY <1>1, <1>2, <1>7, <1>8 DEF CodeShape
<1>10. FillsRow(t)'
  <2>1. Rows(row[t])'
    <3>1. \A r \in 0 .. row[t] - 1 : r \in 0 .. CodeLength /\ r # row[t]
      BY <1>3, HalfNat
    <3> QED  BY <1>2, <1>3, <1>7, <3>1 DEF Rows, Right
  <2>2. Entries(t, col[t])'
    <3>1. \A c \in 0 .. Code!HalfSum : c < col[t] => c # col[t]
      BY <1>3, HalfNat
    <3> QED  BY <1>2, <1>3, <1>7, <3>1 DEF Entries, Right
  <2> QED  BY <1>2, <1>3, <2>1, <2>2 DEF FillsRow
<1>11. Adding(t)'
  <2> SUFFICES ASSUME row[t] < CodeLength
               PROVE  Code!Value(dp'[row[t]][col[t]]) = Cardinality(Started(row[t], col[t], k[t] + 1))
    BY <1>2, <1>8 DEF Adding
  <2>1. PICK n \in Nat, c \in Nat, d \in Nat :
            row[t] = n + 1 /\ row[t] - 1 = n /\ c = col[t] /\ d = k[t]
    <3>1. row[t] - 1 \in Nat /\ row[t] = (row[t] - 1) + 1 /\ col[t] \in Nat
      BY <1>3, HalfNat
    <3> QED  BY <1>4, <3>1
  <2>2. /\ Cardinality(Started(n + 1, c, d)) \in Nat
        /\ Cardinality(Started(n + 1, c, d + 1)) <= Cardinality(Code!Words(n + 1, c))
        /\ Cardinality(Started(n + 1, c, d + 1)) =
               Cardinality(Started(n + 1, c, d)) + Cardinality(Code!Words(n, c - d))
    <3>1. Code!DigitFits(d, c) /\ d + 1 \in Nat
      BY <1>2, <2>1
    <3> QED  BY <3>1, CountStarted
  <2>3. Cardinality(Code!Words(n + 1, c)) < Square * Square /\ Cardinality(Code!Words(n + 1, c)) \in Nat
    <3>1. n + 1 \in 0 .. CodeLength - 1 /\ c \in 0 .. Code!HalfSum
      BY <1>3, <2>1, HalfNat
    <3> QED  BY <3>1, Fits
  <2>4. Code!Value(there) = Cardinality(Code!Words(n, c - d))
    <3>1. Right(row[t] - 1, col[t] - k[t])
      BY <1>3, <1>4 DEF Rows
    <3> QED  BY <2>1, <3>1 DEF Right
  <2>5. Code!Value(dp[row[t]][col[t]]) = Cardinality(Started(n + 1, c, d))
    BY <1>2, <2>1 DEF Adding
  <2>6. PICK v, w : v = dp[row[t]][col[t]] /\ w = there
    OBVIOUS
  <2>7. Code!Value(v) + Code!Value(w) = Cardinality(Started(n + 1, c, d + 1))
    BY <2>2, <2>4, <2>5, <2>6
  <2>8. Cardinality(Started(n + 1, c, d + 1)) < Square * Square
    <3>1. PICK a, b \in Nat : a = Cardinality(Started(n + 1, c, d)) /\ b = Cardinality(Code!Words(n, c - d))
      <4>1. Code!Value(w) \in Nat
        BY <1>5, <2>6, FourIs
      <4> QED  BY <2>2, <2>4, <2>6, <4>1
    <3>2. PICK q \in Nat : q = Square * Square
      BY RadixIs
    <3> QED  BY <2>2, <2>3, <3>1, <3>2
  <2>9. Code!Value(Code!add_u256(v, w)) = Code!Value(v) + Code!Value(w)
    <3>1. v \in Code!U256 /\ w \in Code!U256 /\ Code!Value(v) + Code!Value(w) < Square * Square
      BY <1>5, <2>6, <2>7, <2>8
    <3> QED  BY <3>1, AddFour
  <2> QED  BY <1>7, <2>1, <2>6, <2>7, <2>9
<1>12. Asked(t)'
  BY <1>2 DEF Asked
<1> QED  BY <1>1, <1>2, <1>9, <1>10, <1>11, <1>12 DEF CodeInv, Thread

LEMMA NextKeepsCode ==
    ASSUME OneEncoder, CodeInv, NEW t \in Encoders, Code!NextEntry(t)
    PROVE  CodeInv'
<1>1. CodeShape /\ (done => Complete) /\ Thread(t) /\ \A u \in Encoders : u = t
  BY DEF CodeInv, OneEncoder
<1>2. /\ UNCHANGED <<dp, k, x, s, word, number>>
      /\ Asked(t) /\ FillsRow(t) /\ Adding(t) /\ ~done
      /\ ~Code!DigitFits(k[t], col[t])
  BY <1>1 DEF Code!NextEntry, Thread, FillsRow
<1>3. /\ row[t] \in 1 .. CodeLength /\ col[t] \in 0 .. Code!HalfSum
      /\ Rows(row[t]) /\ Entries(t, col[t])
  BY <1>2 DEF FillsRow
<1>4. row[t] < CodeLength => Right(row[t], col[t])
  <2> SUFFICES ASSUME row[t] < CodeLength PROVE Right(row[t], col[t])
    OBVIOUS
  <2>1. PICK n \in Nat, c \in Nat, d \in Nat : row[t] = n + 1 /\ c = col[t] /\ d = k[t]
    <3>1. row[t] - 1 \in Nat /\ row[t] = (row[t] - 1) + 1 /\ col[t] \in Nat /\ k[t] \in Nat
      BY <1>1, <1>3, HalfNat DEF CodeShape
    <3> QED  BY <3>1
  <2>2. Started(n + 1, c, d) = Code!Words(n + 1, c)
    BY <1>2, <2>1, CountStarted
  <2> QED  BY <1>2, <2>1, <2>2 DEF Adding, Right
<1>5. Asked(t)'
  BY <1>2 DEF Asked
<1>6. CASE col[t] < Code!HalfSum
  <2>1. /\ col' = Code!Set(col, t, col[t] + 1) /\ label' = [label EXCEPT ![t] = "clear"]
        /\ UNCHANGED <<done, row>>
    BY <1>3, <1>6 DEF Code!NextEntry, Code!Goto
  <2>2. col[t] + 1 \in 0 .. Code!HalfSum + 1 /\ col[t] + 1 \in 0 .. Code!HalfSum
    BY <1>3, <1>6, HalfNat
  <2>3. /\ col' \in [Encoders -> 0 .. Code!HalfSum + 1] /\ col'[t] = col[t] + 1
        /\ label' \in [Encoders -> {"idle", "test", "clear", "add", "scan", "return"}]
        /\ label'[t] = "clear"
    BY <1>1, <2>1, <2>2 DEF CodeShape, Code!Set
  <2>4. CodeShape'
    BY <1>1, <1>2, <2>1, <2>3 DEF CodeShape
  <2>5. Entries(t, col[t])'
    <3>1. \A c \in 0 .. Code!HalfSum : c < col[t] + 1 => c < col[t] \/ c = col[t]
      BY <1>3, HalfNat
    <3> QED  BY <1>2, <1>3, <1>4, <2>1, <2>3, <3>1 DEF Entries, Right
  <2>6. FillsRow(t)'
    BY <1>2, <1>3, <2>1, <2>2, <2>3, <2>5 DEF FillsRow, Rows, Right
  <2> QED  BY <1>1, <1>2, <1>5, <2>1, <2>3, <2>4, <2>6 DEF CodeInv, Thread
<1>7. row[t] < CodeLength /\ col[t] = Code!HalfSum => Rows(row[t] + 1)
  <2> SUFFICES ASSUME row[t] < CodeLength, col[t] = Code!HalfSum PROVE Rows(row[t] + 1)
    OBVIOUS
  <2>1. \A r \in 0 .. (row[t] + 1) - 1 : r \in 0 .. row[t] - 1 \/ r = row[t]
    BY <1>3
  <2>2. \A c \in 0 .. Code!HalfSum : c < col[t] \/ c = col[t]
    BY HalfNat
  <2>3. \A c \in 0 .. Code!HalfSum : Right(row[t], c)
    BY <1>3, <1>4, <2>2 DEF Entries
  <2> QED  BY <1>3, <2>1, <2>3 DEF Rows
<1>8. CASE col[t] = Code!HalfSum /\ row[t] < CodeLength
  <2>1. /\ row' = Code!Set(row, t, row[t] + 1) /\ col' = Code!Set(col, t, 0)
        /\ label' = [label EXCEPT ![t] = "clear"] /\ UNCHANGED done
    <3>1. ~(col[t] < Code!HalfSum)
      BY <1>8, HalfNat
    <3> QED  BY <1>8, <3>1 DEF Code!NextEntry, Code!Goto
  <2>2. row[t] + 1 \in -1 .. CodeLength /\ row[t] + 1 \in 1 .. CodeLength
        /\ 0 \in 0 .. Code!HalfSum + 1 /\ 0 \in 0 .. Code!HalfSum
    BY <1>3, <1>8, HalfNat
  <2>3. /\ row' \in [Encoders -> -1 .. CodeLength] /\ row'[t] = row[t] + 1
        /\ col' \in [Encoders -> 0 .. Code!HalfSum + 1] /\ col'[t] = 0
        /\ label' \in [Encoders -> {"idle", "test", "clear", "add", "scan", "return"}]
        /\ label'[t] = "clear"
    BY <1>1, <2>1, <2>2 DEF CodeShape, Code!Set
  <2>4. CodeShape'
    BY <1>1, <1>2, <2>1, <2>3 DEF CodeShape
  <2>5. Entries(t, col[t])'
    <3>1. \A c \in 0 .. Code!HalfSum : ~(c < 0)
      BY HalfNat
    <3> QED  BY <2>3, <3>1 DEF Entries
  <2>6. Rows(row[t])'
    BY <1>2, <1>7, <1>8, <2>3 DEF Rows, Right
  <2>7. FillsRow(t)'
    BY <1>2, <2>1, <2>2, <2>3, <2>5, <2>6 DEF FillsRow
  <2> QED  BY <1>1, <1>2, <1>5, <2>1, <2>3, <2>4, <2>7 DEF CodeInv, Thread
<1>9. CASE col[t] = Code!HalfSum /\ row[t] = CodeLength
  <2>1. /\ row' = Code!Set(row, t, CodeLength - 1) /\ col' = Code!Set(col, t, 0)
        /\ label' = [label EXCEPT ![t] = "scan"] /\ done' = TRUE
    <3>1. ~(col[t] < Code!HalfSum) /\ ~(col[t] = Code!HalfSum /\ row[t] < CodeLength)
      BY <1>9, HalfNat
    <3> QED  BY <3>1 DEF Code!NextEntry, Code!Goto
  <2>2. Complete'
    BY <1>2, <1>3, <1>9 DEF Rows, Complete, Right
  <2>3. CodeLength - 1 \in -1 .. CodeLength /\ 0 \in 0 .. Code!HalfSum + 1
    BY HalfNat
  <2>4. /\ row' \in [Encoders -> -1 .. CodeLength] /\ row'[t] = CodeLength - 1
        /\ col' \in [Encoders -> 0 .. Code!HalfSum + 1] /\ col'[t] = 0
        /\ label' \in [Encoders -> {"idle", "test", "clear", "add", "scan", "return"}]
        /\ label'[t] = "scan"
    BY <1>1, <2>1, <2>3 DEF CodeShape, Code!Set
  <2>5. CodeShape'
    BY <1>1, <1>2, <2>1, <2>4 DEF CodeShape
  <2>6. Scans(t)'
    <3>1. Asked(t) /\ row'[t] = CodeLength - 1 /\ col'[t] = 0
          /\ UNCHANGED <<x, s, word, number>>
      BY <1>2, <2>4
    <3> QED  BY <3>1, ScanBegins
  <2> QED  BY <1>1, <2>1, <2>2, <2>4, <2>5, <2>6 DEF CodeInv, Thread
<1> QED  BY <1>3, <1>6, <1>8, <1>9, HalfNat

(* What the scan compares: the words that go on with the digit. *)
LEMMA ScanReads ==
    ASSUME CodeInv, NEW t \in Encoders, label[t] = "scan"
    PROVE  \E n, p, d :
               /\ n \in Nat
               /\ n = CodeLength - 1 - row[t] /\ n < CodeLength /\ row[t] \in 0 .. CodeLength - 1
               /\ p = word[t] /\ p \in Str(n) /\ d = col[t] /\ d \in Alphabet /\ d \in Nat
               /\ s[t] = Code!HalfSum - Code!SumOf(p)
               /\ Code!DigitFits(d, s[t]) /\ s[t] - d \in 0 .. Code!HalfSum
               /\ Code!Value(number[t]) = Cardinality(Behind(p, n, d)) + Code!Value(x[t])
               /\ Code!Value(x[t]) < Cardinality(Ahead(p, n, d))
               /\ dp[row[t]][s[t] - d] \in Code!U256
               /\ Code!Value(dp[row[t]][s[t] - d]) = Cardinality(Goes(p, n, d))
<1>1. CodeShape /\ Complete /\ Scans(t)
  BY DEF CodeInv, Thread
<1>2. PICK n \in Nat : /\ n = CodeLength - 1 - row[t] /\ n < CodeLength
                       /\ row[t] \in 0 .. CodeLength - 1 /\ CodeLength - n - 1 = row[t]
  <2>1. row[t] \in 0 .. CodeLength - 1
    BY <1>1 DEF Scans
  <2>2. /\ CodeLength - 1 - row[t] \in Nat /\ CodeLength - 1 - row[t] < CodeLength
        /\ CodeLength - (CodeLength - 1 - row[t]) - 1 = row[t]
    BY <2>1, HalfNat
  <2> QED  BY <2>1, <2>2
<1>3. PICK p \in Str(n), d \in Nat : p = word[t] /\ d = col[t]
  BY <1>1, <1>2 DEF Scans
<1>4. /\ s[t] = Code!HalfSum - Code!SumOf(p) /\ s[t] \in 0 .. Code!HalfSum
      /\ Code!Value(number[t]) = Cardinality(Behind(p, n, d)) + Code!Value(x[t])
      /\ Code!Value(x[t]) < Cardinality(Ahead(p, n, d))
  BY <1>1, <1>2, <1>3 DEF Scans, CodeShape
<1>5. Code!Value(x[t]) \in Nat
  BY <1>1, FourIs DEF CodeShape
<1>6. d \in Alphabet /\ Code!DigitFits(d, s[t])
  <2>1. Cardinality(Ahead(p, n, d)) # 0
    BY <1>4, <1>5
  <2> QED  BY <1>2, <1>4, <2>1, AheadFits
<1>7. s[t] - d \in 0 .. Code!HalfSum /\ row[t] \in 0 .. CodeLength
  BY <1>2, <1>4, <1>6, HalfNat DEF Code!DigitFits
<1>8. dp[row[t]][s[t] - d] \in Code!U256
  BY <1>1, <1>7 DEF CodeShape
<1>9. Code!Value(dp[row[t]][s[t] - d]) = Cardinality(Code!Words(row[t], s[t] - d))
  BY <1>1, <1>2, <1>7 DEF Complete, Right
<1>10. Cardinality(Goes(p, n, d)) = Cardinality(Code!Words(row[t], s[t] - d))
  BY <1>2, <1>4, <1>6, CountSplits
<1> QED  BY <1>2, <1>3, <1>4, <1>6, <1>7, <1>8, <1>9, <1>10

LEMMA SkipKeepsCode ==
    ASSUME OneEncoder, CodeInv, NEW t \in Encoders, Code!SkipDigit(t)
    PROVE  CodeInv'
<1>1. CodeShape /\ (done => Complete) /\ Thread(t) /\ \A u \in Encoders : u = t
  BY DEF CodeInv, OneEncoder
<1>2. /\ label[t] = "scan" /\ done
      /\ ~Code!less_u256(x[t], dp[row[t]][s[t] - col[t]])
      /\ x' = Code!Set(x, t, Code!sub_u256(x[t], dp[row[t]][s[t] - col[t]]))
      /\ col' = Code!Set(col, t, col[t] + 1)
      /\ UNCHANGED <<done, dp, label, row, k, s, word, number>>
  BY <1>1 DEF Code!SkipDigit, Thread
<1>3. PICK n, p, d :
               /\ n \in Nat
               /\ n = CodeLength - 1 - row[t] /\ n < CodeLength /\ row[t] \in 0 .. CodeLength - 1
               /\ p = word[t] /\ p \in Str(n) /\ d = col[t] /\ d \in Alphabet /\ d \in Nat
               /\ s[t] = Code!HalfSum - Code!SumOf(p)
               /\ Code!DigitFits(d, s[t]) /\ s[t] - d \in 0 .. Code!HalfSum
               /\ Code!Value(number[t]) = Cardinality(Behind(p, n, d)) + Code!Value(x[t])
               /\ Code!Value(x[t]) < Cardinality(Ahead(p, n, d))
               /\ dp[row[t]][s[t] - d] \in Code!U256
               /\ Code!Value(dp[row[t]][s[t] - d]) = Cardinality(Goes(p, n, d))
  BY <1>2, ScanReads
<1>4. PICK v, w : v = x[t] /\ w = dp[row[t]][s[t] - d] /\ v \in Code!U256 /\ w \in Code!U256
  BY <1>1, <1>3 DEF CodeShape
<1>5. Code!Value(v) \in Nat /\ Code!Value(w) \in Nat
  BY <1>4, FourIs
<1>6. Code!Value(w) <= Code!Value(v)
  <2>1. ~Code!less_u256(v, w)
    BY <1>2, <1>3, <1>4
  <2>2. ~(Code!Value(v) < Code!Value(w))
    BY <1>4, <2>1, LessFour
  <2> QED  BY <1>5, <2>2
<1>7. PICK v2 : /\ v2 = Code!sub_u256(v, w) /\ v2 \in Code!U256
                /\ Code!Value(v2) = Code!Value(v) - Code!Value(w)
  BY <1>4, <1>6, SubFour
<1>8. col[t] + 1 \in 0 .. Code!HalfSum + 1
  BY <1>1, <1>3, HalfNat DEF CodeShape, Code!DigitFits
<1>9. /\ x' \in [Encoders -> Code!U256] /\ x'[t] = v2
      /\ col' \in [Encoders -> 0 .. Code!HalfSum + 1] /\ col'[t] = d + 1
  <2>1. x' = Code!Set(x, t, v2)
    BY <1>2, <1>3, <1>4, <1>7
  <2> QED  BY <1>1, <1>2, <1>3, <1>7, <1>8, <2>1 DEF CodeShape, Code!Set
<1>10. CodeShape'
  BY <1>1, <1>2, <1>9 DEF CodeShape
<1>11. (done => Complete)'
  BY <1>1, <1>2 DEF Complete, Right
<1>12. /\ Code!Value(number[t]) = Cardinality(Behind(p, n, d + 1)) + Code!Value(v2)
       /\ Code!Value(v2) < Cardinality(Ahead(p, n, d + 1))
  <2>1. /\ Cardinality(Behind(p, n, d)) \in Nat /\ Cardinality(Ahead(p, n, d + 1)) \in Nat
        /\ Cardinality(Goes(p, n, d)) \in Nat
        /\ Cardinality(Behind(p, n, d + 1)) = Cardinality(Behind(p, n, d)) + Cardinality(Goes(p, n, d))
        /\ Cardinality(Ahead(p, n, d)) = Cardinality(Goes(p, n, d)) + Cardinality(Ahead(p, n, d + 1))
    BY <1>3, CountSplits
  <2>2. PICK b, a, g, e \in Nat :
            /\ b = Cardinality(Behind(p, n, d)) /\ a = Cardinality(Ahead(p, n, d + 1))
            /\ g = Cardinality(Goes(p, n, d)) /\ e = Code!Value(v)
    BY <1>5, <2>1
  <2>3. /\ Code!Value(number[t]) = b + e /\ e < g + a /\ Code!Value(v2) = e - g
        /\ Cardinality(Behind(p, n, d + 1)) = b + g
    BY <1>3, <1>4, <1>7, <2>1, <2>2
  <2> QED  BY <2>2, <2>3
<1>13. Scans(t)'
  BY <1>2, <1>3, <1>9, <1>12 DEF Scans
<1> QED  BY <1>1, <1>2, <1>10, <1>11, <1>13 DEF CodeInv, Thread

LEMMA TakeKeepsCode ==
    ASSUME OneEncoder, CodeInv, NEW t \in Encoders, Code!TakeDigit(t)
    PROVE  CodeInv'
<1>1. CodeShape /\ (done => Complete) /\ Thread(t) /\ \A u \in Encoders : u = t
  BY DEF CodeInv, OneEncoder
<1>2. /\ label[t] = "scan" /\ done
      /\ Code!less_u256(x[t], dp[row[t]][s[t] - col[t]])
      /\ word' = Code!Set(word, t, Append(word[t], col[t]))
      /\ s' = Code!Set(s, t, s[t] - col[t])
      /\ row' = Code!Set(row, t, row[t] - 1) /\ col' = Code!Set(col, t, 0)
      /\ IF row[t] = 0 THEN label' = [label EXCEPT ![t] = "return"] ELSE UNCHANGED label
      /\ UNCHANGED <<done, dp, k, x, number>>
  BY <1>1 DEF Code!TakeDigit, Code!AfterDigits, Code!Goto, Thread
<1>3. PICK n, p, d :
               /\ n \in Nat
               /\ n = CodeLength - 1 - row[t] /\ n < CodeLength /\ row[t] \in 0 .. CodeLength - 1
               /\ p = word[t] /\ p \in Str(n) /\ d = col[t] /\ d \in Alphabet /\ d \in Nat
               /\ s[t] = Code!HalfSum - Code!SumOf(p)
               /\ Code!DigitFits(d, s[t]) /\ s[t] - d \in 0 .. Code!HalfSum
               /\ Code!Value(number[t]) = Cardinality(Behind(p, n, d)) + Code!Value(x[t])
               /\ Code!Value(x[t]) < Cardinality(Ahead(p, n, d))
               /\ dp[row[t]][s[t] - d] \in Code!U256
               /\ Code!Value(dp[row[t]][s[t] - d]) = Cardinality(Goes(p, n, d))
  BY <1>2, ScanReads
<1>4. Code!Value(x[t]) \in Nat /\ Code!Value(x[t]) < Cardinality(Goes(p, n, d))
  <2>1. PICK v, w : v = x[t] /\ w = dp[row[t]][s[t] - d] /\ v \in Code!U256 /\ w \in Code!U256
    BY <1>1, <1>3 DEF CodeShape
  <2>2. Code!less_u256(v, w)
    BY <1>2, <1>3, <2>1
  <2> QED  BY <1>3, <2>1, <2>2, LessFour, FourIs
<1>5. PICK q \in Str(n + 1) :
          /\ q = Append(p, d) /\ q[n + 1] = d /\ \A y \in 1 .. n : q[y] = p[y]
          /\ Code!SumOf(q) = Code!SumOf(p) + d /\ Code!SumOf(p) \in Nat
  BY <1>3, ThenIs
<1>6. q \in Seq(Alphabet) /\ Len(q) = n + 1
  <2>1. n + 1 \in Nat
    BY <1>3
  <2>2. q \in Seq(Alphabet)
    BY <2>1, SeqDef DEF Str
  <2> QED  BY <2>1, <2>2, LenProperties DEF Str
<1>7. /\ word' \in [Encoders -> Seq(Alphabet)] /\ word'[t] = q
      /\ s' \in [Encoders -> 0 .. Code!HalfSum] /\ s'[t] = s[t] - d
      /\ row' \in [Encoders -> -1 .. CodeLength] /\ row'[t] = row[t] - 1
      /\ col' \in [Encoders -> 0 .. Code!HalfSum + 1] /\ col'[t] = 0
  <2>1. row[t] - 1 \in -1 .. CodeLength /\ 0 \in 0 .. Code!HalfSum + 1
    BY <1>3, HalfNat
  <2>2. word' = Code!Set(word, t, q) /\ s' = Code!Set(s, t, s[t] - d)
    BY <1>2, <1>3, <1>5
  <2>3. word' \in [Encoders -> Seq(Alphabet)] /\ word'[t] = q
    BY <1>1, <1>6, <2>2 DEF CodeShape, Code!Set
  <2>4. s' \in [Encoders -> 0 .. Code!HalfSum] /\ s'[t] = s[t] - d
    BY <1>1, <1>3, <2>2 DEF CodeShape, Code!Set
  <2> QED  BY <1>1, <1>2, <2>1, <2>3, <2>4 DEF CodeShape, Code!Set
<1>8. CodeShape'
  <2>1. label' \in [Encoders -> {"idle", "test", "clear", "add", "scan", "return"}]
    BY <1>1, <1>2 DEF CodeShape
  <2>2. \A u \in Encoders : Len(word'[u]) <= CodeLength
    BY <1>1, <1>3, <1>6, <1>7, HalfNat
  <2> QED  BY <1>1, <1>2, <1>7, <2>1, <2>2 DEF CodeShape
<1>9. (done => Complete)'
  BY <1>1, <1>2 DEF Complete, Right
<1>10. CASE row[t] = 0
  <2>1. label'[t] = "return" /\ n + 1 = CodeLength
    BY <1>1, <1>2, <1>3, <1>10, HalfNat DEF CodeShape
  <2>2. Cardinality(Goes(p, n, d)) # 0
    BY <1>4
  <2>3. /\ q \in All /\ Cardinality(Goes(p, n, d)) = 1
        /\ {v \in All : Code!Before(v, q)} = Behind(p, n, d)
    <3>1. n \in Nat /\ p \in Str(n) /\ d \in Alphabet
      BY <1>3
    <3>2. q[n + 1] = d /\ \A y \in 1 .. n : q[y] = p[y]
      BY <1>5
    <3>3. n + 1 = CodeLength
      BY <2>1
    <3> QED  BY <2>2, <3>1, <3>2, <3>3, TakesLast
  <2>4. Cardinality(Behind(p, n, d)) \in Nat
    BY <1>3, CountSplits
  <2>5. Code!Value(number[t]) = Cardinality(Behind(p, n, d))
    BY <1>3, <1>4, <2>3, <2>4
  <2>6. Ranked(t)'
    <3>1. word'[t] = q /\ number'[t] = number[t]
      BY <1>2, <1>7
    <3> QED  BY <2>3, <2>5, <3>1 DEF Ranked
  <2> QED  BY <1>1, <1>2, <1>8, <1>9, <2>1, <2>6 DEF CodeInv, Thread
<1>11. CASE row[t] # 0
  <2>1. /\ label' = label /\ n + 1 < CodeLength /\ row[t] - 1 \in 0 .. CodeLength - 1
        /\ CodeLength - 1 - (row[t] - 1) = n + 1
    BY <1>2, <1>3, <1>11, HalfNat
  <2>2. Behind(q, n + 1, 0) = Behind(p, n, d) /\ Ahead(q, n + 1, 0) = Goes(p, n, d)
    BY <1>3, <1>5, <2>1, TakesOn
  <2>3. s[t] - d = Code!HalfSum - Code!SumOf(q)
    BY <1>3, <1>5, HalfNat
  <2>4. Scans(t)'
    <3>1. /\ word'[t] = q /\ row'[t] = row[t] - 1 /\ col'[t] = 0 /\ s'[t] = s[t] - d
          /\ number'[t] = number[t] /\ x'[t] = x[t]
      BY <1>2, <1>7
    <3> QED  BY <1>3, <1>4, <2>1, <2>2, <2>3, <3>1 DEF Scans
  <2> QED  BY <1>1, <1>2, <1>8, <1>9, <2>1, <2>4 DEF CodeInv, Thread
<1> QED  BY <1>10, <1>11

LEMMA EncodeStep == ASSUME OneEncoder, CodeInv, [Code!Next]_(Code!vars) PROVE CodeInv'
<1>1. CASE Code!Next
  <2>1. PICK t \in Encoders :
            \/ \E msg \in Code!Messages : Code!Call(t, msg)
            \/ Code!TestDone(t) \/ Code!Clear(t) \/ Code!Add(t) \/ Code!NextEntry(t)
            \/ Code!SkipDigit(t) \/ Code!TakeDigit(t)
    BY <1>1 DEF Code!Next
  <2> QED  BY <2>1, CallKeepsCode, TestKeepsCode, ClearKeepsCode, AddKeepsCode, NextKeepsCode,
              SkipKeepsCode, TakeKeepsCode
<1>2. CASE UNCHANGED Code!vars
  BY <1>2 DEF Code!vars, CodeInv, CodeShape, Complete, Thread, Right, Untouched, FillsRow, Rows,
              Entries, Adding, Asked, Scans, Ranked
<1> QED  BY <1>1, <1>2

(* What the invariant says of the calls. *)
LEMMA EncodesRight == ASSUME CodeInv PROVE Code!EncodesByRank /\ Code!DigitFound
<1>1. Code!TypeOK
  <2> SUFFICES ASSUME NEW t \in Encoders
               PROVE  /\ label[t] \in {"idle", "test", "clear", "add", "scan", "return"}
                      /\ row[t] \in -1 .. CodeLength /\ col[t] \in 0 .. Code!HalfSum + 1
                      /\ k[t] \in 0 .. Winternitz
                      /\ x[t] \in Code!U256 /\ s[t] \in 0 .. Code!HalfSum
                      /\ Len(word[t]) <= CodeLength
    BY DEF CodeInv, CodeShape, Code!TypeOK
  <2> QED  BY DEF CodeInv, CodeShape
<1>2. Code!TableComplete
  BY CountsAsCode DEF CodeInv, Complete, Right, Code!TableComplete
<1>3. ASSUME NEW t \in Encoders, label[t] = "return"
      PROVE  /\ word[t] \in Code!Words(CodeLength, Code!HalfSum)
             /\ Code!Cardinality({v \in Code!Words(CodeLength, Code!HalfSum) : Code!Before(v, word[t])}) =
                    Code!Value(number[t])
  BY <1>3, CountsAsCode DEF CodeInv, Thread, Ranked, All
<1>4. Code!DigitFound
  <2>1. ASSUME NEW t \in Encoders, label[t] = "scan" PROVE Code!DigitFits(col[t], s[t])
    BY <2>1, ScanReads
  <2> QED  BY <2>1 DEF Code!DigitFound, Code!OutOfDigits
<1> QED  BY <1>1, <1>2, <1>3, <1>4 DEF Code!EncodesByRank

(* encode, called by one thread, gives the message its word: the digits    *)
(* are those of the word that as many words precede as the message says,   *)
(* for every length of the code, every alphabet and every size of a limb   *)
(* that holds the counts; and every position finds its digit.              *)
THEOREM WordsByRank ==
    ASSUME OneEncoder
    PROVE  MCSpec => [](EncodesByRank /\ DigitFound)
<1>1. MCInit => CodeInv
  BY EncodeInit DEF MCInit
<1>2. CodeInv /\ [MCNext]_<<machine, vars, codeVars, randVars>> => CodeInv'
  <2>1. [MCNext]_<<machine, vars, codeVars, randVars>> => [Code!Next]_(Code!vars)
    BY DEF MCNext, codeVars, Code!vars
  <2> QED  BY <2>1, EncodeStep
<1>3. CodeInv => EncodesByRank /\ DigitFound
  BY EncodesRight DEF EncodesByRank, DigitFound
<1> QED  BY <1>1, <1>2, <1>3, PTL DEF MCSpec

=============================================================================
