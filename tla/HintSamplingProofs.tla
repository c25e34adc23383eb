------------------------- MODULE HintSamplingProofs -------------------------
(***************************************************************************)
(* What is proved of the encodings and of the samplers.  The hint codec    *)
(* for every K, N and OMEGA: neither loop leaves its part of the           *)
(* signature, hints have one encoding, nothing else is accepted, and what  *)
(* the signer packs is what the verifier gets.  The challenge for every    *)
(* degree and weight: it has the weight it is meant to have, and each is   *)
(* as likely as any other.  The samplers: each takes every candidate of    *)
(* its stream once, in order, and stays in its buffers.  The packing loops *)
(* for polynomials of any length: what is packed is what is read back.     *)
(***************************************************************************)
EXTENDS MCEncoding, MCSampling, FiniteSetTheorems, TLAPS

(* The ones that pack_sig has passed: all rows before i, and row i up to j. *)
Ones(g) == {p \in Rows \X Byte : p[2] \in g[p[1]]}
Passed == {p \in Ones(h) : p[1] < i \/ (p[1] = i /\ p[2] < j)}

(* The encoding seen from the bytes: what a row holds, and the order that  *)
(* makes the encoding unique.                                              *)
RowStart(s, r) == IF r = 0 THEN 0 ELSE s[OMEGA + r - 1]

RowOf(s, r, end) == {s[b] : b \in RowStart(s, r) .. end - 1}

RowOrdered(s, r, end) ==
    /\ RowStart(s, r) <= end /\ end <= OMEGA
    /\ \A b \in RowStart(s, r) + 1 .. end - 1 : s[b - 1] < s[b]

Ordered(s) ==
    /\ \A r \in Rows : RowOrdered(s, r, s[OMEGA + r])
    /\ \A b \in RowStart(s, K) .. OMEGA - 1 : s[b] = 0

(* Rows that have been decoded. *)
RowDone(r) == RowOrdered(sig, r, sig[OMEGA + r]) /\ out[r] = RowOf(sig, r, sig[OMEGA + r])

PackInv == pc = "pack" => HintCount <= OMEGA /\ k = Cardinality(Passed)

UnpackInv ==
    /\ pc \in {"row", "position", "tail", "accepted"} =>
           /\ k = RowStart(sig, i)
           /\ \A r \in Rows : r < i => RowDone(r)
    /\ pc = "position" =>
           /\ i < K /\ k <= j /\ j <= sig[OMEGA + i]
           /\ k <= sig[OMEGA + i] /\ sig[OMEGA + i] <= OMEGA
           /\ RowOrdered(sig, i, j)
           /\ out[i] = RowOf(sig, i, j)
    /\ pc \in {"tail", "accepted"} =>
           /\ i = K /\ k <= j /\ j <= OMEGA
           /\ \A b \in k .. j - 1 : sig[b] = 0
    /\ pc = "accepted" => j = OMEGA

CountInv == pc = "count" => i = 0 /\ j = 0 /\ k = 0

Inv == TypeOK /\ PackInv /\ UnpackInv /\ CountInv

LEMMA Sizes == /\ K \in Nat /\ K > 0 /\ OMEGA \in Nat /\ OMEGA > 0
               /\ N \in Nat /\ N > OMEGA
BY SizeAssumption

LEMMA OnesFinite ==
    ASSUME NEW g \in Hints
    PROVE  IsFiniteSet(Ones(g))
<1>1. IsFiniteSet(Rows) /\ IsFiniteSet(Byte)
  BY Sizes, FS_Interval DEF Rows, Byte
<1>2. IsFiniteSet(Rows \X Byte)
  BY <1>1, FS_Product
<1> QED BY <1>2, FS_Subset DEF Ones

LEMMA PassedFinite ==
    ASSUME TypeOK
    PROVE  /\ IsFiniteSet(Passed) /\ Cardinality(Passed) \in Nat
           /\ Cardinality(Passed) <= HintCount
<1>1. IsFiniteSet(Ones(h))
  BY OnesFinite DEF TypeOK
<1>2. Passed \subseteq Ones(h)
  BY DEF Passed
<1>3. HintCount = Cardinality(Ones(h))
  BY DEF HintCount, Ones
<1> QED BY <1>1, <1>2, <1>3, FS_Subset, FS_CardinalityType

LEMMA InvInit == Init => Inv
<1> SUFFICES ASSUME Init PROVE Inv
  OBVIOUS
<1>1. NoHints \in Hints /\ [r \in Rows |-> Byte] \in Hints
  BY DEF NoHints, Hints
<1>2. [b \in 0 .. OMEGA + K - 1 |-> 0] \in Sig
  BY Sizes DEF Sig, Byte
<1>3. TypeOK
  BY <1>1, <1>2, Sizes DEF Init, TypeOK
<1>4. PackInv /\ CountInv
  BY DEF Init, PackInv, CountInv
<1>5. UnpackInv
  BY Sizes DEF Init, UnpackInv, RowStart, Rows
<1> QED BY <1>3, <1>4, <1>5 DEF Inv

LEMMA TypeStep == Inv /\ [Next]_vars => TypeOK'
<1> SUFFICES ASSUME Inv, [Next]_vars PROVE TypeOK'
  OBVIOUS
<1> USE Sizes DEF Inv, TypeOK
<1>1. CASE CountHints
  BY <1>1 DEF CountHints
<1>2. CASE PackPosition
  <2>1. ASSUME j \in h[i] PROVE k < OMEGA
    <3> DEFINE P == Passed \cup {<<i, j>>}
    <3>1. <<i, j>> \notin Passed /\ <<i, j>> \in Ones(h)
      BY <1>2, <2>1 DEF PackPosition, Passed, Ones, Rows, Byte
    <3>2. P \subseteq Ones(h) /\ IsFiniteSet(Ones(h))
      BY <3>1, OnesFinite DEF Passed
    <3>3. Cardinality(P) = Cardinality(Passed) + 1
      BY <3>1, PassedFinite, FS_AddElement
    <3>4. Cardinality(P) <= HintCount
      BY <3>2, FS_Subset DEF HintCount, Ones
    <3>5. HintCount \in Nat
      BY <3>2, FS_CardinalityType DEF HintCount, Ones
    <3> QED BY <1>2, <3>3, <3>4, <3>5, PassedFinite DEF PackPosition, PackInv
  <2>2. CASE j \in h[i]
    <3>1. sig' = [sig EXCEPT ![k] = j] /\ k' = k + 1
      BY <1>2, <2>2 DEF PackPosition
    <3>2. sig' \in Sig
      BY <1>2, <2>1, <2>2, <3>1 DEF PackPosition, Sig, Byte
    <3> QED BY <1>2, <2>1, <2>2, <3>1, <3>2 DEF PackPosition
  <2>3. CASE j \notin h[i]
    BY <1>2, <2>3 DEF PackPosition
  <2> QED BY <2>2, <2>3
<1>3. CASE PackRowEnd
  <2>1. sig' \in Sig
    BY <1>3 DEF PackRowEnd, Sig, Byte
  <2> QED BY <1>3, <2>1 DEF PackRowEnd
<1>4. CASE Send
  BY <1>4 DEF Send
<1>5. CASE UnpackRow
  <2>1. out' \in Hints
    BY <1>5 DEF UnpackRow, Cleared, Hints
  <2> QED BY <1>5, <2>1 DEF UnpackRow
<1>6. CASE UnpackPosition
  <2>1. sig[OMEGA + i] <= OMEGA /\ i < K /\ i \in Rows /\ j < OMEGA
    BY <1>6 DEF UnpackPosition, UnpackInv, Sig, Byte, Rows
  <2>2. sig[j] \in Byte
    BY <1>6, <2>1 DEF UnpackPosition, Sig, Byte
  <2>3. [out EXCEPT ![i] = @ \cup {sig[j]}] \in Hints
    BY <2>1, <2>2 DEF Hints
  <2> QED BY <1>6, <2>1, <2>3 DEF UnpackPosition
<1>7. CASE UnpackRowEnd
  BY <1>7 DEF UnpackRowEnd, UnpackInv, Sig, Byte
<1>8. CASE StartTail
  BY <1>8 DEF StartTail
<1>9. CASE UnpackTail
  BY <1>9 DEF UnpackTail
<1>10. CASE Accept
  BY <1>10 DEF Accept
<1>11. CASE UNCHANGED vars
  BY <1>11 DEF vars
<1> QED BY <1>1, <1>2, <1>3, <1>4, <1>5, <1>6, <1>7, <1>8, <1>9, <1>10, <1>11 DEF Next

(* The bytes do not change while they are decoded. *)
LEMMA PackStep == Inv /\ [Next]_vars => PackInv' /\ CountInv'
<1> SUFFICES ASSUME Inv, [Next]_vars PROVE PackInv' /\ CountInv'
  OBVIOUS
<1> USE Sizes DEF Inv
<1>1. CASE CountHints
  <2>1. pc = "count" /\ UNCHANGED <<h, i, j, k>> /\ i = 0 /\ j = 0 /\ k = 0
    BY <1>1 DEF CountHints, CountInv
  <2>2. Passed = {}
    BY <2>1 DEF Passed, Ones, Rows, Byte
  <2>3. Passed' = Passed /\ HintCount' = HintCount
    BY <2>1 DEF Passed, Ones, HintCount
  <2>4. pc' = "pack" => HintCount <= OMEGA
    <3>1. HintCount \in Nat
      BY OnesFinite, FS_CardinalityType DEF HintCount, Ones, TypeOK
    <3> QED BY <1>1, <3>1 DEF CountHints, TooMany
  <2>5. pc' # "count"
    BY <1>1 DEF CountHints
  <2> QED BY <2>1, <2>2, <2>3, <2>4, <2>5, FS_EmptySet DEF PackInv, CountInv
<1>2. CASE PackPosition
  <2>1. pc = "pack" /\ pc' = "pack" /\ h' = h /\ i' = i /\ j' = j + 1 /\ i \in Rows /\ j \in Byte
    BY <1>2 DEF PackPosition, TypeOK, Rows, Byte
  <2>2. HintCount' = HintCount
    BY <2>1 DEF HintCount
  <2>3. CASE j \in h[i]
    <3>1. Passed' = Passed \cup {<<i, j>>} /\ <<i, j>> \notin Passed
      BY <2>1, <2>3 DEF Passed, Ones, TypeOK, Rows, Byte
    <3>2. k' = k + 1
      BY <1>2, <2>3 DEF PackPosition
    <3>3. Cardinality(Passed') = Cardinality(Passed) + 1
      BY <3>1, PassedFinite, FS_AddElement
    <3> QED BY <2>1, <2>2, <3>2, <3>3 DEF PackInv, CountInv
  <2>4. CASE j \notin h[i]
    <3>1. Passed' = Passed
      BY <2>1, <2>4 DEF Passed, Ones, TypeOK, Rows, Byte
    <3>2. k' = k
      BY <1>2, <2>4 DEF PackPosition
    <3> QED BY <2>1, <2>2, <3>1, <3>2 DEF PackInv, CountInv
  <2> QED BY <2>3, <2>4
<1>3. CASE PackRowEnd
  <2>1. pc = "pack" /\ pc' = "pack" /\ h' = h /\ i' = i + 1 /\ j' = 0 /\ k' = k /\ j = N
    BY <1>3 DEF PackRowEnd
  <2>2. Passed' = Passed
    BY <2>1 DEF Passed, Ones, TypeOK, Rows, Byte
  <2>3. HintCount' = HintCount
    BY <2>1 DEF HintCount
  <2> QED BY <2>1, <2>2, <2>3 DEF PackInv, CountInv
<1>4. CASE UNCHANGED vars
  BY <1>4 DEF vars, PackInv, CountInv, HintCount, Passed, Ones
<1>5. CASE pc' # "pack" /\ pc' # "count"
  BY <1>5 DEF PackInv, CountInv
<1> QED BY <1>1, <1>2, <1>3, <1>4, <1>5
        DEF Next, Send, UnpackRow, UnpackPosition, UnpackRowEnd, StartTail,
            UnpackTail, Accept

LEMMA UnpackStep == Inv /\ [Next]_vars => UnpackInv'
<1> SUFFICES ASSUME Inv, [Next]_vars PROVE UnpackInv'
  OBVIOUS
<1> USE Sizes DEF Inv
<1>1. CASE Send
  BY <1>1 DEF Send, UnpackInv, RowStart, Rows
<1>2. CASE UnpackRow
  <2>1. /\ pc = "row" /\ i < K /\ i \in Rows /\ UNCHANGED <<h, sig, i, k>>
        /\ k = RowStart(sig, i) /\ sig[OMEGA + i] \in Nat /\ k \in Nat /\ k <= OMEGA
    BY <1>2 DEF UnpackRow, UnpackInv, TypeOK, Rows, Sig, Byte
  <2>2. \A r \in Rows : r < i => RowDone(r)'
    <3>1. \A r \in Rows : r < i => out'[r] = out[r]
      BY <1>2, <2>1 DEF UnpackRow, Cleared, TypeOK, Hints, Rows
    <3> QED BY <2>1, <3>1 DEF UnpackInv, RowDone, RowOrdered, RowOf, RowStart
  <2>3. out'[i] = {}
    BY <1>2, <2>1 DEF UnpackRow, Cleared, TypeOK, Hints
  <2>4. CASE ~BadRowEnd(sig[OMEGA + i], k)
    <3>1. pc' = "position" /\ j' = k /\ k <= sig[OMEGA + i] /\ sig[OMEGA + i] <= OMEGA
      BY <1>2, <2>1, <2>4 DEF UnpackRow, BadRowEnd
    <3>2. RowOrdered(sig, i, k) /\ RowOf(sig, i, k) = {}
      BY <2>1, <3>1 DEF RowOrdered, RowOf
    <3> QED BY <2>1, <2>2, <2>3, <3>1, <3>2
            DEF UnpackInv, RowOrdered, RowOf, RowStart
  <2>5. CASE BadRowEnd(sig[OMEGA + i], k)
    BY <1>2, <2>5 DEF UnpackRow, UnpackInv
  <2> QED BY <2>4, <2>5
<1>3. CASE UnpackPosition
  <2>1. /\ pc = "position" /\ i < K /\ i \in Rows /\ j < sig[OMEGA + i]
        /\ k <= j /\ k <= sig[OMEGA + i] /\ sig[OMEGA + i] <= OMEGA
        /\ sig[OMEGA + i] \in Nat /\ j \in Nat /\ k \in Nat
        /\ k = RowStart(sig, i) /\ UNCHANGED <<h, sig, i, k>>
        /\ RowOrdered(sig, i, j) /\ out[i] = RowOf(sig, i, j)
    BY <1>3 DEF UnpackPosition, UnpackInv, TypeOK, Rows, Sig, Byte
  <2>2. CASE BadOrder(j, k)
    BY <1>3, <2>2 DEF UnpackPosition, UnpackInv
  <2>3. CASE ~BadOrder(j, k)
    <3>1. pc' = "position" /\ j' = j + 1 /\ out' = [out EXCEPT ![i] = @ \cup {sig[j]}]
      BY <1>3, <2>1, <2>3 DEF UnpackPosition
    <3>2. \A r \in Rows : r < i => RowDone(r)'
      <4>1. \A r \in Rows : r < i => out'[r] = out[r]
        BY <2>1, <3>1 DEF TypeOK, Hints, Rows
      <4> QED BY <2>1, <4>1 DEF UnpackInv, RowDone, RowOrdered, RowOf, RowStart
    <3>3. out'[i] = RowOf(sig, i, j + 1)
      <4>1. out'[i] = RowOf(sig, i, j) \cup {sig[j]}
        BY <2>1, <3>1 DEF TypeOK, Hints
      <4>2. k .. (j + 1) - 1 = (k .. j - 1) \cup {j}
        BY <2>1
      <4> QED BY <2>1, <4>1, <4>2 DEF RowOf
    <3>4. RowOrdered(sig, i, j + 1)
      <4>1. SUFFICES ASSUME NEW b \in k + 1 .. (j + 1) - 1 PROVE sig[b - 1] < sig[b]
        BY <2>1 DEF RowOrdered
      <4>2. CASE b < j
        BY <2>1, <4>2 DEF RowOrdered
      <4>3. CASE b = j
        <5>1. j \in 0 .. OMEGA + K - 1 /\ j - 1 \in 0 .. OMEGA + K - 1
          BY <2>1, <4>3
        <5>2. sig[j] \in Nat /\ sig[j - 1] \in Nat
          BY <5>1 DEF TypeOK, Sig, Byte
        <5>3. j > k /\ ~(sig[j] <= sig[j - 1])
          BY <2>1, <2>3, <4>3 DEF BadOrder
        <5> QED BY <4>3, <5>2, <5>3
      <4> QED BY <2>1, <4>2, <4>3
    <3>5. UnpackInv!1' /\ UnpackInv!2'
      BY <2>1, <3>1, <3>2, <3>3, <3>4 DEF RowOf, RowOrdered, RowStart
    <3> QED BY <3>1, <3>5 DEF UnpackInv
  <2> QED BY <2>2, <2>3
<1>4. CASE UnpackRowEnd
  <2>1. /\ pc = "position" /\ pc' = "row" /\ i \in Rows /\ j >= sig[OMEGA + i]
        /\ j <= sig[OMEGA + i] /\ sig[OMEGA + i] \in Nat /\ j \in Nat
        /\ k' = sig[OMEGA + i] /\ i' = i + 1 /\ UNCHANGED <<h, sig, j, out>>
        /\ RowOrdered(sig, i, j) /\ out[i] = RowOf(sig, i, j)
    BY <1>4 DEF UnpackRowEnd, UnpackInv, TypeOK, Rows, Sig, Byte
  <2>2. j = sig[OMEGA + i]
    BY <2>1
  <2>3. RowDone(i)
    BY <2>1, <2>2 DEF RowDone
  <2>4. \A r \in Rows : r < i' => RowDone(r)'
    <3> SUFFICES ASSUME NEW r \in Rows, r < i + 1 PROVE RowDone(r)
      BY <2>1 DEF RowDone, RowOrdered, RowOf, RowStart
    <3> QED BY <2>1, <2>3 DEF UnpackInv, Rows
  <2>5. k' = RowStart(sig', i')
    BY <2>1 DEF RowStart, Rows
  <2> QED BY <2>1, <2>4, <2>5 DEF UnpackInv
<1>5. CASE StartTail
  <2>1. pc = "row" /\ i = K /\ j' = k /\ pc' = "tail" /\ UNCHANGED <<h, sig, i, k, out>>
    BY <1>5 DEF StartTail
  <2> QED BY <2>1 DEF UnpackInv, RowDone, RowOrdered, RowOf, RowStart, TypeOK
<1>6. CASE UnpackTail
  <2>1. pc = "tail" /\ j < OMEGA /\ UNCHANGED <<h, sig, i, k, out>>
    BY <1>6 DEF UnpackTail
  <2>2. \A r \in Rows : r < i' => RowDone(r)'
    BY <2>1 DEF UnpackInv, RowDone, RowOrdered, RowOf, RowStart
  <2>3. CASE BadTail(sig[j])
    BY <1>6, <2>3 DEF UnpackTail, UnpackInv
  <2>4. CASE ~BadTail(sig[j])
    <3>1. pc' = "tail" /\ j' = j + 1 /\ sig[j] = 0
      BY <1>6, <2>4 DEF UnpackTail, BadTail
    <3> QED BY <2>1, <2>2, <3>1 DEF UnpackInv, TypeOK, RowStart
  <2> QED BY <2>3, <2>4
<1>7. CASE Accept
  <2>1. pc = "tail" /\ j = OMEGA /\ pc' = "accepted" /\ UNCHANGED <<h, sig, i, j, k, out>>
    BY <1>7 DEF Accept
  <2> QED BY <2>1 DEF UnpackInv, RowDone, RowOrdered, RowOf, RowStart
<1>8. CASE UNCHANGED vars
  BY <1>8 DEF vars, UnpackInv, RowDone, RowOrdered, RowOf, RowStart
<1>9. CASE pc' \in {"pack", "rejected"}
  BY <1>9 DEF UnpackInv
<1> QED BY <1>1, <1>2, <1>3, <1>4, <1>5, <1>6, <1>7, <1>8, <1>9
        DEF Next, CountHints, PackPosition, PackRowEnd

(* All of it holds in every state. *)
THEOREM Invariance == Spec => []Inv
<1>1. Inv /\ [Next]_vars => Inv'
  BY TypeStep, PackStep, UnpackStep DEF Inv
<1> QED BY <1>1, InvInit, PTL DEF Spec

(* Every variable keeps its type: the loop counter k, above all, never     *)
(* passes OMEGA, on either side.                                           *)
THEOREM TypeCorrect == Spec => []TypeOK
BY Invariance, PTL DEF Inv

(* There is room for each position the signer still has to write. *)
LEMMA Room == Inv => StaysInPositions
<1> SUFFICES ASSUME Inv PROVE StaysInPositions
  OBVIOUS
<1> USE Sizes DEF Inv
<1>1. ASSUME pc = "pack", i < K, j < N, j \in h[i] PROVE k < OMEGA
  <2> DEFINE P == Passed \cup {<<i, j>>}
  <2>1. <<i, j>> \notin Passed /\ <<i, j>> \in Ones(h)
    BY <1>1 DEF Passed, Ones, Rows, Byte, TypeOK
  <2>2. P \subseteq Ones(h) /\ IsFiniteSet(Ones(h))
    BY <2>1, OnesFinite DEF Passed, TypeOK
  <2>3. Cardinality(P) = Cardinality(Passed) + 1
    BY <2>1, PassedFinite, FS_AddElement
  <2>4. Cardinality(P) <= HintCount
    BY <2>2, FS_Subset DEF HintCount, Ones
  <2>5. HintCount \in Nat
    BY <2>2, FS_CardinalityType DEF HintCount, Ones
  <2> QED BY <1>1, <2>3, <2>4, <2>5, PassedFinite DEF PackInv
<1>2. ASSUME pc = "position", j < sig[OMEGA + i] PROVE j < OMEGA
  BY <1>2 DEF UnpackInv, TypeOK, Sig, Byte
<1> QED BY <1>1, <1>2 DEF StaysInPositions

(* The signer's positions never run into the row ends: there is room for   *)
(* each one it still has to write.  The verifier reads positions only.     *)
THEOREM PositionsInRange == Spec => []StaysInPositions
BY Room, Invariance, PTL

(* The rows an ordered byte string lists. *)
Listed(s) == [r \in Rows |-> RowOf(s, r, s[OMEGA + r])]

(* At the end every row has been decoded, and the rest was zero. *)
LEMMA AcceptedIsListed ==
    ASSUME Inv, pc = "accepted"
    PROVE  Ordered(sig) /\ out = Listed(sig)
<1> USE Sizes DEF Inv
<1>1. i = K /\ j = OMEGA /\ k = RowStart(sig, K) /\ \A b \in k .. OMEGA - 1 : sig[b] = 0
  BY DEF UnpackInv
<1>2. \A r \in Rows : RowDone(r)
  BY <1>1 DEF UnpackInv, Rows
<1>3. out = [r \in Rows |-> out[r]]
  BY DEF TypeOK, Hints
<1> QED BY <1>1, <1>2, <1>3 DEF Ordered, RowDone, Listed

-----------------------------------------------------------------------------
(***************************************************************************)
(* The encoding is unique: the bytes that encode some hints are the        *)
(* ordered ones, and the hints are those their rows list (EncodedIsListed).*)
(* From that and the two loops follow that what is accepted is canonical   *)
(* and that hints survive the way from the signer to the verifier.         *)
(***************************************************************************)

(* A set that has 0 and every successor has every number: the library      *)
(* states induction for an operator, this is the same for a set.           *)
LEMMA Induction ==
    ASSUME NEW T, T \subseteq Nat, 0 \in T, \A n \in T : n + 1 \in T
    PROVE  T = Nat
<1> DEFINE Rest == Nat \ T
           R == OpToRel(<, Nat)
<1> SUFFICES ASSUME Rest # {} PROVE FALSE
  OBVIOUS
<1>1. PICK n \in Rest : \A l \in Rest : ~(<<l, n>> \in R)
  <2>1. IsWellFoundedOn(R, Nat)
    BY NatLessThanWellFounded
  <2>2. Rest \subseteq Nat
    OBVIOUS
  <2> HIDE DEF R, Rest
  <2> QED BY <2>1, <2>2, WFMin
<1>2. n # 0 /\ n - 1 \in Nat /\ n - 1 < n
  OBVIOUS
<1>3. <<n - 1, n>> \in R
  BY <1>2 DEF OpToRel
<1>4. n - 1 \in T
  BY <1>1, <1>2, <1>3
<1>5. (n - 1) + 1 = n
  OBVIOUS
<1> QED BY <1>4, <1>5

(* The ones before a place, in the order in which they are written. *)
Earlier(g, r, c) == {p \in Ones(g) : p[1] < r \/ (p[1] = r /\ p[2] < c)}

LEMMA EarlierFinite ==
    ASSUME NEW g \in Hints, NEW r \in Nat, NEW c \in Nat
    PROVE  /\ IsFiniteSet(Earlier(g, r, c)) /\ Cardinality(Earlier(g, r, c)) \in Nat
           /\ Cardinality(Ones(g)) \in Nat
           /\ Cardinality(Earlier(g, r, c)) <= Cardinality(Ones(g))
<1>1. IsFiniteSet(Ones(g)) /\ Earlier(g, r, c) \in SUBSET Ones(g)
  BY OnesFinite DEF Earlier
<1> QED BY <1>1, FS_Subset, FS_CardinalityType

LEMMA BeforeIs ==
    ASSUME NEW g \in Hints, NEW r \in Nat
    PROVE  Before(g, r) = Cardinality(Earlier(g, r, 0)) /\ Before(g, r) \in Nat
<1>1. {p \in Rows \X Byte : p[1] < r /\ p[2] \in g[p[1]]} = Earlier(g, r, 0)
  BY Sizes DEF Earlier, Ones, Byte
<1> QED BY <1>1, EarlierFinite DEF Before

LEMMA BeforeAll ==
    ASSUME NEW g \in Hints
    PROVE  Before(g, K) = Cardinality(Ones(g)) /\ Before(g, 0) = 0
<1>1. {p \in Rows \X Byte : p[1] < K /\ p[2] \in g[p[1]]} = Ones(g)
  BY Sizes DEF Ones, Rows
<1>2. {p \in Rows \X Byte : p[1] < 0 /\ p[2] \in g[p[1]]} = {}
  BY Sizes DEF Rows
<1> QED BY <1>1, <1>2, FS_EmptySet DEF Before

(* The end of a row is the start of the next. *)
LEMMA RowAfterRow ==
    ASSUME NEW g \in Hints, NEW r \in Rows
    PROVE  Earlier(g, r + 1, 0) = Earlier(g, r, N)
BY Sizes DEF Earlier, Ones, Rows, Byte

LEMMA PlaceIs ==
    ASSUME NEW g \in Hints, NEW r \in Rows, NEW c \in 0 .. N
    PROVE  /\ Place(g, r, c) = Cardinality(Earlier(g, r, c)) /\ Place(g, r, c) \in Nat
           /\ IsFiniteSet({d \in g[r] : d < c}) /\ Cardinality({d \in g[r] : d < c}) \in Nat
<1> DEFINE A == Earlier(g, r, 0)
           B == {d \in g[r] : d < c}
           C == {r} \X B
<1>1. r \in Nat /\ c \in Nat
  BY Sizes DEF Rows
<1>2. IsFiniteSet(Byte) /\ g[r] \subseteq Byte
  BY Sizes, FS_Interval DEF Byte, Hints
<1>3. IsFiniteSet(B) /\ Cardinality(B) \in Nat
  <2>1. B \in SUBSET Byte
    BY <1>2
  <2> QED BY <1>2, <2>1, FS_Subset, FS_CardinalityType
<1>4. IsFiniteSet(C) /\ Cardinality(C) = Cardinality(B)
  <2>1. IsFiniteSet({r}) /\ Cardinality({r}) = 1
    BY FS_Singleton
  <2> HIDE DEF B
  <2>2. IsFiniteSet(C) /\ Cardinality(C) = Cardinality({r}) * Cardinality(B)
    BY <1>3, <2>1, FS_Product
  <2> QED BY <1>3, <2>1, <2>2
<1>5. Earlier(g, r, c) = A \cup C /\ A \cap C = {}
  <2>1. A = {p \in Ones(g) : p[1] < r}
    BY Sizes DEF Earlier, Ones, Byte
  <2>2. C = {p \in Ones(g) : p[1] = r /\ p[2] < c}
    BY <1>2 DEF Ones
  <2> HIDE DEF A, C
  <2>3. \A p \in Ones(g) : p[1] \in Nat
    BY Sizes DEF Ones, Rows
  <2> QED BY <1>1, <2>1, <2>2, <2>3 DEF Earlier
<1>6. IsFiniteSet(A) /\ Cardinality(A) \in Nat /\ Before(g, r) = Cardinality(A)
  BY <1>1, EarlierFinite, BeforeIs
<1> HIDE DEF A, B, C
<1>7. Cardinality(A \cup C) = Cardinality(A) + Cardinality(C) - Cardinality(A \cap C)
  BY <1>4, <1>6, FS_Union
<1>8. Cardinality(Earlier(g, r, c)) = Cardinality(A) + Cardinality(B)
  BY <1>3, <1>4, <1>5, <1>6, <1>7, FS_EmptySet
<1>9. Place(g, r, c) = Before(g, r) + Cardinality(B)
  BY DEF Place, B
<1> QED BY <1>3, <1>6, <1>8, <1>9 DEF B

LEMMA NextRow ==
    ASSUME NEW g \in Hints, NEW r \in Rows
    PROVE  /\ Before(g, r + 1) = Before(g, r) + Cardinality(g[r])
           /\ IsFiniteSet(g[r]) /\ Cardinality(g[r]) \in Nat
           /\ Before(g, r) \in Nat /\ Before(g, r + 1) \in Nat
           /\ Before(g, r + 1) <= Before(g, K)
<1>1. r \in Nat /\ r + 1 \in Nat /\ N \in 0 .. N
  BY Sizes DEF Rows
<1>2. {d \in g[r] : d < N} = g[r]
  BY Sizes DEF Hints, Byte
<1>3. /\ Place(g, r, N) = Cardinality(Earlier(g, r, N))
      /\ IsFiniteSet(g[r]) /\ Cardinality(g[r]) \in Nat
  BY <1>1, <1>2, PlaceIs
<1>4. Place(g, r, N) = Before(g, r) + Cardinality(g[r])
  BY <1>2 DEF Place
<1>5. Before(g, r + 1) = Cardinality(Earlier(g, r, N))
  BY <1>1, BeforeIs, RowAfterRow
<1>6. Before(g, r + 1) <= Before(g, K)
  BY <1>1, BeforeIs, BeforeAll, EarlierFinite
<1> QED BY <1>1, <1>3, <1>4, <1>5, <1>6, BeforeIs

(* Adjacent positions that increase all do, and as many are listed as      *)
(* there are bytes.                                                        *)
LEMMA RowSorted ==
    ASSUME NEW s \in Sig, NEW r \in Rows, NEW start \in Nat, NEW end \in Nat,
           RowStart(s, r) = start, RowOrdered(s, r, end)
    PROVE  /\ \A x, y \in start .. end - 1 : x < y => s[x] < s[y]
           /\ \A b \in start .. end : Cardinality(RowOf(s, r, b)) = b - start
<1>1. start <= end /\ end <= OMEGA /\ \A b \in start + 1 .. end - 1 : s[b - 1] < s[b]
  BY DEF RowOrdered
<1>2. \A b \in start .. end - 1 : s[b] \in Nat
  BY <1>1, Sizes DEF Sig, Byte
<1> DEFINE Sorted(b) == \A x, y \in start .. b - 1 : x < y => s[x] < s[y]
           Counted(b) == IsFiniteSet(RowOf(s, r, b)) /\ Cardinality(RowOf(s, r, b)) = b - start
           T == {n \in Nat : start + n <= end => Sorted(start + n) /\ Counted(start + n)}
<1>3. 0 \in T
  <2>1. RowOf(s, r, start) = {}
    BY DEF RowOf
  <2>2. Counted(start)
    BY <2>1, FS_EmptySet
  <2>3. start + 0 = start /\ Sorted(start)
    OBVIOUS
  <2> HIDE DEF Sorted, Counted
  <2> QED BY <2>2, <2>3
<1>4. ASSUME NEW n \in T PROVE n + 1 \in T
  <2>1. n \in Nat /\ n + 1 \in Nat
    OBVIOUS
  <2>2. SUFFICES ASSUME start + (n + 1) <= end
                 PROVE  Sorted(start + (n + 1)) /\ Counted(start + (n + 1))
    BY <2>1
  <2> DEFINE b == start + n
  <2>3. b \in Nat /\ b \in start .. end - 1 /\ start + (n + 1) = b + 1 /\ s[b] \in Nat
    BY <1>2, <2>1, <2>2
  <2>4. Sorted(b) /\ Counted(b)
    BY <2>1, <2>2
  <2> HIDE DEF b
  <2>5. ASSUME NEW x \in start .. b - 1 PROVE s[x] < s[b]
    <3>1. b - 1 \in start .. b - 1 /\ b \in start + 1 .. end - 1
      BY <2>3
    <3>2. s[b - 1] < s[b] /\ s[b - 1] \in Nat /\ s[x] \in Nat
      BY <1>1, <1>2, <2>3, <3>1
    <3>3. x = b - 1 \/ s[x] < s[b - 1]
      BY <2>3, <2>4, <3>1
    <3> QED BY <2>3, <3>2, <3>3
  <2>6. Sorted(b + 1)
    <3>1. SUFFICES ASSUME NEW x \in start .. b, NEW y \in start .. b, x < y PROVE s[x] < s[y]
      BY <2>3
    <3>2. CASE y = b
      BY <2>3, <2>5, <3>1, <3>2
    <3>3. CASE y # b
      BY <2>3, <2>4, <3>1, <3>3
    <3> QED BY <3>2, <3>3
  <2>7. Counted(b + 1)
    <3>1. start .. (b + 1) - 1 = (start .. b - 1) \cup {b}
      BY <2>3
    <3>2. RowOf(s, r, b + 1) = RowOf(s, r, b) \cup {s[b]}
      BY <3>1 DEF RowOf
    <3>3. s[b] \notin RowOf(s, r, b)
      <4>1. \A x \in start .. b - 1 : s[x] \in Nat /\ s[x] < s[b]
        BY <1>2, <2>3, <2>5
      <4> QED BY <2>3, <4>1 DEF RowOf
    <3>4. IsFiniteSet(RowOf(s, r, b)) /\ Cardinality(RowOf(s, r, b)) = b - start
      BY <2>4
    <3>5. IsFiniteSet(RowOf(s, r, b + 1))
          /\ Cardinality(RowOf(s, r, b + 1)) = Cardinality(RowOf(s, r, b)) + 1
      BY <3>2, <3>3, <3>4, FS_AddElement
    <3> QED BY <2>3, <3>4, <3>5
  <2> QED BY <2>3, <2>6, <2>7
<1>5. T = Nat
  <2>1. T \subseteq Nat
    OBVIOUS
  <2> HIDE DEF T
  <2> QED BY <1>3, <1>4, <2>1, Induction
<1>6. \A b \in start .. end : Sorted(b) /\ Counted(b)
  <2> SUFFICES ASSUME NEW b \in start .. end PROVE Sorted(b) /\ Counted(b)
    OBVIOUS
  <2>1. b - start \in T /\ start + (b - start) = b
    BY <1>5
  <2> HIDE DEF Sorted, Counted
  <2> QED BY <2>1
<1>7. end \in start .. end
  BY <1>1
<1> QED BY <1>6, <1>7

LEMMA RowEnds ==
    ASSUME NEW s \in Sig, NEW r \in Rows
    PROVE  /\ s[OMEGA + r] \in Nat /\ RowStart(s, r) \in Nat /\ RowStart(s, r + 1) = s[OMEGA + r]
           /\ OMEGA + r \in Nat /\ OMEGA + r >= OMEGA
<1>1. r \in Nat /\ r < K /\ OMEGA + r \in 0 .. OMEGA + K - 1
  BY Sizes DEF Rows
<1>2. r # 0 => OMEGA + r - 1 \in 0 .. OMEGA + K - 1 /\ (r + 1) - 1 = r
  BY <1>1, Sizes
<1>3. OMEGA + (r + 1) - 1 = OMEGA + r /\ r + 1 # 0
  BY <1>1, Sizes
<1> QED BY <1>1, <1>2, <1>3, Sizes DEF RowStart, Sig, Byte

(* Ordered bytes encode what they list. *)
LEMMA OrderedEncodes ==
    ASSUME NEW s \in Sig, Ordered(s)
    PROVE  Listed(s) \in Hints /\ Encodes(s, Listed(s))
<1> DEFINE g == Listed(s)
<1>1. ASSUME NEW r \in Rows
      PROVE  /\ RowStart(s, r) <= s[OMEGA + r] /\ s[OMEGA + r] <= OMEGA
             /\ g[r] = RowOf(s, r, s[OMEGA + r]) /\ RowOrdered(s, r, s[OMEGA + r])
  BY DEF Ordered, RowOrdered, Listed
<1>2. g \in Hints
  <2>1. ASSUME NEW r \in Rows PROVE g[r] \subseteq Byte
    <3>1. \A b \in RowStart(s, r) .. s[OMEGA + r] - 1 : s[b] \in Byte
      BY <1>1, RowEnds, Sizes DEF Sig
    <3> QED BY <1>1, <3>1 DEF RowOf
  <2> QED BY <2>1 DEF Hints, Listed
<1> HIDE DEF g
<1>3. ASSUME NEW r \in Rows PROVE Cardinality(g[r]) = s[OMEGA + r] - RowStart(s, r)
  BY <1>1, RowEnds, RowSorted
<1>4. \A r \in 0 .. K : Before(g, r) = RowStart(s, r)
  <2> DEFINE T == {n \in Nat : n <= K => Before(g, n) = RowStart(s, n)}
  <2>1. 0 \in T
    BY <1>2, BeforeAll DEF RowStart
  <2>2. ASSUME NEW n \in T PROVE n + 1 \in T
    <3>1. SUFFICES ASSUME n + 1 <= K PROVE Before(g, n + 1) = RowStart(s, n + 1)
      OBVIOUS
    <3>2. n \in Rows /\ Before(g, n) = RowStart(s, n)
      BY <3>1, Sizes DEF Rows
    <3> QED BY <1>2, <1>3, <3>2, NextRow, RowEnds
  <2>3. T \subseteq Nat
    OBVIOUS
  <2> HIDE DEF T
  <2>4. T = Nat
    BY <2>1, <2>2, <2>3, Induction
  <2> QED BY <2>4, Sizes DEF T
<1>5. ASSUME NEW r \in Rows PROVE s[OMEGA + r] = Before(g, r + 1)
  BY <1>4, RowEnds, Sizes DEF Rows
<1>6. Before(g, K) <= OMEGA /\ Before(g, K) = RowStart(s, K)
  <2>1. K - 1 \in Rows /\ (K - 1) + 1 = K /\ K \in 0 .. K
    BY Sizes DEF Rows
  <2> QED BY <1>1, <1>4, <2>1, RowEnds
<1>7. ASSUME NEW r \in Rows, NEW c \in g[r] PROVE s[Place(g, r, c)] = c
  <2> DEFINE start == RowStart(s, r)
             end == s[OMEGA + r]
  <2>1. start \in Nat /\ end \in Nat /\ start <= end /\ end <= OMEGA /\ g[r] = RowOf(s, r, end)
    BY <1>1, RowEnds
  <2>2. PICK b \in start .. end - 1 : c = s[b]
    BY <2>1 DEF RowOf
  <2>3. \A x \in start .. end - 1 : s[x] \in Nat
    BY <2>1, Sizes DEF Sig, Byte
  <2>4. /\ \A x, y \in start .. end - 1 : x < y => s[x] < s[y]
        /\ \A x \in start .. end : Cardinality(RowOf(s, r, x)) = x - start
    BY <1>1, <2>1, RowSorted
  <2>5. {d \in g[r] : d < c} = RowOf(s, r, b)
    <3>1. ASSUME NEW x \in start .. end - 1 PROVE s[x] < s[b] <=> x < b
      <4>1. CASE x < b
        BY <2>2, <2>4, <4>1
      <4>2. CASE x >= b
        BY <2>1, <2>2, <2>3, <2>4, <4>2
      <4> QED BY <2>1, <2>2, <4>1, <4>2
    <3>2. start .. b - 1 = {x \in start .. end - 1 : x < b}
      BY <2>1, <2>2
    <3>3. RowOf(s, r, b) = {s[x] : x \in {e \in start .. end - 1 : e < b}}
      BY <3>2 DEF RowOf
    <3>4. g[r] = {s[x] : x \in start .. end - 1}
      BY <2>1 DEF RowOf
    <3> HIDE DEF start, end
    <3> QED BY <2>2, <3>1, <3>3, <3>4
  <2>6. Place(g, r, c) = start + (b - start)
    <3>1. b \in start .. end /\ Before(g, r) = start
      BY <1>4, <2>1, <2>2, Sizes DEF Rows
    <3> QED BY <2>4, <2>5, <3>1 DEF Place
  <2> QED BY <2>1, <2>2, <2>6
<1>8. \A b \in Before(g, K) .. OMEGA - 1 : s[b] = 0
  BY <1>6 DEF Ordered
<1> QED BY <1>2, <1>5, <1>6, <1>7, <1>8 DEF Encodes, g

(* Whatever encodes some hints is ordered and lists them: the number of    *)
(* hints of a row before each of them takes every value once, so that the  *)
(* row's bytes are all taken.                                              *)
LEMMA EncodedIsListed ==
    ASSUME NEW s \in Sig, NEW g \in Hints, Encodes(s, g)
    PROVE  Ordered(s) /\ g = Listed(s)
<1>1. ASSUME NEW r \in Rows
      PROVE  /\ RowStart(s, r) = Before(g, r)
             /\ s[OMEGA + r] = Before(g, r) + Cardinality(g[r])
             /\ Before(g, r) \in Nat /\ Cardinality(g[r]) \in Nat /\ IsFiniteSet(g[r])
             /\ s[OMEGA + r] <= OMEGA
  <2>1. r = 0 \/ (r - 1 \in Rows /\ (r - 1) + 1 = r /\ OMEGA + r - 1 = OMEGA + (r - 1))
    BY Sizes DEF Rows
  <2>2. \A q \in Rows : s[OMEGA + q] = Before(g, q + 1)
    BY DEF Encodes
  <2>3. RowStart(s, r) = Before(g, r)
    <3>1. CASE r = 0
      BY <3>1, BeforeAll DEF RowStart
    <3>2. CASE r # 0
      BY <2>1, <2>2, <3>2 DEF RowStart
    <3> QED BY <3>1, <3>2
  <2>4. Before(g, K) <= OMEGA /\ Before(g, K) \in Nat
    BY BeforeIs, Sizes DEF Encodes
  <2>5. s[OMEGA + r] <= OMEGA
    BY <2>2, <2>4, NextRow, Sizes
  <2> QED BY <2>2, <2>3, <2>5, NextRow
<1>2. ASSUME NEW r \in Rows
      PROVE  RowOrdered(s, r, s[OMEGA + r]) /\ g[r] = RowOf(s, r, s[OMEGA + r])
  <2> DEFINE start == Before(g, r)
             n == Cardinality(g[r])
             Rank(c) == Cardinality({d \in g[r] : d < c})
  <2>1. start \in Nat /\ n \in Nat /\ RowStart(s, r) = start /\ s[OMEGA + r] = start + n
        /\ start + n <= OMEGA /\ IsFiniteSet(g[r])
    BY <1>1
  <2>2. \A c \in g[r] : c \in Nat /\ c \in 0 .. N
    BY Sizes DEF Hints, Byte
  <2>3. ASSUME NEW c \in g[r] PROVE Rank(c) \in 0 .. n - 1 /\ s[start + Rank(c)] = c
    <3> DEFINE B == {d \in g[r] : d < c}
    <3>1. B \in SUBSET g[r] /\ c \notin B
      BY <2>2
    <3>2. IsFiniteSet(B) /\ Cardinality(B) \in Nat /\ Cardinality(B) <= n /\ Cardinality(B) # n
      BY <2>1, <3>1, FS_Subset, FS_CardinalityType
    <3>3. Place(g, r, c) = start + Rank(c) /\ s[Place(g, r, c)] = c
      BY DEF Place, Encodes
    <3> QED BY <2>1, <3>2, <3>3
  <2>4. ASSUME NEW c \in g[r], NEW e \in g[r], c <= e PROVE Rank(c) <= Rank(e)
    <3>1. IsFiniteSet({d \in g[r] : d < e})
      BY <2>2, PlaceIs
    <3>2. {d \in g[r] : d < c} \in SUBSET {d \in g[r] : d < e}
      BY <2>2, <2>4
    <3> QED BY <3>1, <3>2, FS_Subset
  <2> DEFINE f == [c \in g[r] |-> Rank(c)]
             Ranks == 0 .. n - 1
  <2> HIDE DEF Rank
  <2>5. f \in Injection(g[r], Ranks)
    <3>1. f \in [g[r] -> Ranks]
      BY <2>3
    <3>2. \A c, e \in g[r] : f[c] = f[e] => c = e
      BY <2>3
    <3> QED BY <3>1, <3>2 DEF Injection, IsInjective
  <2>6. IsFiniteSet(Ranks) /\ Cardinality(Ranks) = Cardinality(g[r])
    <3> DEFINE last == n - 1
    <3>1. last \in Int /\ 0 \in Int
      BY <2>1
    <3> HIDE DEF last
    <3>2. IsFiniteSet(0 .. last) /\ Cardinality(0 .. last) = IF 0 > last THEN 0 ELSE last - 0 + 1
      BY <3>1, FS_Interval
    <3> QED BY <2>1, <3>2 DEF last
  <2>7. f \in Surjection(g[r], Ranks)
    <3> HIDE DEF f, Ranks
    <3> QED BY <2>5, <2>6, FS_Injection
  <2>8. ASSUME NEW x \in Ranks PROVE \E c \in g[r] : Rank(c) = x /\ s[start + x] = c
    <3>1. PICK c \in g[r] : f[c] = x
      BY <2>7 DEF Surjection
    <3> QED BY <2>3, <3>1
  <2> HIDE DEF f, start, n
  <2>9. ASSUME NEW b \in start .. (start + n) - 1
        PROVE  s[b] \in g[r] /\ Rank(s[b]) = b - start
    <3>1. b - start \in Ranks /\ start + (b - start) = b
      BY <2>1
    <3> QED BY <2>8, <3>1
  <2>10. g[r] = RowOf(s, r, start + n)
    <3>1. \A c \in g[r] : \E b \in start .. (start + n) - 1 : s[b] = c
      <4> SUFFICES ASSUME NEW c \in g[r] PROVE \E b \in start .. (start + n) - 1 : s[b] = c
        OBVIOUS
      <4>1. start + Rank(c) \in start .. (start + n) - 1 /\ s[start + Rank(c)] = c
        BY <2>1, <2>3
      <4> QED BY <4>1
    <3> QED BY <2>1, <2>9, <3>1 DEF RowOf
  <2>11. ASSUME NEW b \in start + 1 .. (start + n) - 1 PROVE s[b - 1] < s[b]
    <3>1. b \in start .. (start + n) - 1 /\ b - 1 \in start .. (start + n) - 1
      BY <2>1
    <3>2. /\ s[b] \in g[r] /\ s[b - 1] \in g[r] /\ Rank(s[b]) = b - start
          /\ Rank(s[b - 1]) = (b - 1) - start
      BY <2>9, <3>1
    <3>3. ~(s[b] <= s[b - 1])
      BY <2>1, <2>4, <3>2
    <3> QED BY <2>2, <3>2, <3>3
  <2> QED BY <2>1, <2>10, <2>11 DEF RowOrdered
<1>3. g = Listed(s)
  BY <1>2 DEF Hints, Listed
<1>4. RowStart(s, K) = Before(g, K)
  <2>1. K - 1 \in Rows /\ (K - 1) + 1 = K
    BY Sizes DEF Rows
  <2> QED BY <2>1, RowEnds DEF Encodes
<1> QED BY <1>2, <1>3, <1>4 DEF Ordered, Encodes

-----------------------------------------------------------------------------
(* A row end, a position or a rest that is turned away is out of order.    *)
Malformed == pc = "malformed" => ~Ordered(sig)

LEMMA MalformedStep == Inv /\ Malformed /\ [Next]_vars => Malformed'
<1> SUFFICES ASSUME Inv, Malformed, [Next]_vars, pc' = "malformed" PROVE ~Ordered(sig)'
  BY DEF Malformed
<1> USE Sizes DEF Inv
<1>1. CASE UnpackRow
  <2>1. sig' = sig /\ i \in Rows /\ k = RowStart(sig, i) /\ BadRowEnd(sig[OMEGA + i], k)
    BY <1>1 DEF UnpackRow, UnpackInv, TypeOK, Rows
  <2>2. ~RowOrdered(sig, i, sig[OMEGA + i])
    <3>1. sig[OMEGA + i] \in Nat /\ RowStart(sig, i) \in Nat
      BY <2>1, RowEnds DEF TypeOK
    <3> QED BY <2>1, <3>1 DEF RowOrdered, BadRowEnd
  <2> QED BY <2>1, <2>2 DEF Ordered
<1>2. CASE UnpackPosition
  <2>1. /\ sig' = sig /\ i \in Rows /\ k = RowStart(sig, i) /\ BadOrder(j, k)
        /\ j < sig[OMEGA + i] /\ sig[OMEGA + i] <= OMEGA
    BY <1>2 DEF UnpackPosition, UnpackInv, TypeOK, Rows
  <2>2. ~RowOrdered(sig, i, sig[OMEGA + i])
    <3>1. sig[OMEGA + i] \in Nat /\ k \in Nat /\ j \in Nat
      BY <2>1, RowEnds DEF TypeOK
    <3>2. j \in k + 1 .. sig[OMEGA + i] - 1
      BY <2>1, <3>1 DEF BadOrder
    <3>3. sig[j] \in Nat /\ sig[j - 1] \in Nat
      <4>1. j \in 0 .. OMEGA + K - 1 /\ j - 1 \in 0 .. OMEGA + K - 1
        BY <2>1, <3>1, <3>2
      <4> QED BY <4>1 DEF TypeOK, Sig, Byte
    <3> QED BY <2>1, <3>2, <3>3 DEF RowOrdered, BadOrder
  <2> QED BY <2>1, <2>2 DEF Ordered
<1>3. CASE UnpackTail
  <2>1. sig' = sig /\ i = K /\ k = RowStart(sig, K) /\ k <= j /\ j < OMEGA /\ sig[j] # 0
        /\ k \in Nat /\ j \in Nat
    BY <1>3 DEF UnpackTail, UnpackInv, BadTail, TypeOK
  <2>2. j \in RowStart(sig, K) .. OMEGA - 1
    BY <2>1
  <2> QED BY <2>1, <2>2 DEF Ordered
<1>4. CASE UNCHANGED vars
  BY <1>4 DEF vars, Malformed
<1> QED BY <1>1, <1>2, <1>3, <1>4
        DEF Next, CountHints, PackPosition, PackRowEnd, Send, UnpackRowEnd, StartTail, Accept

(* Strong unforgeability's share of the decoder, exactly: a byte string is *)
(* accepted only as the encoding of what it is decoded to, and one that is *)
(* turned away encodes no hints at all.                                    *)
THEOREM OnlyCanonical == Spec => []Canonical
<1>1. Inv /\ Malformed => Canonical
  <2> SUFFICES ASSUME Inv, Malformed PROVE Canonical
    OBVIOUS
  <2>1. sig \in Sig
    BY DEF Inv, TypeOK
  <2>2. ASSUME pc = "accepted" PROVE Encodes(sig, out)
    BY <2>1, <2>2, AcceptedIsListed, OrderedEncodes
  <2>3. ASSUME pc = "malformed", NEW g \in Hints PROVE ~Encodes(sig, g)
    BY <2>1, <2>3, EncodedIsListed DEF Malformed
  <2> QED BY <2>2, <2>3 DEF Canonical
<1>2. Init => Malformed
  BY DEF Init, Malformed
<1> QED BY <1>1, <1>2, Invariance, MalformedStep, PTL DEF Spec

-----------------------------------------------------------------------------
(* What pack_sig has written: each one passed at its place, the ends of    *)
(* the rows passed, and zeros behind.                                      *)
Written ==
    /\ pc = "count" => \A b \in 0 .. OMEGA - 1 : sig[b] = 0
    /\ pc = "pack" =>
           /\ \A r \in Rows : r < i => sig[OMEGA + r] = Before(h, r + 1)
           /\ \A p \in Passed : sig[Place(h, p[1], p[2])] = p[2]
           /\ \A b \in k .. OMEGA - 1 : sig[b] = 0

(* The place of a one that was passed lies before the next free byte. *)
LEMMA PlaceTaken ==
    ASSUME Inv, pc = "pack", NEW p \in Passed
    PROVE  Place(h, p[1], p[2]) \in 0 .. k - 1 /\ k <= OMEGA /\ k \in Nat
<1> USE Sizes DEF Inv
<1> DEFINE E == Earlier(h, p[1], p[2])
<1>1. h \in Hints /\ p \in Ones(h) /\ p[1] \in Rows /\ p[2] \in 0 .. N /\ p[1] \in Nat /\ p[2] \in Nat
      /\ i \in Nat /\ j \in Nat
  BY DEF Passed, Ones, Rows, Byte, TypeOK
<1>2. E \subseteq Passed /\ p \notin E
  <2>1. \A q \in Ones(h) : q[1] \in Nat /\ q[2] \in Nat
    BY DEF Ones, Rows, Byte
  <2>2. p[1] < i \/ (p[1] = i /\ p[2] < j)
    BY DEF Passed
  <2>3. \A q \in E : q \in Passed
    BY <1>1, <2>1, <2>2 DEF Earlier, Passed
  <2> QED BY <1>1, <2>3 DEF Earlier
<1>3. Place(h, p[1], p[2]) = Cardinality(E) /\ Cardinality(E) \in Nat
  BY <1>1, PlaceIs, EarlierFinite
<1> HIDE DEF E
<1>4. Cardinality(E) <= Cardinality(Passed) /\ Cardinality(E) # Cardinality(Passed)
  <2>1. IsFiniteSet(Passed) /\ Cardinality(Passed) \in Nat
    BY PassedFinite
  <2> QED BY <1>2, <2>1, FS_Subset
<1> QED BY <1>3, <1>4 DEF PackInv, TypeOK

LEMMA WrittenStep == Inv /\ Written /\ [Next]_vars => Written'
<1> SUFFICES ASSUME Inv, Written, [Next]_vars PROVE Written'
  OBVIOUS
<1> USE Sizes DEF Inv
<1>1. CASE CountHints
  <2>1. pc = "count" /\ pc' # "count" /\ UNCHANGED <<h, sig, i, j, k>> /\ i = 0 /\ j = 0 /\ k = 0
    BY <1>1 DEF CountHints, CountInv
  <2>2. Passed' = {}
    BY <2>1 DEF Passed, Ones, Rows, Byte
  <2> QED BY <2>1, <2>2 DEF Written, Rows
<1>2. CASE PackPosition
  <2>1. pc = "pack" /\ pc' = "pack" /\ h' = h /\ i' = i /\ j' = j + 1 /\ i \in Rows /\ j \in Byte
        /\ k \in Nat /\ sig \in Sig /\ h \in Hints
    BY <1>2 DEF PackPosition, TypeOK, Rows, Byte
  <2>2. CASE j \in h[i]
    <3>1. Passed' = Passed \cup {<<i, j>>}
      BY <2>1, <2>2 DEF Passed, Ones, TypeOK, Rows, Byte
    <3>2. k' = k + 1 /\ sig' = [sig EXCEPT ![k] = j] /\ k < OMEGA
      <4>1. StaysInPositions
        BY Room
      <4> QED BY <1>2, <2>1, <2>2, <4>1 DEF PackPosition, StaysInPositions
    <3>3. DOMAIN sig = 0 .. OMEGA + K - 1
      BY <2>1 DEF Sig
    <3>4. ASSUME NEW r \in Rows, r < i PROVE sig'[OMEGA + r] = Before(h, r + 1)
      <4>1. OMEGA + r \in 0 .. OMEGA + K - 1 /\ OMEGA + r # k
        BY <3>2 DEF Rows
      <4> QED BY <2>1, <3>2, <3>3, <3>4, <4>1 DEF Written
    <3>5. ASSUME NEW p \in Passed PROVE sig'[Place(h, p[1], p[2])] = p[2]
      <4>1. Place(h, p[1], p[2]) \in 0 .. k - 1
        BY <2>1, PlaceTaken
      <4>2. sig[Place(h, p[1], p[2])] = p[2]
        BY <2>1 DEF Written
      <4> QED BY <3>2, <3>3, <2>1, <4>1, <4>2
    <3>6. sig'[Place(h, i, j)] = j
      <4>1. Passed = Earlier(h, i, j)
        BY DEF Passed, Earlier
      <4>2. j \in 0 .. N
        BY <2>1 DEF Byte
      <4>3. Place(h, i, j) = k
        BY <2>1, <4>1, <4>2, PlaceIs DEF PackInv
      <4> QED BY <2>1, <3>2, <3>3, <4>3
    <3>7. ASSUME NEW b \in k + 1 .. OMEGA - 1 PROVE sig'[b] = 0
      <4>1. b \in k .. OMEGA - 1 /\ b # k /\ b \in 0 .. OMEGA + K - 1
        BY <2>1
      <4> QED BY <2>1, <3>2, <3>3, <4>1 DEF Written
    <3>8. \A p \in Passed' : sig'[Place(h, p[1], p[2])] = p[2]
      BY <3>1, <3>5, <3>6
    <3> QED BY <2>1, <3>2, <3>4, <3>7, <3>8 DEF Written
  <2>3. CASE j \notin h[i]
    <3>1. Passed' = Passed /\ UNCHANGED <<sig, k>>
      BY <1>2, <2>1, <2>3 DEF PackPosition, Passed, Ones, TypeOK, Rows, Byte
    <3> QED BY <2>1, <3>1 DEF Written
  <2> QED BY <2>2, <2>3
<1>3. CASE PackRowEnd
  <2>1. pc = "pack" /\ pc' = "pack" /\ h' = h /\ i' = i + 1 /\ j' = 0 /\ k' = k /\ j = N /\ i \in Rows
        /\ sig' = [sig EXCEPT ![OMEGA + i] = k] /\ k \in Nat /\ k <= OMEGA /\ h \in Hints
        /\ DOMAIN sig = 0 .. OMEGA + K - 1 /\ i \in Nat
    BY <1>3 DEF PackRowEnd, TypeOK, Rows, Sig
  <2>2. Passed' = Passed
    BY <2>1 DEF Passed, Ones, TypeOK, Rows, Byte
  <2>3. Before(h, i + 1) = k
    <3>1. Passed = Earlier(h, i, N)
      BY <2>1 DEF Passed, Earlier
    <3> QED BY <2>1, <3>1, RowAfterRow, BeforeIs DEF PackInv
  <2>4. ASSUME NEW r \in Rows, r < i + 1 PROVE sig'[OMEGA + r] = Before(h, r + 1)
    <3>1. OMEGA + r \in 0 .. OMEGA + K - 1 /\ (r = i \/ (r < i /\ OMEGA + r # OMEGA + i))
      BY <2>1, <2>4 DEF Rows
    <3> QED BY <2>1, <2>3, <3>1 DEF Written
  <2>5. ASSUME NEW p \in Passed PROVE sig'[Place(h, p[1], p[2])] = p[2]
    <3>1. Place(h, p[1], p[2]) \in 0 .. OMEGA + K - 1 /\ Place(h, p[1], p[2]) < OMEGA
      BY <2>1, PlaceTaken
    <3>2. OMEGA + i >= OMEGA
      BY <2>1
    <3>3. sig[Place(h, p[1], p[2])] = p[2]
      BY <2>1 DEF Written
    <3> QED BY <2>1, <3>1, <3>2, <3>3
  <2>6. ASSUME NEW b \in k .. OMEGA - 1 PROVE sig'[b] = 0
    <3>1. b \in 0 .. OMEGA + K - 1 /\ b # OMEGA + i
      BY <2>1
    <3> QED BY <2>1, <3>1 DEF Written
  <2> QED BY <2>1, <2>2, <2>4, <2>5, <2>6 DEF Written
<1>4. CASE UNCHANGED vars
  <2>1. Passed' = Passed
    BY <1>4 DEF vars, Passed, Ones
  <2> QED BY <1>4, <2>1 DEF vars, Written
<1>5. CASE pc' \notin {"count", "pack"}
  BY <1>5 DEF Written
<1> QED BY <1>1, <1>2, <1>3, <1>4, <1>5
        DEF Next, Send, UnpackRow, UnpackPosition, UnpackRowEnd, StartTail,
            UnpackTail, Accept

(* What the signer sends encodes its hints, and nothing else would be      *)
(* decoded from it: they reach the verifier whole.                         *)
THEOREM HintsArrive == Spec => RoundTrip
<1> DEFINE Sent == pc = "pack" /\ pc' = "row" => Encodes(sig, h)
           Got == pc' = "accepted" /\ Encodes(sig, h) => out = h
<1>1. Inv /\ Written /\ [Next]_vars => [Sent /\ Got]_vars
  <2> SUFFICES ASSUME Inv, Written, [Next]_vars, vars' # vars PROVE Sent /\ Got
    OBVIOUS
  <2> USE Sizes DEF Inv
  <2>1. sig \in Sig /\ h \in Hints /\ k \in Nat
    BY DEF TypeOK
  <2>2. ASSUME pc = "pack", pc' = "row" PROVE Encodes(sig, h)
    <3>1. i = K
      BY <2>2 DEF Next, CountHints, PackPosition, PackRowEnd, Send, UnpackRow, UnpackPosition,
                  UnpackRowEnd, StartTail, UnpackTail, Accept, vars
    <3>2. Passed = Ones(h)
      BY <3>1 DEF Passed, Ones, Rows
    <3>3. Before(h, K) = k /\ k <= OMEGA
      <4>1. HintCount = Cardinality(Ones(h))
        BY DEF HintCount, Ones
      <4> QED BY <2>1, <2>2, <3>2, <4>1, BeforeAll DEF PackInv
    <3>4. \A r \in Rows : sig[OMEGA + r] = Before(h, r + 1)
      BY <2>2, <3>1 DEF Written, Rows
    <3>5. ASSUME NEW r \in Rows, NEW c \in h[r] PROVE sig[Place(h, r, c)] = c
      <4>1. <<r, c>> \in Passed
        BY <2>1, <3>2 DEF Ones, Hints
      <4> QED BY <2>2, <4>1 DEF Written
    <3> QED BY <2>2, <3>3, <3>4, <3>5 DEF Encodes, Written
  <2>3. ASSUME pc' = "accepted", Encodes(sig, h) PROVE out = h
    <3>1. Accept
      BY <2>3 DEF Next, CountHints, PackPosition, PackRowEnd, Send, UnpackRow, UnpackPosition,
                  UnpackRowEnd, StartTail, UnpackTail, vars
    <3>2. pc = "tail" /\ i = K /\ \A r \in Rows : RowDone(r)
      BY <3>1 DEF Accept, UnpackInv, Rows
    <3>3. out = Listed(sig)
      BY <3>2 DEF RowDone, Listed, TypeOK, Hints
    <3> QED BY <2>1, <2>3, <3>3, EncodedIsListed
  <2> QED BY <2>2, <2>3
<1>2. Init => Written
  BY Sizes DEF Init, Written
<1> QED BY <1>1, <1>2, Invariance, WrittenStep, PTL DEF Spec, RoundTrip

-----------------------------------------------------------------------------
(***************************************************************************)
(* A challenge has TAU coefficients that are not zero, for every degree    *)
(* and weight: each draw makes one of them, because what it overwrites has *)
(* first been moved to a place that was free.                              *)
(***************************************************************************)

DrawInv == free \in Degree - TAU .. Degree /\ signs \in Draw!Signs /\ Draw!Weight

LEMMA ChallengeSizes == /\ Degree \in Nat /\ TAU \in Nat /\ TAU <= Degree
                        /\ SignBytes \in Nat /\ RATE \in Nat
BY SamplersAssumption DEF Draw!ChallengeAssumption

(* The instance counts with an operator of its own. *)
LEMMA CountsAlike == \A S : Draw!Cardinality(S) = Cardinality(S)
BY DEF Draw!Cardinality, Cardinality

(* The positions are finitely many, so those in use can be counted. *)
LEMMA PlacesFinite == ASSUME NEW d PROVE IsFiniteSet({y \in Draw!Index : d[y] # 0})
<1>1. IsFiniteSet(Draw!Index) BY FS_Interval, ChallengeSizes DEF Draw!Index
<1> QED BY <1>1, FS_Subset

(* What a draw leaves at each position. *)
LEMMA ShuffleAt ==
    ASSUME NEW d \in [Draw!Index -> {-1, 0, 1}], NEW y \in Draw!Index, NEW b \in Draw!Index,
           NEW sign \in {1, -1}
    PROVE /\ Draw!Shuffle(d, y, b, sign) \in [Draw!Index -> {-1, 0, 1}]
          /\ \A x \in Draw!Index : Draw!Shuffle(d, y, b, sign)[x] =
                 IF x = b THEN sign ELSE IF x = y THEN d[b] ELSE d[x]
BY DEF Draw!Shuffle

LEMMA DrawInit == Draw!Init => DrawInv
<1> SUFFICES ASSUME Draw!Init PROVE DrawInv
    OBVIOUS
<1>1. Draw!NonZero = {} BY DEF Draw!Init, Draw!NonZero
<1>2. Cardinality(Draw!NonZero) = 0 BY <1>1, FS_EmptySet
<1>3. free = Degree - TAU /\ free \in Degree - TAU .. Degree BY ChallengeSizes DEF Draw!Init
<1>4. poly \in [Draw!Index -> {-1, 0, 1}] BY DEF Draw!Init
<1>5. Cardinality(Draw!NonZero) = free - (Degree - TAU)
    BY <1>2, <1>3, ChallengeSizes
<1>6. Draw!Weight
    BY <1>1, <1>4, <1>5, CountsAlike DEF Draw!Weight
<1>7. signs \in Draw!Signs
    BY DEF Draw!Init
<1> QED BY <1>3, <1>6, <1>7 DEF DrawInv

(* A draw fills exactly one more place: the next if something was moved    *)
(* there, the drawn position if nothing was.                               *)
LEMMA PlaceDraw == ASSUME DrawInv, NEW b \in Draw!Index, Draw!Place(b) PROVE DrawInv'
<1>1. free \in Draw!Index /\ free \in Draw!Drawn /\ b <= free
    BY ChallengeSizes DEF DrawInv, Draw!Place, Draw!TooLarge, Draw!Index, Draw!Drawn
<1>2. poly \in [Draw!Index -> {-1, 0, 1}] /\ signs[free] \in {1, -1}
    BY <1>1 DEF DrawInv, Draw!Weight, Draw!Signs
<1>3. poly' = Draw!Shuffle(poly, free, b, signs[free]) /\ free' = free + 1 /\ signs' = signs
    BY DEF Draw!Place
<1>4. /\ poly' \in [Draw!Index -> {-1, 0, 1}]
      /\ \A x \in Draw!Index : poly'[x] = IF x = b THEN signs[free]
                                           ELSE IF x = free THEN poly[b] ELSE poly[x]
    BY <1>1, <1>2, <1>3, ShuffleAt
<1>5. poly[free] = 0
    BY <1>1 DEF DrawInv, Draw!Weight, Draw!NonZero, Draw!Index
<1> DEFINE place == IF poly[b] = 0 THEN b ELSE free
<1>6. place \in Draw!Index /\ place \notin Draw!NonZero /\ place <= free
    BY <1>1, <1>5 DEF Draw!NonZero, Draw!Index
<1>7. Draw!NonZero' = Draw!NonZero \cup {place}
  <2>1. ASSUME NEW x \in Draw!Index PROVE poly'[x] # 0 <=> poly[x] # 0 \/ x = place
    BY <1>2, <1>4, <1>5, <1>1
  <2> QED BY <2>1, <1>6 DEF Draw!NonZero
<1>8. Cardinality(Draw!NonZero)' = Cardinality(Draw!NonZero) + 1
    BY <1>6, <1>7, FS_AddElement, PlacesFinite DEF Draw!NonZero
<1>9. \A y \in Draw!NonZero' : y < free'
    BY <1>1, <1>3, <1>6, <1>7, ChallengeSizes DEF DrawInv, Draw!Weight, Draw!NonZero, Draw!Index
<1>10. free' \in Degree - TAU .. Degree /\ signs' \in Draw!Signs
    BY <1>1, <1>3, ChallengeSizes DEF DrawInv, Draw!Index
<1> QED
    BY <1>3, <1>4, <1>8, <1>9, <1>10, ChallengeSizes, CountsAlike DEF DrawInv, Draw!Weight

LEMMA DrawNext == DrawInv /\ [Draw!Next]_challengeVars => DrawInv'
<1> SUFFICES ASSUME DrawInv, [Draw!Next]_challengeVars PROVE DrawInv'
    OBVIOUS
<1>1. ASSUME NEW b \in Draw!Index, Draw!DropByte(b) PROVE DrawInv'
    BY <1>1 DEF Draw!DropByte, DrawInv, Draw!Weight, Draw!NonZero
<1>2. ASSUME NEW b \in Draw!Index, Draw!Place(b) PROVE DrawInv'
    BY <1>2, PlaceDraw
<1>3. CASE UNCHANGED challengeVars
    BY <1>3 DEF challengeVars, DrawInv, Draw!Weight, Draw!NonZero
<1> QED BY <1>1, <1>2, <1>3 DEF Draw!Next

LEMMA DrawsInvariant == MCSpec => []DrawInv
<1>1. MCInit => DrawInv
  BY DrawInit DEF MCInit, NoChallenge
<1>2. DrawInv /\ [MCNext]_<<running, challengeVars, rejVars, fixedVars, groupVars>> => DrawInv'
  <2>1. [MCNext]_<<running, challengeVars, rejVars, fixedVars, groupVars>>
            => [Draw!Next]_challengeVars
    BY DEF MCNext
  <2> QED  BY <2>1, DrawNext
<1> QED  BY <1>1, <1>2, PTL DEF MCSpec

(* After each draw of poly_challenge one more coefficient is not zero, and *)
(* none beyond the next; after the last one there are TAU of them.         *)
THEOREM WeightIsDraws == MCSpec => []Weight
<1>1. DrawInv => Weight
  BY DEF DrawInv, Weight
<1> QED  BY <1>1, DrawsInvariant, PTL

-----------------------------------------------------------------------------
(***************************************************************************)
(* What a sampler with refills takes is the stream's, for all sizes.       *)
(***************************************************************************)
LEMMA RejSizes ==
    /\ Coefficients \in Nat /\ Coefficients > 0 /\ Refills \in Nat /\ CounterRange \in Nat
    /\ Refills < CounterRange /\ Block["gen_matrix"] % 3 = 0
    /\ \A f \in Rej!Samplers : Block[f] \in Nat /\ Block[f] > 0 /\ NBlocks[f] \in Nat /\ NBlocks[f] > 0
BY SamplersAssumption DEF Rej!SamplerAssumption

Bytes == Nat \X Nat

(* What was squeezed up to a round. *)
IsStream(s, f) ==
    /\ s[0] = Rej!Output(0, NBlocks[f] * Block[f])
    /\ \A r \in 1 .. Refills : s[r] = s[r - 1] \o Rej!Output(r, Block[f])

LEMMA OutputIs ==
    ASSUME NEW r \in Nat, NEW n \in Nat
    PROVE  /\ Rej!Output(r, n) \in Seq(Bytes) /\ Len(Rej!Output(r, n)) = n
           /\ \A x \in 1 .. n : Rej!Output(r, n)[x] = <<r, x>>
BY DEF Rej!Output, Bytes

(* What makes the next value of the last. *)
Advances(m, S) == [(1 .. m) \X S -> S]

(* A function that is defined by recursion exists. *)
LEMMA RecursionExists ==
    ASSUME NEW S, NEW base \in S, NEW m \in Nat, NEW next \in Advances(m, S)
    PROVE  \E f \in [0 .. m -> S] : f[0] = base /\ \A n \in 1 .. m : f[n] = next[<<n, f[n - 1]>>]
<1> DEFINE Good(n, f) == f[0] = base /\ \A x \in 1 .. n : f[x] = next[<<x, f[x - 1]>>]
           T == {n \in Nat : n <= m => \E f \in [0 .. n -> S] : Good(n, f)}
<1>1. 0 \in T
  <2>1. [x \in 0 .. 0 |-> base] \in [0 .. 0 -> S] /\ Good(0, [x \in 0 .. 0 |-> base])
    OBVIOUS
  <2> QED  BY <2>1
<1>2. ASSUME NEW n \in T PROVE n + 1 \in T
  <2>1. n \in Nat /\ n + 1 \in Nat
    OBVIOUS
  <2>2. ASSUME n + 1 <= m PROVE \E f \in [0 .. n + 1 -> S] : Good(n + 1, f)
    <3>1. PICK f \in [0 .. n -> S] : Good(n, f)
      BY <2>1, <2>2
    <3> DEFINE last == next[<<n + 1, f[n]>>]
               g == [x \in 0 .. n + 1 |-> IF x = n + 1 THEN last ELSE f[x]]
    <3>2. last \in S
      <4>1. <<n + 1, f[n]>> \in (1 .. m) \X S
        BY <2>1, <2>2
      <4> QED  BY <4>1 DEF Advances
    <3>3. (\A x \in 0 .. n : g[x] = f[x]) /\ g[n + 1] = last
      BY <2>1
    <3>4. g \in [0 .. n + 1 -> S]
      <4> HIDE DEF last
      <4> QED  BY <2>1, <3>2
    <3> HIDE DEF g
    <3>5. ASSUME NEW x \in 1 .. n + 1 PROVE g[x] = next[<<x, g[x - 1]>>]
      <4>1. CASE x = n + 1
        <5>1. x - 1 = n /\ n \in 0 .. n
          BY <2>1, <4>1
        <5> QED  BY <3>3, <4>1, <5>1
      <4>2. CASE x # n + 1
        <5>1. x \in 1 .. n /\ x \in 0 .. n /\ x - 1 \in 0 .. n
          BY <2>1, <4>2
        <5> QED  BY <3>1, <3>3, <5>1
      <4> QED  BY <4>1, <4>2
    <3>6. g[0] = base
      BY <2>1, <3>1, <3>3
    <3> QED  BY <3>4, <3>5, <3>6
  <2> QED  BY <2>1, <2>2
<1>3. T = Nat
  <2> HIDE DEF T
  <2>1. T \subseteq Nat
    BY DEF T
  <2> QED  BY <1>1, <1>2, <2>1, Induction
<1>4. \E f \in [0 .. m -> S] : Good(m, f)
  <2> HIDE DEF Good
  <2> QED  BY <1>3
<1> QED  BY <1>4

(* The stream is the last of them. *)
LEMMA StreamIs ==
    ASSUME NEW f \in Rej!Samplers
    PROVE  \E s : IsStream(s, f) /\ Rej!Stream(f) = s[Refills]
<1> DEFINE first == Rej!Output(0, NBlocks[f] * Block[f])
           Is(g) == g = [r \in 0 .. Refills |->
                            IF r = 0 THEN first ELSE g[r - 1] \o Rej!Output(r, Block[f])]
           next == [p \in (1 .. Refills) \X Seq(Bytes) |-> p[2] \o Rej!Output(p[1], Block[f])]
<1>0. Block[f] \in Nat /\ NBlocks[f] \in Nat /\ Refills \in Nat
  BY RejSizes
<1>1. first \in Seq(Bytes)
  <2>1. NBlocks[f] * Block[f] \in Nat
    BY <1>0
  <2> QED  BY <2>1, OutputIs
<1>2. next \in [(1 .. Refills) \X Seq(Bytes) -> Seq(Bytes)]
  <2>1. ASSUME NEW p \in (1 .. Refills) \X Seq(Bytes)
        PROVE  p[2] \o Rej!Output(p[1], Block[f]) \in Seq(Bytes)
    <3>1. p[2] \in Seq(Bytes) /\ p[1] \in Nat
      BY <1>0
    <3>2. Rej!Output(p[1], Block[f]) \in Seq(Bytes)
      BY <1>0, <3>1, OutputIs
    <3> QED  BY <3>1, <3>2
  <2> QED  BY <2>1
<1>3. PICK g \in [0 .. Refills -> Seq(Bytes)] :
          g[0] = first /\ \A n \in 1 .. Refills : g[n] = next[<<n, g[n - 1]>>]
  <2> HIDE DEF first, next
  <2>0. PICK S : S = Seq(Bytes)
    OBVIOUS
  <2>1. PICK base \in S : base = first
    BY <1>1, <2>0
  <2>2. PICK advance \in Advances(Refills, S) : advance = next
    BY <1>2, <2>0 DEF Advances
  <2>3. \E g \in [0 .. Refills -> S] :
            g[0] = base /\ \A n \in 1 .. Refills : g[n] = advance[<<n, g[n - 1]>>]
    BY <1>0, RecursionExists
  <2> QED  BY <2>0, <2>1, <2>2, <2>3
<1>4. Is(g)
  <2>1. ASSUME NEW r \in 1 .. Refills PROVE g[r] = g[r - 1] \o Rej!Output(r, Block[f])
    <3>1. <<r, g[r - 1]>> \in (1 .. Refills) \X Seq(Bytes)
      BY <1>0, <1>3
    <3> QED  BY <1>3, <3>1
  <2> HIDE DEF first
  <2>2. \A r \in 0 .. Refills :
            g[r] = IF r = 0 THEN first ELSE g[r - 1] \o Rej!Output(r, Block[f])
    <3>1. g[0] = first
      BY <1>3
    <3>2. \A r \in 0 .. Refills : r = 0 \/ r \in 1 .. Refills
      BY <1>0
    <3> QED  BY <2>1, <3>1, <3>2
  <2> QED  BY <1>3, <2>2
<1> DEFINE s == CHOOSE u : Is(u)
<1> HIDE DEF Is
<1>5. Is(s)
  BY <1>4
<1>6. Rej!Stream(f) = s[Refills]
  BY DEF Rej!Stream, Is
<1> HIDE DEF s
<1>7. IsStream(s, f)
  <2>1. \A r \in 0 .. Refills :
            s[r] = IF r = 0 THEN first ELSE s[r - 1] \o Rej!Output(r, Block[f])
    BY <1>5 DEF Is
  <2>2. \A r \in 1 .. Refills : r \in 0 .. Refills /\ r # 0
    BY <1>0
  <2>3. 0 \in 0 .. Refills
    BY <1>0
  <2> QED  BY <2>1, <2>2, <2>3 DEF IsStream
<1> QED  BY <1>6, <1>7

(* Length of what was squeezed by then. *)
Squeezed(f, r) == (NBlocks[f] + r) * Block[f]

LEMMA SqueezedIs ==
    ASSUME NEW f \in Rej!Samplers, NEW r \in Nat
    PROVE  /\ Squeezed(f, r) \in Nat /\ Squeezed(f, r + 1) = Squeezed(f, r) + Block[f]
           /\ Squeezed(f, 0) = NBlocks[f] * Block[f]
           /\ Squeezed(f, 0) <= Squeezed(f, r)
           /\ \A q \in Nat : r <= q => Squeezed(f, r) <= Squeezed(f, q)
<1>1. PICK b \in Nat, z \in Nat : b = Block[f] /\ z = NBlocks[f]
  BY RejSizes
<1>2. (z + (r + 1)) * b = (z + r) * b + b /\ (z + r) * b \in Nat /\ (z + 0) * b = z * b
  OBVIOUS
<1>3. z * b <= (z + r) * b
  <2>1. (z + r) * b = z * b + r * b /\ r * b \in Nat /\ z * b \in Nat
    OBVIOUS
  <2> QED  BY <2>1
<1>4. ASSUME NEW q \in Nat, r <= q PROVE (z + r) * b <= (z + q) * b
  <2> DEFINE more == q - r
  <2>1. more \in Nat /\ q = r + more
    BY <1>4
  <2> HIDE DEF more
  <2>2. (z + (r + more)) * b = (z + r) * b + more * b
    BY <2>1
  <2>3. (z + r) * b \in Nat /\ more * b \in Nat
    BY <2>1
  <2> QED  BY <2>1, <2>2, <2>3
<1> QED  BY <1>1, <1>2, <1>3, <1>4 DEF Squeezed

(* Where a byte is in the stream. *)
LEMMA StreamHas ==
    ASSUME NEW f \in Rej!Samplers
    PROVE  /\ Rej!Stream(f) \in Seq(Bytes) /\ Len(Rej!Stream(f)) = Squeezed(f, Refills)
           /\ \A x \in 1 .. Squeezed(f, 0) : Rej!Stream(f)[x] = <<0, x>>
           /\ \A r \in 1 .. Refills, x \in 1 .. Block[f] :
                  Rej!Stream(f)[Squeezed(f, r - 1) + x] = <<r, x>>
<1>0. Block[f] \in Nat /\ NBlocks[f] \in Nat /\ Refills \in Nat
  BY RejSizes
<1>1. PICK s : IsStream(s, f) /\ Rej!Stream(f) = s[Refills]
  BY StreamIs
<1> DEFINE Has(r) ==
        /\ s[r] \in Seq(Bytes) /\ Len(s[r]) = Squeezed(f, r)
        /\ \A x \in 1 .. Squeezed(f, 0) : s[r][x] = <<0, x>>
        /\ \A q \in 1 .. r, x \in 1 .. Block[f] : s[r][Squeezed(f, q - 1) + x] = <<q, x>>
           T == {n \in Nat : n <= Refills => Has(n)}
<1>2. 0 \in T
  <2>1. s[0] = Rej!Output(0, Squeezed(f, 0)) /\ Squeezed(f, 0) \in Nat
    BY <1>1, SqueezedIs DEF IsStream
  <2>2. Has(0)
    <3>1. \A q \in 1 .. 0 : FALSE
      OBVIOUS
    <3>2. /\ s[0] \in Seq(Bytes) /\ Len(s[0]) = Squeezed(f, 0)
          /\ \A x \in 1 .. Squeezed(f, 0) : s[0][x] = <<0, x>>
      BY <2>1, OutputIs
    <3> QED  BY <3>1, <3>2
  <2> HIDE DEF Has
  <2> QED  BY <2>2
<1>3. ASSUME NEW n \in T PROVE n + 1 \in T
  <2>1. n \in Nat /\ n + 1 \in Nat
    OBVIOUS
  <2>2. ASSUME n + 1 <= Refills PROVE Has(n + 1)
    <3>1. Has(n)
      <4>1. n <= Refills
        BY <1>0, <2>1, <2>2
      <4> HIDE DEF Has
      <4> QED  BY <2>1, <4>1
    <3>2. s[n + 1] = s[n] \o Rej!Output(n + 1, Block[f])
      <4>1. n + 1 \in 1 .. Refills /\ (n + 1) - 1 = n
        BY <2>1, <2>2
      <4> QED  BY <1>1, <4>1 DEF IsStream
    <3> DEFINE o == Rej!Output(n + 1, Block[f])
    <3>3. o \in Seq(Bytes) /\ Len(o) = Block[f] /\ \A x \in 1 .. Block[f] : o[x] = <<n + 1, x>>
      BY <1>0, <2>1, OutputIs
    <3>9. s[n + 1] = s[n] \o o
      BY <3>2
    <3> HIDE DEF o
    <3>10. s[n] \in Seq(Bytes) /\ Len(s[n]) = Squeezed(f, n)
      BY <3>1
    <3>4. Squeezed(f, n + 1) = Squeezed(f, n) + Block[f] /\ Squeezed(f, n) \in Nat
          /\ Squeezed(f, 0) <= Squeezed(f, n) /\ Squeezed(f, 0) \in Nat
      BY <2>1, SqueezedIs
    <3>11. PICK u \in Seq(Bytes), v \in Seq(Bytes) : u = s[n] /\ v = o
      BY <3>3, <3>10
    <3>12. /\ u \o v \in Seq(Bytes) /\ Len(u \o v) = Len(u) + Len(v)
           /\ \A x \in 1 .. Len(u) : (u \o v)[x] = u[x]
           /\ \A x \in 1 .. Len(v) : (u \o v)[Len(u) + x] = v[x]
      OBVIOUS
    <3>5. s[n + 1] \in Seq(Bytes) /\ Len(s[n + 1]) = Squeezed(f, n + 1)
      BY <3>3, <3>4, <3>9, <3>10, <3>11, <3>12
    <3>6. /\ \A x \in 1 .. Squeezed(f, n) : s[n + 1][x] = s[n][x]
          /\ \A x \in 1 .. Block[f] : s[n + 1][Squeezed(f, n) + x] = <<n + 1, x>>
      BY <3>3, <3>4, <3>9, <3>10, <3>11, <3>12
    <3>7. \A x \in 1 .. Squeezed(f, 0) : s[n + 1][x] = <<0, x>>
      BY <3>1, <3>4, <3>6
    <3>8. ASSUME NEW q \in 1 .. n + 1, NEW x \in 1 .. Block[f]
          PROVE  s[n + 1][Squeezed(f, q - 1) + x] = <<q, x>>
      <4>1. CASE q = n + 1
        BY <2>1, <3>6, <4>1
      <4>2. CASE q # n + 1
        <5>1. q \in 1 .. n /\ q - 1 \in Nat /\ (q - 1) + 1 = q /\ q <= n
          BY <2>1, <4>2
        <5>2. Squeezed(f, q) = Squeezed(f, q - 1) + Block[f] /\ Squeezed(f, q - 1) \in Nat
          BY <5>1, SqueezedIs
        <5>3. Squeezed(f, q) <= Squeezed(f, n)
          BY <2>1, <5>1, SqueezedIs
        <5>4. Squeezed(f, q - 1) + x \in 1 .. Squeezed(f, n)
          BY <1>0, <3>4, <5>2, <5>3
        <5>5. s[n][Squeezed(f, q - 1) + x] = <<q, x>>
          BY <3>1, <5>1
        <5> QED  BY <3>6, <5>4, <5>5
      <4> QED  BY <4>1, <4>2
    <3> QED  BY <3>5, <3>7, <3>8
  <2> QED  BY <2>1, <2>2
<1>4. T = Nat
  <2> HIDE DEF T
  <2>1. T \subseteq Nat
    BY DEF T
  <2> QED  BY <1>2, <1>3, <2>1, Induction
<1>5. Has(Refills)
  <2> HIDE DEF Has
  <2> QED  BY <1>0, <1>4
<1> QED  BY <1>1, <1>5

-----------------------------------------------------------------------------
(* How many bytes make how many candidates. *)
LEMMA UnitIs ==
    ASSUME NEW f \in Rej!Samplers
    PROVE  \/ f = "poly_uniform" /\ Rej!Unit(f) = 3 /\ Rej!Halves(f) = 1
           \/ f = "poly_uniform_eta" /\ Rej!Unit(f) = 1 /\ Rej!Halves(f) = 2
           \/ f = "gen_matrix" /\ Rej!Unit(f) = 3 /\ Rej!Halves(f) = 2
BY DEF Rej!Samplers, Rej!Unit, Rej!Halves

LEMMA CandidateIs ==
    ASSUME NEW f \in Rej!Samplers, NEW u \in Nat, NEW half \in 0 .. Rej!Halves(f) - 1,
           Rej!Unit(f) * (u + 1) <= Squeezed(f, Refills)
    PROVE  /\ Rej!Halves(f) * u + half + 1 \in DOMAIN Rej!StreamCandidates(f)
           /\ DOMAIN Rej!StreamCandidates(f) = 1 .. Len(Rej!StreamCandidates(f))
           /\ Len(Rej!StreamCandidates(f)) \in Nat
           /\ Rej!StreamCandidates(f)[Rej!Halves(f) * u + half + 1] =
                  Rej!Candidate(SubSeq(Rej!Stream(f), Rej!Unit(f) * u + 1, Rej!Unit(f) * (u + 1)), half)
<1>1. PICK st : st = Rej!Stream(f)
  OBVIOUS
<1>2. PICK all \in Nat, bytes \in Nat, many \in Nat, size \in Nat :
          /\ bytes = Rej!Unit(f) /\ many = Rej!Halves(f) /\ size = Len(st)
          /\ all = (size \div bytes) * many
          /\ bytes * (u + 1) <= size
          /\ (bytes = 3 /\ many = 1) \/ (bytes = 1 /\ many = 2) \/ (bytes = 3 /\ many = 2)
  <2>1. Len(st) = Squeezed(f, Refills) /\ Len(st) \in Nat
    BY <1>1, StreamHas, SqueezedIs, RejSizes
  <2>2. \/ Rej!Unit(f) = 3 /\ Rej!Halves(f) = 1
        \/ Rej!Unit(f) = 1 /\ Rej!Halves(f) = 2
        \/ Rej!Unit(f) = 3 /\ Rej!Halves(f) = 2
    BY UnitIs
  <2>3. (Len(st) \div Rej!Unit(f)) * Rej!Halves(f) \in Nat
    BY <2>1, <2>2
  <2>4. Rej!Unit(f) \in Nat /\ Rej!Halves(f) \in Nat
    BY <2>2
  <2> QED  BY <2>1, <2>2, <2>3, <2>4
<1> DEFINE cut(e) == SubSeq(st, e * bytes + 1, (e + 1) * bytes)
           c == many * u + half + 1
<1>3. Rej!StreamCandidates(f) =
          [d \in 1 .. all |-> Rej!Candidate(cut((d - 1) \div many), (d - 1) % many)]
  BY <1>1, <1>2 DEF Rej!StreamCandidates
<1>4. half \in 0 .. many - 1
  BY <1>2
<1>5. /\ c \in 1 .. all /\ (c - 1) \div many = u /\ (c - 1) % many = half
      /\ u * bytes = bytes * u /\ (u + 1) * bytes = bytes * (u + 1)
  <2>1. CASE bytes = 3 /\ many = 1
    BY <1>2, <1>4, <2>1
  <2>2. CASE bytes = 1 /\ many = 2
    BY <1>2, <1>4, <2>2
  <2>3. CASE bytes = 3 /\ many = 2
    BY <1>2, <1>4, <2>3
  <2> QED  BY <1>2, <2>1, <2>2, <2>3
<1> HIDE DEF c
<1>6. Rej!StreamCandidates(f)[c] = Rej!Candidate(cut(u), half)
  BY <1>3, <1>5
<1>7. DOMAIN Rej!StreamCandidates(f) = 1 .. all /\ Len(Rej!StreamCandidates(f)) = all
  BY <1>3
<1>8. c = Rej!Halves(f) * u + half + 1
  BY <1>2 DEF c
<1>9. cut(u) = SubSeq(Rej!Stream(f), Rej!Unit(f) * u + 1, Rej!Unit(f) * (u + 1))
  BY <1>1, <1>2, <1>5
<1> HIDE DEF cut
<1> QED  BY <1>5, <1>6, <1>7, <1>8, <1>9

-----------------------------------------------------------------------------
(* The good ones among the first candidates of the stream. *)
Count(f, g, c) == Cardinality({d \in 1 .. c : Rej!StreamCandidates(f)[d] \in g})

LEMMA CountIs ==
    ASSUME NEW f, NEW g, NEW c \in Nat
    PROVE  /\ Count(f, g, c) \in Nat /\ Count(f, g, 0) = 0
           /\ Count(f, g, c + 1) =
                  Count(f, g, c) + IF Rej!StreamCandidates(f)[c + 1] \in g THEN 1 ELSE 0
<1> DEFINE A == {d \in 1 .. c : Rej!StreamCandidates(f)[d] \in g}
           B == {d \in 1 .. c + 1 : Rej!StreamCandidates(f)[d] \in g}
<1>1. IsFiniteSet(A) /\ Cardinality(A) \in Nat
  <2>1. IsFiniteSet(1 .. c)
    BY FS_Interval
  <2> QED  BY <2>1, FS_Subset, FS_CardinalityType
<1>2. B = IF Rej!StreamCandidates(f)[c + 1] \in g THEN A \cup {c + 1} ELSE A
  OBVIOUS
<1>3. c + 1 \notin A
  OBVIOUS
<1>4. {d \in 1 .. 0 : Rej!StreamCandidates(f)[d] \in g} = {}
  OBVIOUS
<1> HIDE DEF A, B
<1>5. Cardinality(B) = Cardinality(A) + IF Rej!StreamCandidates(f)[c + 1] \in g THEN 1 ELSE 0
  <2>1. Cardinality(A \cup {c + 1}) = Cardinality(A) + 1
    BY <1>1, <1>3, FS_AddElement
  <2> QED  BY <1>1, <1>2, <2>1
<1> QED  BY <1>1, <1>4, <1>5, FS_EmptySet DEF Count, A, B

(* What has been taken of the first c candidates. *)
Taken(f, g, c, t) ==
    /\ t \in Seq(g)
    /\ Len(t) = IF Count(f, g, c) < Coefficients THEN Count(f, g, c) ELSE Coefficients
    /\ \A n \in 1 .. Len(t) :
           \E d \in 1 .. c : t[n] = Rej!StreamCandidates(f)[d] /\ Count(f, g, d) = n

LEMMA TakeStep ==
    ASSUME NEW c \in Nat, NEW t, Taken(rsampler, good, c, t)
    PROVE  Taken(rsampler, good, c + 1, Rej!Take(t, Rej!StreamCandidates(rsampler)[c + 1]))
<1>1. PICK f, g : f = rsampler /\ g = good
  OBVIOUS
<1>2. PICK e : e = Rej!StreamCandidates(f)[c + 1]
  OBVIOUS
<1>3. Taken(f, g, c, t)
  BY <1>1
<1>4. PICK now \in Nat, next \in Nat :
          /\ now = Count(f, g, c) /\ next = Count(f, g, c + 1)
          /\ next = now + IF e \in g THEN 1 ELSE 0
  BY <1>2, CountIs
<1>5. Coefficients \in Nat
  BY RejSizes
<1>6. CASE e \in g /\ Len(t) < Coefficients
  <2>1. t \in Seq(g) /\ Len(t) = now /\ next = now + 1
    BY <1>3, <1>4, <1>5, <1>6 DEF Taken
  <2>2. PICK w : w = Append(t, e)
    OBVIOUS
  <2>3. w \in Seq(g) /\ Len(w) = now + 1 /\ w[now + 1] = e /\ \A n \in 1 .. now : w[n] = t[n]
    BY <1>6, <2>1, <2>2
  <2>4. Len(w) = IF next < Coefficients THEN next ELSE Coefficients
    BY <1>4, <1>5, <1>6, <2>1, <2>3
  <2>5. ASSUME NEW n \in 1 .. Len(w)
        PROVE  \E d \in 1 .. c + 1 : w[n] = Rej!StreamCandidates(f)[d] /\ Count(f, g, d) = n
    <3>1. CASE n = now + 1
      <4>1. c + 1 \in 1 .. c + 1
        OBVIOUS
      <4> QED  BY <1>2, <1>4, <2>1, <2>3, <3>1, <4>1
    <3>2. CASE n # now + 1
      <4>1. n \in 1 .. now /\ n \in 1 .. Len(t)
        BY <2>1, <2>3, <3>2
      <4>2. PICK d \in 1 .. c : t[n] = Rej!StreamCandidates(f)[d] /\ Count(f, g, d) = n
        BY <1>3, <4>1 DEF Taken
      <4>3. d \in 1 .. c + 1
        OBVIOUS
      <4> QED  BY <2>3, <4>1, <4>2, <4>3
    <3> QED  BY <3>1, <3>2
  <2>6. Taken(f, g, c + 1, w)
    BY <1>4, <2>3, <2>4, <2>5 DEF Taken
  <2>7. Rej!Take(t, e) = w
    BY <1>1, <1>6, <2>2 DEF Rej!Take
  <2> QED  BY <1>1, <1>2, <2>6, <2>7
<1>7. CASE ~(e \in g /\ Len(t) < Coefficients)
  <2>1. Len(t) = IF next < Coefficients THEN next ELSE Coefficients
    BY <1>3, <1>4, <1>5, <1>7 DEF Taken
  <2>2. ASSUME NEW n \in 1 .. Len(t)
        PROVE  \E d \in 1 .. c + 1 : t[n] = Rej!StreamCandidates(f)[d] /\ Count(f, g, d) = n
    <3>1. PICK d \in 1 .. c : t[n] = Rej!StreamCandidates(f)[d] /\ Count(f, g, d) = n
      BY <1>3, <2>2 DEF Taken
    <3>2. d \in 1 .. c + 1
      OBVIOUS
    <3> QED  BY <3>1, <3>2
  <2>3. Taken(f, g, c + 1, t)
    BY <1>3, <1>4, <2>1, <2>2 DEF Taken
  <2>4. Rej!Take(t, e) = t
    BY <1>1, <1>7 DEF Rej!Take
  <2> QED  BY <1>1, <1>2, <2>3, <2>4
<1> QED  BY <1>6, <1>7

-----------------------------------------------------------------------------
(* The buffer is the end of what was squeezed, it is read unit by unit,    *)
(* and every candidate before the place of reading has been considered.    *)
RejAt(base, u, v) ==
    /\ base + Len(rbuf) = Squeezed(rsampler, round)
    /\ \A x \in 1 .. Len(rbuf) : rbuf[x] = Rej!Stream(rsampler)[base + x]
    /\ rpos = Rej!Unit(rsampler) * v /\ base + rpos = Rej!Unit(rsampler) * u
    /\ Taken(rsampler, good, Rej!Halves(rsampler) * u, a)

RejInv ==
    /\ rsampler \in Rej!Samplers /\ mode \in Rej!Modes /\ round \in 0 .. Refills
    /\ rbuf \in Seq(Bytes) /\ rpos \in 0 .. Len(rbuf)
    /\ rsampler = "gen_matrix" => Len(rbuf) % 3 = 0
    /\ returned => Len(a) = Coefficients
    /\ \E base, u, v \in Nat : RejAt(base, u, v)

LEMMA MultipleOfThree ==
    ASSUME NEW x \in Nat, NEW y \in Nat, y % 3 = 0
    PROVE  (x * y) % 3 = 0
<1>1. PICK z \in Nat : y = 3 * z
  <2>1. y \div 3 \in Nat /\ y = 3 * (y \div 3)
    OBVIOUS
  <2> QED  BY <2>1
<1>2. PICK w \in Nat : w = x * z
  OBVIOUS
<1>3. x * (3 * z) = 3 * (x * z)
  OBVIOUS
<1>4. x * y = 3 * w
  BY <1>1, <1>2, <1>3
<1> QED  BY <1>4

LEMMA RejInit == Rej!Init => RejInv
<1> SUFFICES ASSUME Rej!Init PROVE RejInv
  OBVIOUS
<1>1. /\ rsampler \in Rej!Samplers /\ mode \in Rej!Modes /\ rpos = 0 /\ round = 0 /\ a = << >>
      /\ returned = FALSE
      /\ rbuf = Rej!Output(0, NBlocks[rsampler] * Block[rsampler])
  BY DEF Rej!Init
<1>2. Squeezed(rsampler, 0) \in Nat /\ Squeezed(rsampler, 0) = NBlocks[rsampler] * Block[rsampler]
  BY <1>1, SqueezedIs
<1>3. /\ rbuf \in Seq(Bytes) /\ Len(rbuf) = Squeezed(rsampler, 0)
      /\ \A x \in 1 .. Squeezed(rsampler, 0) : rbuf[x] = <<0, x>>
  BY <1>1, <1>2, OutputIs
<1>4. ASSUME rsampler = "gen_matrix" PROVE Len(rbuf) % 3 = 0
  <2>1. PICK x \in Nat, y \in Nat : x = NBlocks[rsampler] /\ y = Block[rsampler] /\ y % 3 = 0
    BY <1>1, <1>4, RejSizes
  <2> QED  BY <1>2, <1>3, <2>1, MultipleOfThree
<1>5. Taken(rsampler, good, 0, << >>)
  BY CountIs, RejSizes DEF Taken
<1>6. RejAt(0, 0, 0)
  <2>1. Rej!Unit(rsampler) * 0 = 0 /\ Rej!Halves(rsampler) * 0 = 0
    BY <1>1, UnitIs
  <2>2. \A x \in 1 .. Len(rbuf) : rbuf[x] = Rej!Stream(rsampler)[0 + x]
    <3>1. PICK f \in Rej!Samplers : f = rsampler
      BY <1>1
    <3>2. \A x \in 1 .. Squeezed(f, 0) : Rej!Stream(f)[x] = <<0, x>>
      BY StreamHas
    <3>3. SUFFICES ASSUME NEW x \in 1 .. Len(rbuf) PROVE rbuf[x] = Rej!Stream(rsampler)[0 + x]
      OBVIOUS
    <3>4. Len(rbuf) = Squeezed(f, 0)
      BY <1>3, <3>1
    <3>5. x \in 1 .. Squeezed(f, 0)
      BY <3>4
    <3>6. rbuf[x] = <<0, x>>
      BY <1>3, <3>1, <3>5
    <3>7. Rej!Stream(rsampler)[x] = <<0, x>>
      BY <3>1, <3>2, <3>5
    <3>8. 0 + x = x
      BY <1>3
    <3> QED  BY <3>6, <3>7, <3>8
  <2> QED  BY <1>1, <1>2, <1>3, <1>5, <2>1, <2>2 DEF RejAt
<1> QED  BY <1>1, <1>2, <1>3, <1>4, <1>6, RejSizes DEF RejInv

LEMMA SubSeqIs ==
    ASSUME NEW s \in Seq(Bytes), NEW m \in Nat, NEW n \in Nat, m + n <= Len(s)
    PROVE  SubSeq(s, m + 1, m + n) = [x \in 1 .. n |-> s[m + x]]
<1>1. SubSeq(s, m + 1, m + n) = [x \in 1 .. n |-> s[(m + 1) + x - 1]]
  OBVIOUS
<1>2. \A x \in 1 .. n : (m + 1) + x - 1 = m + x
  OBVIOUS
<1> QED  BY <1>1, <1>2

LEMMA RejScan == ASSUME RejInv, Rej!Scan PROVE RejInv'
<1>1. PICK base \in Nat, u \in Nat, v \in Nat : RejAt(base, u, v)
  BY DEF RejInv
<1>2. PICK f \in Rej!Samplers, bytes \in Nat :
          f = rsampler /\ bytes = Rej!Unit(f) /\ (bytes = 1 \/ bytes = 3)
  BY UnitIs DEF RejInv
<1>3. /\ rsampler' = rsampler /\ mode' = mode /\ good' = good /\ rbuf' = rbuf /\ round' = round
      /\ returned' = returned /\ rpos' = rpos + bytes /\ returned = FALSE
      /\ rpos + bytes <= Len(rbuf)
  BY <1>2 DEF Rej!Scan, Rej!Scanning
<1>4. PICK size \in Nat, top \in Nat, end \in Nat :
          /\ size = Len(rbuf) /\ top = Squeezed(f, round) /\ end = Squeezed(f, Refills) /\ top <= end
          /\ rbuf \in Seq(Bytes) /\ rpos \in Nat /\ round \in 0 .. Refills
  <2>1. rbuf \in Seq(Bytes) /\ rpos \in 0 .. Len(rbuf) /\ round \in 0 .. Refills
    BY DEF RejInv
  <2>2. round \in Nat /\ round <= Refills /\ Refills \in Nat
    BY <2>1, RejSizes
  <2>3. Len(rbuf) \in Nat /\ rpos \in Nat
    BY <2>1
  <2>4. Squeezed(f, round) \in Nat /\ Squeezed(f, Refills) \in Nat
    BY <2>2, SqueezedIs
  <2>5. Squeezed(f, round) <= Squeezed(f, Refills)
    BY <2>2, SqueezedIs
  <2> QED  BY <2>1, <2>3, <2>4, <2>5
<1>5. /\ base + size = top /\ rpos = bytes * v /\ base + rpos = bytes * u
      /\ \A x \in 1 .. size : rbuf[x] = Rej!Stream(f)[base + x]
      /\ Taken(f, good, Rej!Halves(f) * u, a)
  BY <1>1, <1>2, <1>4 DEF RejAt
<1>6. /\ bytes * (u + 1) <= end /\ bytes * (u + 1) = base + rpos + bytes
      /\ bytes * (v + 1) = rpos + bytes
  <2>1. CASE bytes = 1
    BY <1>3, <1>4, <1>5, <2>1
  <2>2. CASE bytes = 3
    BY <1>3, <1>4, <1>5, <2>2
  <2> QED  BY <1>2, <2>1, <2>2
<1> DEFINE unit == SubSeq(rbuf, rpos + 1, rpos + Rej!Unit(f))
           cut == SubSeq(Rej!Stream(f), Rej!Unit(f) * u + 1, Rej!Unit(f) * (u + 1))
<1>7. unit = cut
  <2>1. PICK st \in Seq(Bytes) : st = Rej!Stream(f) /\ Len(st) = end
    BY <1>4, StreamHas
  <2>2. \A x \in 1 .. bytes : rbuf[rpos + x] = st[base + (rpos + x)]
    <3>1. \A x \in 1 .. bytes : rpos + x \in 1 .. size
      BY <1>3, <1>4
    <3> QED  BY <1>5, <2>1, <3>1
  <2>3. PICK low \in Nat : low = base + rpos
    BY <1>4
  <2>4. unit = [x \in 1 .. bytes |-> rbuf[rpos + x]]
    <3>1. unit = SubSeq(rbuf, rpos + 1, rpos + bytes)
      BY <1>2
    <3>2. 1 + rpos = rpos + 1 /\ (rpos + bytes) - (rpos + 1) + 1 = bytes
      BY <1>4
    <3> HIDE DEF unit
    <3> QED  BY <1>3, <1>4, <3>1, <3>2, SubSeqIs
  <2>5. cut = [x \in 1 .. bytes |-> st[low + x]]
    <3>1. cut = SubSeq(st, low + 1, low + bytes)
      BY <1>2, <1>5, <1>6, <2>1, <2>3
    <3>2. low + bytes <= Len(st)
      BY <1>6, <2>1, <2>3
    <3> HIDE DEF cut
    <3> QED  BY <3>1, <3>2, SubSeqIs
  <2>6. \A x \in 1 .. bytes : rbuf[rpos + x] = st[low + x]
    <3>1. \A x \in 1 .. bytes : base + (rpos + x) = low + x
      BY <1>4, <2>3
    <3> QED  BY <2>2, <3>1
  <2> HIDE DEF unit, cut
  <2> QED  BY <2>4, <2>5, <2>6
<1> DEFINE first == Rej!Take(a, Rej!Candidate(unit, 0))
<1>8. a' = IF Rej!Halves(f) = 2 THEN Rej!Take(first, Rej!Candidate(unit, 1)) ELSE first
  BY <1>2 DEF Rej!Scan
<1> HIDE DEF unit, cut
<1>9. Taken(f, good, Rej!Halves(f) * (u + 1), a')
  <2>1. PICK c \in Nat : c = Rej!Halves(f) * u
    BY UnitIs
  <2>2. 0 \in 0 .. Rej!Halves(f) - 1
    BY UnitIs
  <2>3. Rej!StreamCandidates(f)[c + 1] = Rej!Candidate(unit, 0)
    <3>1. Rej!StreamCandidates(f)[c + 0 + 1] = Rej!Candidate(cut, 0)
      BY <1>2, <1>4, <1>6, <2>1, <2>2, CandidateIs DEF cut
    <3> QED  BY <1>7, <3>1
  <2>4. Taken(f, good, c + 1, first)
    BY <1>2, <1>5, <2>1, <2>3, TakeStep
  <2>5. CASE Rej!Halves(f) = 1
    <3>1. Rej!Halves(f) * (u + 1) = c + 1
      BY <2>1, <2>5
    <3> QED  BY <1>8, <2>4, <2>5, <3>1
  <2>6. CASE Rej!Halves(f) = 2
    <3>1. Rej!Halves(f) * (u + 1) = (c + 1) + 1 /\ 1 \in 0 .. Rej!Halves(f) - 1 /\ c + 1 \in Nat
      BY <2>1, <2>6
    <3>2. Rej!StreamCandidates(f)[(c + 1) + 1] = Rej!Candidate(unit, 1)
      <4>1. Rej!StreamCandidates(f)[c + 1 + 1] = Rej!Candidate(cut, 1)
        BY <1>2, <1>4, <1>6, <2>1, <3>1, CandidateIs DEF cut
      <4> QED  BY <1>7, <4>1
    <3> HIDE DEF first
    <3>3. Taken(f, good, (c + 1) + 1, Rej!Take(first, Rej!Candidate(unit, 1)))
      BY <1>2, <2>4, <3>1, <3>2, TakeStep
    <3> QED  BY <1>8, <2>6, <3>1, <3>3
  <2> QED  BY <2>5, <2>6, UnitIs
<1>10. RejAt(base, u + 1, v + 1)'
  <2>1. base + (rpos + bytes) = bytes * (u + 1)
    BY <1>4, <1>6
  <2> QED  BY <1>2, <1>3, <1>4, <1>5, <1>6, <1>9, <2>1 DEF RejAt
<1>11. rpos' \in 0 .. Len(rbuf)
  BY <1>3, <1>4
<1>12. u + 1 \in Nat /\ v + 1 \in Nat
  OBVIOUS
<1>13. \E b, x, y \in Nat : RejAt(b, x, y)'
  BY <1>10, <1>12
<1> QED  BY <1>3, <1>11, <1>13 DEF RejInv

LEMMA RejRefill == ASSUME RejInv, Rej!Refill PROVE RejInv'
<1>1. PICK base \in Nat, u \in Nat, v \in Nat : RejAt(base, u, v)
  BY DEF RejInv
<1>2. PICK f \in Rej!Samplers, bytes \in Nat, block \in Nat :
          /\ f = rsampler /\ bytes = Rej!Unit(f) /\ block = Block[f]
          /\ \/ f = "poly_uniform" /\ bytes = 3
             \/ f = "poly_uniform_eta" /\ bytes = 1
             \/ f = "gen_matrix" /\ bytes = 3
  BY UnitIs, RejSizes DEF RejInv
<1>3. /\ rsampler' = rsampler /\ mode' = mode /\ good' = good /\ a' = a
      /\ returned' = returned /\ rpos' = 0 /\ returned = FALSE
      /\ rpos + bytes > Len(rbuf) /\ round < Refills
  <2>1. Len(a) < Coefficients /\ ~Rej!Scanning /\ ~returned
    BY DEF Rej!Refill
  <2>2. ~(rpos + Rej!Unit(rsampler) <= Len(rbuf)) /\ returned = FALSE
    <3>1. returned \in BOOLEAN \/ returned \notin BOOLEAN
      OBVIOUS
    <3> QED  BY <2>1 DEF Rej!Scanning, RejInv
  <2>3. rpos \in Nat /\ Len(rbuf) \in Nat
    BY DEF RejInv
  <2> QED  BY <1>2, <2>2, <2>3 DEF Rej!Refill
<1>4. PICK size \in Nat, top \in Nat :
          /\ size = Len(rbuf) /\ top = Squeezed(f, round)
          /\ rbuf \in Seq(Bytes) /\ rpos \in 0 .. size /\ round \in Nat
          /\ round + 1 \in 1 .. Refills /\ (round + 1) - 1 = round
          /\ f = "gen_matrix" => size % 3 = 0
  <2>1. rbuf \in Seq(Bytes) /\ rpos \in 0 .. Len(rbuf) /\ round \in 0 .. Refills
    BY DEF RejInv
  <2>2. round \in Nat /\ Len(rbuf) \in Nat
    BY <2>1, RejSizes
  <2>3. Squeezed(f, round) \in Nat
    BY <2>2, SqueezedIs
  <2>4. f = "gen_matrix" => Len(rbuf) % 3 = 0
    BY <1>2 DEF RejInv
  <2>5. round + 1 \in 1 .. Refills /\ (round + 1) - 1 = round
    BY <1>3, <2>1, RejSizes
  <2> QED  BY <2>1, <2>2, <2>3, <2>4, <2>5
<1>5. /\ base + size = top /\ rpos = bytes * v /\ base + rpos = bytes * u
      /\ \A x \in 1 .. size : rbuf[x] = Rej!Stream(f)[base + x]
      /\ Taken(f, good, Rej!Halves(f) * u, a)
  BY <1>1, <1>2, <1>4 DEF RejAt
<1>6. round' = round + 1
  <2>1. (round + 1) % CounterRange = round + 1
    BY <1>4, RejSizes
  <2> QED  BY <2>1 DEF Rej!Refill
<1>7. PICK off \in Nat : off = size - rpos
  <2>1. size - rpos \in Nat
    BY <1>4
  <2> QED  BY <2>1
<1>8. off = IF rsampler = "poly_uniform" THEN Len(rbuf) % 3 ELSE 0
  <2>1. off < bytes /\ size = bytes * v + off
    <3>1. PICK place \in Nat : place = rpos /\ place + bytes > size /\ place <= size /\ off = size - place
      <4>1. rpos \in Nat /\ rpos <= size
        BY <1>4
      <4>2. rpos + bytes > size
        BY <1>3, <1>4
      <4> QED  BY <1>7, <4>1, <4>2
    <3>2. PICK turns \in Nat : turns = bytes * v
      OBVIOUS
    <3>3. place = turns
      BY <1>5, <3>1, <3>2
    <3>4. off < bytes /\ size = turns + off
      BY <3>1, <3>3
    <3> QED  BY <3>2, <3>4
  <2>2. CASE bytes = 3 /\ f # "poly_uniform_eta"
    <3>1. off \in 0 .. 2 /\ size = 3 * v + off
      BY <2>1, <2>2
    <3>2. size % 3 = off
      BY <3>1
    <3>3. f = "poly_uniform" \/ f = "gen_matrix"
      BY <1>2, <2>2
    <3> QED  BY <1>2, <1>4, <3>2, <3>3
  <2>3. CASE f = "poly_uniform_eta" /\ bytes = 1
    <3>1. off = 0
      BY <2>1, <2>3
    <3> QED  BY <1>2, <2>3, <3>1
  <2> QED  BY <1>2, <2>2, <2>3
<1>9. PICK rest \in Seq(Bytes), fresh \in Seq(Bytes) :
          /\ rbuf' = rest \o fresh
          /\ Len(rest) = off /\ \A x \in 1 .. off : rest[x] = rbuf[rpos + x]
          /\ Len(fresh) = block /\ \A x \in 1 .. block : fresh[x] = <<round + 1, x>>
  <2>1. rbuf' = SubSeq(rbuf, size - off + 1, size) \o Rej!Output(round + 1, block)
    BY <1>2, <1>3, <1>4, <1>6, <1>8 DEF Rej!Refill, Rej!Rest
  <2>2. size - off + 1 = rpos + 1 /\ size = rpos + off
    BY <1>4, <1>7
  <2>3. SubSeq(rbuf, rpos + 1, rpos + off) = [x \in 1 .. off |-> rbuf[rpos + x]]
    <3>1. rpos \in Nat /\ rpos + off <= Len(rbuf)
      BY <1>4, <2>2
    <3> QED  BY <1>4, <3>1, SubSeqIs
  <2>4. PICK rest : rest = [x \in 1 .. off |-> rbuf[rpos + x]]
    OBVIOUS
  <2>5. \A x \in 1 .. off : rpos + x \in 1 .. Len(rbuf)
    BY <1>4, <2>2
  <2>6. rest \in Seq(Bytes) /\ Len(rest) = off /\ \A x \in 1 .. off : rest[x] = rbuf[rpos + x]
    <3>1. ASSUME NEW x \in 1 .. off PROVE rbuf[rpos + x] \in Bytes
      <4>1. PICK y \in 1 .. Len(rbuf) : y = rpos + x
        BY <2>5
      <4> QED  BY <1>4, <4>1
    <3> QED  BY <2>4, <3>1
  <2>7. PICK fresh : fresh = Rej!Output(round + 1, block)
    OBVIOUS
  <2>8. fresh \in Seq(Bytes) /\ Len(fresh) = block /\ \A x \in 1 .. block : fresh[x] = <<round + 1, x>>
    <3>1. round + 1 \in Nat
      BY <1>4
    <3> QED  BY <2>7, <3>1, OutputIs
  <2>9. rbuf' = rest \o fresh
    BY <2>1, <2>2, <2>3, <2>4, <2>7
  <2> QED  BY <2>6, <2>8, <2>9
<1>10. /\ rbuf' \in Seq(Bytes) /\ Len(rbuf') = off + block
       /\ \A x \in 1 .. off : rbuf'[x] = rbuf[rpos + x]
       /\ \A x \in 1 .. block : rbuf'[off + x] = <<round + 1, x>>
  <2>1. /\ rest \o fresh \in Seq(Bytes) /\ Len(rest \o fresh) = Len(rest) + Len(fresh)
        /\ \A x \in 1 .. Len(rest) : (rest \o fresh)[x] = rest[x]
        /\ \A x \in 1 .. Len(fresh) : (rest \o fresh)[Len(rest) + x] = fresh[x]
    OBVIOUS
  <2> QED  BY <1>9, <2>1
<1>11. \A x \in 1 .. block : Rej!Stream(f)[top + x] = <<round + 1, x>>
  <2>1. \A r \in 1 .. Refills, x \in 1 .. Block[f] :
            Rej!Stream(f)[Squeezed(f, r - 1) + x] = <<r, x>>
    BY StreamHas
  <2> QED  BY <1>2, <1>4, <2>1
<1>12. PICK low \in Nat : low = base + rpos /\ low + off = top
  <2>1. PICK read \in Nat : read = rpos
    BY <1>4
  <2>2. base + size = top
    BY <1>5
  <2>3. off = size - read
    BY <1>7, <2>1
  <2>4. base + read \in Nat /\ (base + read) + off = top
    BY <2>2, <2>3
  <2> QED  BY <2>1, <2>4
<1>13. ASSUME NEW x \in 1 .. Len(rbuf') PROVE rbuf'[x] = Rej!Stream(f)[low + x]
  <2>1. CASE x <= off
    <3>1. x \in 1 .. off /\ rpos + x \in 1 .. size /\ base + (rpos + x) = low + x
      BY <1>4, <1>7, <1>10, <1>12, <2>1
    <3>2. rbuf[rpos + x] = Rej!Stream(f)[base + (rpos + x)]
      BY <1>5, <3>1
    <3> QED  BY <1>10, <3>1, <3>2
  <2>2. CASE x > off
    <3>1. PICK y \in 1 .. block : x = off + y
      <4>1. x - off \in 1 .. block /\ x = off + (x - off)
        BY <1>10, <2>2
      <4> QED  BY <4>1
    <3>2. low + x = top + y
      BY <1>12, <3>1
    <3> QED  BY <1>10, <1>11, <3>1, <3>2
  <2> QED  BY <1>10, <2>1, <2>2
<1>14. Squeezed(f, round + 1) = top + block
  BY <1>2, <1>4, SqueezedIs
<1>15. RejAt(low, u, 0)'
  <2>1. low + Len(rbuf') = Squeezed(f, round + 1)
    BY <1>10, <1>12, <1>14
  <2>2. 0 = bytes * 0 /\ low + 0 = bytes * u
    <3>1. bytes * 0 = 0
      BY <1>2
    <3> QED  BY <1>5, <1>12, <3>1
  <2> QED  BY <1>2, <1>3, <1>5, <1>6, <1>13, <2>1, <2>2 DEF RejAt
<1>16. f = "gen_matrix" => Len(rbuf') % 3 = 0
  <2>1. SUFFICES ASSUME f = "gen_matrix" PROVE (off + block) % 3 = 0
    BY <1>10
  <2>2. off = 0 /\ block % 3 = 0
    BY <1>2, <1>8, <2>1, RejSizes
  <2> QED  BY <2>2
<1>17. \E b, x, y \in Nat : RejAt(b, x, y)'
  BY <1>15
<1>18. round' \in 0 .. Refills /\ rpos' \in 0 .. Len(rbuf')
  BY <1>3, <1>4, <1>6, <1>10
<1> QED  BY <1>2, <1>3, <1>10, <1>16, <1>17, <1>18 DEF RejInv

LEMMA RejReturn == ASSUME RejInv, Rej!Return PROVE RejInv'
<1>1. /\ UNCHANGED <<rsampler, mode, good, rbuf, rpos, round, a>> /\ Len(a) = Coefficients
  BY DEF Rej!Return
<1>2. PICK base \in Nat, u \in Nat, v \in Nat : RejAt(base, u, v)
  BY DEF RejInv
<1>3. RejAt(base, u, v)'
  BY <1>1, <1>2 DEF RejAt
<1> QED  BY <1>1, <1>3 DEF RejInv

LEMMA CountsAsRej == \A S : Rej!Cardinality(S) = Cardinality(S)
BY DEF Cardinality, Rej!Cardinality

(* RejInv says of the coefficients what the run checks.                    *)
LEMMA RejSamples == RejInv => Rej!SamplesStream
<1> SUFFICES ASSUME RejInv, returned PROVE
        /\ Len(a) = Coefficients
        /\ \A n \in 1 .. Coefficients : \E c \in DOMAIN Rej!StreamCandidates(rsampler) :
               /\ a[n] = Rej!StreamCandidates(rsampler)[c] /\ a[n] \in good
               /\ Rej!GoodUpTo(c) = n
  BY DEF Rej!SamplesStream
<1>1. PICK base \in Nat, u \in Nat, v \in Nat : RejAt(base, u, v)
  BY DEF RejInv
<1>2. PICK f \in Rej!Samplers, many \in Nat :
          f = rsampler /\ many = Rej!Halves(f) /\ (many = 1 \/ many = 2)
  BY UnitIs DEF RejInv
<1>3. Len(a) = Coefficients
  BY DEF RejInv
<1>4. ASSUME NEW n \in 1 .. Coefficients
      PROVE  \E c \in DOMAIN Rej!StreamCandidates(rsampler) :
                 /\ a[n] = Rej!StreamCandidates(rsampler)[c] /\ a[n] \in good
                 /\ Rej!GoodUpTo(c) = n
  <2>1. a \in Seq(good) /\ n \in 1 .. Len(a)
    BY <1>1, <1>3 DEF RejAt, Taken
  <2>2. a[n] \in good
    BY <2>1
  <2>3. PICK c \in 1 .. many * u :
            a[n] = Rej!StreamCandidates(f)[c] /\ Count(f, good, c) = n
    BY <1>1, <1>2, <2>1 DEF RejAt, Taken
  <2>4. c \in DOMAIN Rej!StreamCandidates(f)
    <3>1. /\ many * u \in DOMAIN Rej!StreamCandidates(f)
          /\ DOMAIN Rej!StreamCandidates(f) = 1 .. Len(Rej!StreamCandidates(f))
          /\ Len(Rej!StreamCandidates(f)) \in Nat
      <4>1. u > 0
        BY <1>2, <2>3
      <4>2. PICK w \in Nat : u = w + 1
        <5>1. u - 1 \in Nat /\ u = (u - 1) + 1
          BY <4>1
        <5> QED  BY <5>1
      <4>3. many - 1 \in 0 .. Rej!Halves(f) - 1
        BY <1>2
      <4>4. Rej!Unit(f) * (w + 1) <= Squeezed(f, Refills)
        <5>1. Rej!Unit(f) * u = base + rpos /\ base + Len(rbuf) = Squeezed(f, round)
          BY <1>1, <1>2 DEF RejAt
        <5>2. rpos \in 0 .. Len(rbuf) /\ Len(rbuf) \in Nat /\ round \in 0 .. Refills
          BY DEF RejInv
        <5>3. round \in Nat /\ round <= Refills /\ Refills \in Nat
          BY <5>2, RejSizes
        <5>4. Squeezed(f, round) \in Nat /\ Squeezed(f, Refills) \in Nat
          BY <5>3, SqueezedIs
        <5>5. Squeezed(f, round) <= Squeezed(f, Refills)
          BY <5>3, SqueezedIs
        <5>6. base + rpos <= base + Len(rbuf)
          BY <5>2
        <5>7. base + rpos <= Squeezed(f, Refills)
          BY <5>1, <5>2, <5>4, <5>5, <5>6
        <5> QED  BY <4>2, <5>1, <5>7
      <4>5. Rej!Halves(f) * w + (many - 1) + 1 = many * u
        BY <1>2, <4>2
      <4> QED  BY <4>3, <4>4, <4>5, CandidateIs
    <3>2. many * u \in Nat
      BY <1>2
    <3> QED  BY <3>1, <3>2
  <2>5. Rej!GoodUpTo(c) = Count(f, good, c)
    BY <1>2, CountsAsRej DEF Rej!GoodUpTo, Count
  <2> QED  BY <1>2, <2>2, <2>3, <2>4, <2>5
<1> QED  BY <1>3, <1>4

LEMMA RejNext == RejInv /\ [Rej!Next]_rejVars => RejInv'
<1> SUFFICES ASSUME RejInv, [Rej!Next]_rejVars PROVE RejInv'
  OBVIOUS
<1>1. CASE UNCHANGED rejVars
  <2>1. PICK base \in Nat, u \in Nat, v \in Nat : RejAt(base, u, v)
    BY DEF RejInv
  <2>2. RejAt(base, u, v)'
    BY <1>1, <2>1 DEF RejAt, rejVars
  <2> QED  BY <1>1, <2>2 DEF RejInv, rejVars
<1> QED  BY <1>1, RejScan, RejRefill, RejReturn DEF Rej!Next

-----------------------------------------------------------------------------
(***************************************************************************)
(* No bit is used twice by the sampler that works by groups.               *)
(***************************************************************************)
GroupEnd == Group!NBlock * GroupRate

LEMMA GroupSizes ==
    /\ GroupN \in Nat /\ GroupN > 0 /\ GroupRate \in Nat /\ GroupRate > 0
    /\ GroupEnd \in Nat /\ GroupEnd - 12 >= GroupRate
    /\ Group!Capacity \in Nat /\ GroupEnd <= Group!Capacity
<1>1. PICK n \in Nat, r \in Nat, f \in Nat :
          n = GroupN /\ r = GroupRate /\ f = GroupFill /\ n > 0 /\ r > 0
  BY SamplersAssumption DEF Group!GroupAssumption
<1>2. GroupEnd - 12 >= GroupRate
  BY SamplersAssumption DEF Group!GroupAssumption, Group!QBITS, GroupEnd
<1>3. PICK q \in Nat : q = (f + r - 1) \div r /\ q * r <= f + r - 1
  <2>1. f + r - 1 \in Nat
    BY <1>1
  <2>2. PICK s \in Nat : s = f + r - 1
    BY <2>1
  <2>3. s \div r \in Nat /\ (s \div r) * r <= s
    BY <1>1
  <2> QED  BY <2>2, <2>3
<1>4. q * r \in Nat
  OBVIOUS
<1>5. GroupEnd = q * r /\ Group!Capacity = f + r
  BY <1>1, <1>3 DEF GroupEnd, Group!NBlock, Group!Capacity
<1>6. q * r <= f + r
  <2>1. PICK p \in Nat : p = q * r
    BY <1>4
  <2>2. p <= f + r - 1
    BY <1>3, <2>1
  <2>3. p <= f + r
    BY <2>2
  <2> QED  BY <2>1, <2>3
<1> QED  BY <1>1, <1>2, <1>4, <1>5, <1>6

(* The bit of a place in the buffer, as numbered by squeezing. *)
Name(T) == 8 * gbuf[T \div 8] + (T % 8)

(* The bits used by some candidates. *)
Used(cs) == UNION {Group!Range(cs[x]) : x \in DOMAIN cs}

Codes == [0 .. 12 -> SUBSET Nat]

Singles(m) == {{n} : n \in 0 .. m - 1}

UsedIs(cs, from) ==
    /\ cs \in Seq(Codes)
    /\ Used(cs) \subseteq Singles(8 * gsqueezed)
    /\ IsFiniteSet(Used(cs)) /\ Cardinality(Used(cs)) = 13 * Len(cs)
    /\ \A T \in from .. 8 * GroupEnd - 1 : {Name(T)} \notin Used(cs)

(* The bytes that are not read yet are squeezed ones, each at one place. *)
Unread ==
    /\ gbuf \in [0 .. Group!Capacity - 1 -> Int]
    /\ \A x \in at + gpos .. GroupEnd - 1 : gbuf[x] \in 0 .. gsqueezed - 1
    /\ \A x, y \in at + gpos .. GroupEnd - 1 : gbuf[x] = gbuf[y] => x = y

Places ==
    /\ at \in Nat /\ len \in Nat /\ gpos \in 0 .. len /\ at + len = GroupEnd
    /\ gctr \in 0 .. GroupN /\ gk \in 1 .. 8 /\ gsqueezed \in Nat
    /\ gpc # "single" => gk = 1
    /\ gpc = "single" /\ gk > 1 => gpos + Group!Ahead[gk - 1] < len /\ gctr < GroupN
    /\ gpc = "return" /\ gctr < GroupN => len - gpos <= 12

GroupInv == Places /\ Unread /\ UsedIs(candidates, 8 * (at + gpos) + 13 * (gk - 1))

(* The pieces of a candidate are the bytes its bits lie in. *)
LEMMA Pieces ==
    ASSUME NEW c \in 1 .. 8
    PROVE  /\ \A piece \in Group!Range(Group!Val[c]) :
                  /\ piece[1] \in 0 .. 12 /\ piece[2] = 8 * piece[1] - 13 * (c - 1)
           /\ \A v \in 0 .. 12 : \E piece \in Group!Range(Group!Val[c]) :
                  piece[1] = (13 * (c - 1) + v) \div 8
<1>1. CASE c = 1
  <2>1. Group!Range(Group!Val[1]) = {<<0, 0>>, <<1, 8>>}
    BY DEF Group!Val, Group!Range
  <2> QED  BY <1>1, <2>1
<1>2. CASE c = 2
  <2>1. Group!Range(Group!Val[2]) = {<<1, -5>>, <<2, 3>>, <<3, 11>>}
    BY DEF Group!Val, Group!Range
  <2> QED  BY <1>2, <2>1
<1>3. CASE c = 3
  <2>1. Group!Range(Group!Val[3]) = {<<3, -2>>, <<4, 6>>}
    BY DEF Group!Val, Group!Range
  <2> QED  BY <1>3, <2>1
<1>4. CASE c = 4
  <2>1. Group!Range(Group!Val[4]) = {<<4, -7>>, <<5, 1>>, <<6, 9>>}
    BY DEF Group!Val, Group!Range
  <2> QED  BY <1>4, <2>1
<1>5. CASE c = 5
  <2>1. Group!Range(Group!Val[5]) = {<<6, -4>>, <<7, 4>>, <<8, 12>>}
    BY DEF Group!Val, Group!Range
  <2> QED  BY <1>5, <2>1
<1>6. CASE c = 6
  <2>1. Group!Range(Group!Val[6]) = {<<8, -1>>, <<9, 7>>}
    BY DEF Group!Val, Group!Range
  <2> QED  BY <1>6, <2>1
<1>7. CASE c = 7
  <2>1. Group!Range(Group!Val[7]) = {<<9, -6>>, <<10, 2>>, <<11, 10>>}
    BY DEF Group!Val, Group!Range
  <2> QED  BY <1>7, <2>1
<1>8. CASE c = 8
  <2>1. Group!Range(Group!Val[8]) = {<<11, -3>>, <<12, 5>>}
    BY DEF Group!Val, Group!Range
  <2> QED  BY <1>8, <2>1
<1> QED  BY <1>1, <1>2, <1>3, <1>4, <1>5, <1>6, <1>7, <1>8

LEMMA BitsAre ==
    ASSUME NEW c \in 1 .. 8, at + gpos \in Nat,
           \A x \in 0 .. 12 : x <= (13 * (c - 1) + 12) \div 8 => gbuf[at + gpos + x] \in Nat
    PROVE  Group!Bits(c) = [v \in 0 .. 12 |-> {Name(8 * (at + gpos) + 13 * (c - 1) + v)}]
<1>1. PICK low \in Nat : low = at + gpos
  OBVIOUS
<1> DEFINE bit(piece, v) == {8 * gbuf[low + piece[1]] + b : b \in {x \in 0 .. 7 : x + piece[2] = v}}
<1>2. ASSUME NEW v \in 0 .. 12
      PROVE  UNION {bit(piece, v) : piece \in Group!Range(Group!Val[c])} =
                 {Name(8 * low + 13 * (c - 1) + v)}
  <2>1. PICK t \in Nat : t = 13 * (c - 1) + v
    OBVIOUS
  <2>2. PICK o \in Nat, x \in 0 .. 7 : t = 8 * o + x
    <3>1. t \div 8 \in Nat /\ t % 8 \in 0 .. 7 /\ t = 8 * (t \div 8) + (t % 8)
      OBVIOUS
    <3> QED  BY <3>1
  <2>3. t \div 8 = o
    BY <2>2
  <2>4. PICK first \in Group!Range(Group!Val[c]) : first[1] = o
    BY <2>1, <2>3, Pieces
  <2>5. Name(8 * low + 13 * (c - 1) + v) = 8 * gbuf[low + o] + x
    <3>1. 8 * low + 13 * (c - 1) + v = 8 * (low + o) + x
      BY <2>1, <2>2
    <3>2. (8 * (low + o) + x) \div 8 = low + o /\ (8 * (low + o) + x) % 8 = x
      OBVIOUS
    <3> QED  BY <3>1, <3>2 DEF Name
  <2>6. ASSUME NEW piece \in Group!Range(Group!Val[c]), NEW y \in bit(piece, v)
        PROVE  y = 8 * gbuf[low + o] + x
    <3>1. PICK b \in 0 .. 7 : b + piece[2] = v /\ y = 8 * gbuf[low + piece[1]] + b
      BY <2>6
    <3>2. PICK m \in 0 .. 12 : m = piece[1] /\ piece[2] = 8 * m - 13 * (c - 1)
      BY Pieces
    <3>3. 8 * m + b = t
      BY <2>1, <3>1, <3>2
    <3>4. m = o /\ b = x
      BY <2>2, <3>3
    <3> QED  BY <3>1, <3>2, <3>4
  <2>7. 8 * gbuf[low + o] + x \in bit(first, v)
    <3>1. first[2] = 8 * o - 13 * (c - 1)
      BY <2>4, Pieces
    <3>2. x + first[2] = v
      BY <2>1, <2>2, <3>1
    <3> QED  BY <2>4, <3>2
  <2> HIDE DEF bit
  <2> QED  BY <2>4, <2>5, <2>6, <2>7
<1>3. Group!Bits(c) = [v \in 0 .. 12 |->
                          UNION {bit(piece, v) : piece \in Group!Range(Group!Val[c])}]
  BY <1>1 DEF Group!Bits, Group!QBITS
<1> HIDE DEF bit
<1> QED  BY <1>1, <1>2, <1>3

LEMMA NamesApart ==
    ASSUME Unread, at + gpos \in Nat, gsqueezed \in Nat,
           NEW S \in 8 * (at + gpos) .. 8 * GroupEnd - 1,
           NEW T \in 8 * (at + gpos) .. 8 * GroupEnd - 1
    PROVE  /\ Name(S) \in 0 .. 8 * gsqueezed - 1 /\ (Name(S) = Name(T) => S = T)
           /\ Name(S) \in Nat
<1>1. PICK low \in Nat, end \in Nat : low = at + gpos /\ end = GroupEnd
  BY GroupSizes
<1>2. PICK o \in Nat, x \in 0 .. 7 : o = S \div 8 /\ x = S % 8 /\ S = 8 * o + x
  BY <1>1
<1>3. PICK p \in Nat, y \in 0 .. 7 : p = T \div 8 /\ y = T % 8 /\ T = 8 * p + y
  BY <1>1
<1>4. o \in low .. end - 1 /\ p \in low .. end - 1
  BY <1>1, <1>2, <1>3
<1>5. PICK d \in Nat, e \in Nat :
          d = gbuf[o] /\ e = gbuf[p] /\ d <= gsqueezed - 1 /\ (d = e => o = p)
  <2>1. gbuf[o] \in 0 .. gsqueezed - 1 /\ gbuf[p] \in 0 .. gsqueezed - 1
    BY <1>1, <1>4 DEF Unread
  <2>2. gbuf[o] \in Nat /\ gbuf[p] \in Nat /\ gbuf[o] <= gsqueezed - 1
    BY <2>1
  <2>3. gbuf[o] = gbuf[p] => o = p
    BY <1>1, <1>4 DEF Unread
  <2> QED  BY <2>2, <2>3
<1>6. Name(S) = 8 * d + x /\ Name(T) = 8 * e + y
  BY <1>2, <1>3, <1>5 DEF Name
<1> QED  BY <1>2, <1>3, <1>5, <1>6

(* What is taken next was not taken before, and is thirteen bits. *)
LEMMA TakeBits ==
    ASSUME Unread, at + gpos \in Nat, gsqueezed \in Nat, NEW cs, NEW from \in Nat,
           UsedIs(cs, from), from >= 8 * (at + gpos), from + 13 <= 8 * GroupEnd,
           NEW code, code = [v \in 0 .. 12 |-> {Name(from + v)}]
    PROVE  UsedIs(Append(cs, code), from + 13)
<1> DEFINE New == {{Name(from + v)} : v \in 0 .. 12}
           put == [v \in 1 .. 13 |-> {Name(from + (v - 1))}]
<1>1. cs \in Seq(Codes) /\ Used(cs) \subseteq Singles(8 * gsqueezed) /\ IsFiniteSet(Used(cs))
      /\ Cardinality(Used(cs)) = 13 * Len(cs)
      /\ \A T \in from .. 8 * GroupEnd - 1 : {Name(T)} \notin Used(cs)
  BY DEF UsedIs
<1>2. \A v \in 0 .. 12 : from + v \in 8 * (at + gpos) .. 8 * GroupEnd - 1
                         /\ from + v \in from .. 8 * GroupEnd - 1
  BY GroupSizes
<1>3. \A v \in 0 .. 12 : Name(from + v) \in 0 .. 8 * gsqueezed - 1 /\ Name(from + v) \in Nat
  BY <1>2, NamesApart
<1>4. \A v, w \in 0 .. 12 : Name(from + v) = Name(from + w) => v = w
  <2>1. SUFFICES ASSUME NEW v \in 0 .. 12, NEW w \in 0 .. 12, Name(from + v) = Name(from + w)
                 PROVE  v = w
    OBVIOUS
  <2>2. from + v = from + w
    BY <1>2, <2>1, NamesApart
  <2> QED  BY <2>2
<1>5. Group!Range(code) = New
  BY DEF Group!Range
<1>6. code \in Codes
  BY <1>3 DEF Codes
<1>7. IsFiniteSet(New) /\ Cardinality(New) = 13
  <2>1. put \in Bijection(1 .. 13, New)
    <3>1. \A v \in 1 .. 13 : put[v] \in New
      OBVIOUS
    <3>2. \A n \in New : \E v \in 1 .. 13 : put[v] = n
      <4>1. SUFFICES ASSUME NEW v \in 0 .. 12 PROVE \E w \in 1 .. 13 : put[w] = {Name(from + v)}
        OBVIOUS
      <4>2. v + 1 \in 1 .. 13 /\ (v + 1) - 1 = v
        OBVIOUS
      <4> QED  BY <4>2
    <3>3. \A v, w \in 1 .. 13 : put[v] = put[w] => v = w
      <4>1. SUFFICES ASSUME NEW v \in 1 .. 13, NEW w \in 1 .. 13, put[v] = put[w] PROVE v = w
        OBVIOUS
      <4>2. v - 1 \in 0 .. 12 /\ w - 1 \in 0 .. 12
        OBVIOUS
      <4>3. Name(from + (v - 1)) = Name(from + (w - 1))
        BY <4>1
      <4>4. v - 1 = w - 1
        BY <1>4, <4>2, <4>3
      <4> QED  BY <4>4
    <3>4. put \in [1 .. 13 -> New]
      BY <3>1
    <3> HIDE DEF put, New
    <3> QED  BY <3>2, <3>3, <3>4 DEF Bijection, Injection, IsInjective, Surjection
  <2>2. ExistsBijection(1 .. 13, New)
    BY <2>1 DEF ExistsBijection
  <2>3. IsFiniteSet(1 .. 13)
    <3>1. PICK n \in Nat : n = 13
      OBVIOUS
    <3>2. IsFiniteSet(1 .. n)
      BY FS_Interval
    <3> QED  BY <3>1, <3>2
  <2> HIDE DEF New
  <2> QED  BY <2>2, <2>3, FS_Bijection, FS_CountingElements
<1>8. Used(cs) \cap New = {}
  BY <1>1, <1>2
<1>9. PICK old \in Seq(Codes) : old = cs
  BY <1>1
<1>10. /\ Append(old, code) \in Seq(Codes) /\ Len(Append(old, code)) = Len(old) + 1
       /\ DOMAIN Append(old, code) = 1 .. Len(old) + 1 /\ DOMAIN old = 1 .. Len(old)
       /\ Len(old) \in Nat
       /\ Append(old, code)[Len(old) + 1] = code
       /\ \A x \in 1 .. Len(old) : Append(old, code)[x] = old[x]
  BY <1>6
<1> HIDE DEF New
<1>11. Used(Append(cs, code)) = Used(cs) \cup New
  <2>1. 1 .. Len(old) + 1 = (1 .. Len(old)) \cup {Len(old) + 1}
    BY <1>10
  <2>2. PICK d : d = Append(old, code)
    OBVIOUS
  <2>3. UNION {Group!Range(d[x]) : x \in (1 .. Len(old)) \cup {Len(old) + 1}} =
            (UNION {Group!Range(d[x]) : x \in 1 .. Len(old)}) \cup Group!Range(d[Len(old) + 1])
    OBVIOUS
  <2>4. UNION {Group!Range(d[x]) : x \in 1 .. Len(old)} = UNION {Group!Range(old[x]) : x \in 1 .. Len(old)}
    BY <1>10, <2>2
  <2>5. DOMAIN d = (1 .. Len(old)) \cup {Len(old) + 1} /\ d[Len(old) + 1] = code
    BY <1>10, <2>1, <2>2
  <2>6. Used(d) = UNION {Group!Range(d[x]) : x \in (1 .. Len(old)) \cup {Len(old) + 1}}
    BY <2>5 DEF Used
  <2>7. Used(old) = UNION {Group!Range(old[x]) : x \in 1 .. Len(old)}
    BY <1>10 DEF Used
  <2>8. Used(d) = Used(old) \cup New
    BY <1>5, <2>3, <2>4, <2>5, <2>6, <2>7
  <2> QED  BY <1>9, <2>2, <2>8
<1>12. New \subseteq Singles(8 * gsqueezed)
  BY <1>3 DEF New, Singles
<1>13. IsFiniteSet(Used(cs) \cup New) /\ Cardinality(Used(cs) \cup New) = 13 * Len(cs) + 13
  <2>1. Cardinality(Used(cs) \cup New) =
            Cardinality(Used(cs)) + Cardinality(New) - Cardinality(Used(cs) \cap New)
        /\ IsFiniteSet(Used(cs) \cup New)
    BY <1>1, <1>7, FS_Union
  <2>2. Cardinality(Used(cs) \cap New) = 0
    BY <1>8, FS_EmptySet
  <2>3. Len(cs) \in Nat
    BY <1>9, <1>10
  <2> QED  BY <1>1, <1>7, <2>1, <2>2, <2>3
<1>14. ASSUME NEW T \in from + 13 .. 8 * GroupEnd - 1 PROVE {Name(T)} \notin Used(cs) \cup New
  <2>1. T \in from .. 8 * GroupEnd - 1 /\ T \in 8 * (at + gpos) .. 8 * GroupEnd - 1
    BY GroupSizes
  <2>2. ASSUME NEW v \in 0 .. 12 PROVE Name(T) # Name(from + v)
    <3>1. T # from + v
      OBVIOUS
    <3> QED  BY <1>2, <2>1, <3>1, NamesApart
  <2> QED  BY <1>1, <2>1, <2>2 DEF New
<1>15. 13 * Len(cs) + 13 = 13 * Len(Append(cs, code))
  BY <1>9, <1>10
<1> QED  BY <1>1, <1>9, <1>10, <1>11, <1>12, <1>13, <1>14, <1>15 DEF UsedIs

LEMMA UsedLater ==
    ASSUME NEW cs, NEW from \in Nat, NEW to \in Nat, from <= to, UsedIs(cs, from)
    PROVE  UsedIs(cs, to)
<1>1. \A T \in to .. 8 * GroupEnd - 1 : T \in from .. 8 * GroupEnd - 1
  BY GroupSizes
<1> QED  BY <1>1 DEF UsedIs

LEMMA UnreadLater ==
    ASSUME Unread, NEW low \in Nat, NEW high \in Nat, low <= high,
           low = at + gpos, high = at' + gpos', gbuf' = gbuf, gsqueezed' = gsqueezed
    PROVE  Unread'
<1>1. PICK end \in Nat : end = GroupEnd
  BY GroupSizes
<1>2. \A x \in high .. end - 1 : x \in low .. end - 1
  OBVIOUS
<1> QED  BY <1>1, <1>2 DEF Unread

(* How far a single candidate reads, and where it leaves. *)
LEMMA AheadIs ==
    \A c \in 1 .. 7 :
        /\ Group!Ahead[c] \in 1 .. 12 /\ Group!Past[c] \in 1 .. 12
        /\ 8 * Group!Past[c] >= 13 * c /\ Group!Ahead[c] <= Group!Past[c] + 1
        /\ (13 * c + 12) \div 8 <= Group!Ahead[c]
        /\ c > 1 => Group!Past[c] <= Group!Ahead[c - 1] + 1
        /\ c = 1 => Group!Past[c] = 2
        /\ c = 7 => Group!Ahead[c] = 12
<1>1. SUFFICES ASSUME NEW c \in 1 .. 7
               PROVE  /\ Group!Ahead[c] \in 1 .. 12 /\ Group!Past[c] \in 1 .. 12
                      /\ 8 * Group!Past[c] >= 13 * c /\ Group!Ahead[c] <= Group!Past[c] + 1
                      /\ (13 * c + 12) \div 8 <= Group!Ahead[c]
                      /\ c > 1 => Group!Past[c] <= Group!Ahead[c - 1] + 1
                      /\ c = 1 => Group!Past[c] = 2
                      /\ c = 7 => Group!Ahead[c] = 12
  OBVIOUS
<1>2. c = 1 \/ c = 2 \/ c = 3 \/ c = 4 \/ c = 5 \/ c = 6 \/ c = 7
  OBVIOUS
<1> QED  BY <1>2 DEF Group!Ahead, Group!Past

LEMMA GroupInit == Group!Init => GroupInv
<1> SUFFICES ASSUME Group!Init PROVE GroupInv
  OBVIOUS
<1>1. /\ at = 0 /\ len = GroupEnd /\ gsqueezed = GroupEnd /\ gpos = 0 /\ gctr = 0 /\ gk = 1
      /\ gpc = "groups" /\ candidates = << >>
      /\ gbuf = [x \in 0 .. Group!Capacity - 1 |-> IF x < GroupEnd THEN x ELSE -1]
  BY DEF Group!Init, GroupEnd, Group!Stale
<1>2. Places
  BY <1>1, GroupSizes DEF Places
<1>3. Unread
  <2>1. \A x \in at + gpos .. GroupEnd - 1 : x \in 0 .. Group!Capacity - 1 /\ gbuf[x] = x
    BY <1>1, GroupSizes
  <2>2. gbuf \in [0 .. Group!Capacity - 1 -> Int]
    BY <1>1, GroupSizes
  <2>3. \A x \in at + gpos .. GroupEnd - 1 : x \in 0 .. gsqueezed - 1
    BY <1>1, GroupSizes
  <2> QED  BY <2>1, <2>2, <2>3 DEF Unread
<1>4. UsedIs(candidates, 0)
  <2>1. Used(<< >>) = {} /\ << >> \in Seq(Codes) /\ Len(<< >>) = 0
    BY DEF Used
  <2> QED  BY <1>1, <2>1, FS_EmptySet DEF UsedIs
<1>5. 8 * (at + gpos) + 13 * (gk - 1) = 0
  BY <1>1
<1> QED  BY <1>2, <1>3, <1>4, <1>5 DEF GroupInv

LEMMA GroupTakes == ASSUME GroupInv, NEW n \in 0 .. 8, Group!TakeGroup(n) PROVE GroupInv'
<1>1. /\ at \in Nat /\ len \in Nat /\ gpos \in Nat /\ gpos + 13 <= len /\ at + len = GroupEnd
      /\ gk = 1 /\ gctr + 8 <= GroupN /\ gctr \in 0 .. GroupN /\ gsqueezed \in Nat
      /\ gpc = "groups"
  BY DEF GroupInv, Places, Group!TakeGroup, Group!QBITS
<1>2. /\ gctr' = gctr + n /\ gpos' = gpos + 13
      /\ candidates' = candidates \o [c \in 1 .. 8 |-> Group!Bits(c)]
      /\ gbuf' = gbuf /\ at' = at /\ len' = len /\ gk' = gk /\ gpc' = gpc /\ gsqueezed' = gsqueezed
  BY DEF Group!TakeGroup, Group!QBITS
<1>3. PICK from \in Nat, low \in Nat : low = at + gpos /\ from = 8 * low
  BY <1>1
<1>4. UsedIs(candidates, from)
  <2>1. 8 * (at + gpos) + 13 * (gk - 1) = from
    BY <1>1, <1>3
  <2> QED  BY <2>1 DEF GroupInv
<1>5. \A x \in 0 .. 12 : gbuf[low + x] \in Nat
  <2>1. SUFFICES ASSUME NEW x \in 0 .. 12 PROVE gbuf[low + x] \in Nat
    OBVIOUS
  <2>2. low + x \in at + gpos .. GroupEnd - 1
    BY <1>1, <1>3
  <2> QED  BY <1>1, <2>2 DEF GroupInv, Unread
<1>6. PICK cs \in Seq(Codes) : cs = candidates
  BY DEF GroupInv, UsedIs
<1> DEFINE taken(m) == cs \o [c \in 1 .. m |-> Group!Bits(c)]
           T == {m \in Nat : m <= 8 => UsedIs(taken(m), from + 13 * m)}
<1>7. 0 \in T
  <2>1. taken(0) = cs
    OBVIOUS
  <2>2. from + 13 * 0 = from
    OBVIOUS
  <2> QED  BY <1>4, <1>6, <2>1, <2>2
<1>8. \A c \in 1 .. 8 : /\ Group!Bits(c) = [v \in 0 .. 12 |-> {Name(from + 13 * (c - 1) + v)}]
                        /\ Group!Bits(c) \in Codes
  <2>1. SUFFICES ASSUME NEW c \in 1 .. 8
                 PROVE /\ Group!Bits(c) = [v \in 0 .. 12 |-> {Name(from + 13 * (c - 1) + v)}]
                       /\ Group!Bits(c) \in Codes
    OBVIOUS
  <2>2. at + gpos \in Nat /\ \A x \in 0 .. 12 : gbuf[at + gpos + x] \in Nat
    BY <1>3, <1>5
  <2>3. Group!Bits(c) = [v \in 0 .. 12 |-> {Name(from + 13 * (c - 1) + v)}]
    BY <1>3, <2>2, BitsAre
  <2>4. ASSUME NEW v \in 0 .. 12 PROVE Name(from + 13 * (c - 1) + v) \in Nat
    <3>1. from + 13 * (c - 1) + v \in 8 * (at + gpos) .. 8 * GroupEnd - 1
      BY <1>1, <1>3
    <3> QED  BY <1>1, <2>2, <3>1, NamesApart DEF GroupInv
  <2> QED  BY <2>3, <2>4 DEF Codes
<1>9. ASSUME NEW m \in T PROVE m + 1 \in T
  <2>1. m \in Nat
    OBVIOUS
  <2>2. SUFFICES ASSUME m + 1 <= 8 PROVE UsedIs(taken(m + 1), from + 13 * (m + 1))
    BY <2>1
  <2>3. UsedIs(taken(m), from + 13 * m)
    BY <2>1, <2>2
  <2>4. PICK code : code = Group!Bits(m + 1)
    OBVIOUS
  <2>5. PICK done \in Seq(Codes), more \in Seq(Codes) :
            /\ done = [c \in 1 .. m |-> Group!Bits(c)] /\ more = [c \in 1 .. m + 1 |-> Group!Bits(c)]
            /\ Len(done) = m /\ Len(more) = m + 1
    <3>1. (\A c \in 1 .. m : Group!Bits(c) \in Codes)
          /\ (\A c \in 1 .. m + 1 : Group!Bits(c) \in Codes)
      BY <1>8, <2>1, <2>2
    <3>2. PICK done : done = [c \in 1 .. m |-> Group!Bits(c)]
      OBVIOUS
    <3>3. PICK more : more = [c \in 1 .. m + 1 |-> Group!Bits(c)]
      OBVIOUS
    <3>4. done \in Seq(Codes) /\ Len(done) = m
      BY <2>1, <3>1, <3>2
    <3>5. more \in Seq(Codes) /\ Len(more) = m + 1
      BY <2>1, <3>1, <3>3
    <3> QED  BY <3>2, <3>3, <3>4, <3>5
  <2>6. more = Append(done, code) /\ code \in Codes
    <3>1. \A c \in 1 .. m : more[c] = done[c]
      BY <2>1, <2>5
    <3>2. more[m + 1] = code
      BY <2>1, <2>4, <2>5
    <3>3. code \in Codes
      BY <1>8, <2>1, <2>2, <2>4
    <3> QED  BY <2>1, <2>5, <3>1, <3>2, <3>3
  <2>7. cs \o more = Append(cs \o done, code)
    BY <2>6
  <2>8. code = [v \in 0 .. 12 |-> {Name((from + 13 * m) + v)}]
    <3>1. m + 1 \in 1 .. 8 /\ (m + 1) - 1 = m
      BY <2>1, <2>2
    <3> QED  BY <1>8, <2>4, <3>1
  <2>9. /\ from + 13 * m >= 8 * (at + gpos) /\ (from + 13 * m) + 13 <= 8 * GroupEnd
        /\ from + 13 * m \in Nat /\ (from + 13 * m) + 13 = from + 13 * (m + 1)
    BY <1>1, <1>3, <2>1, <2>2
  <2>10. UsedIs(cs \o done, from + 13 * m)
    BY <2>3, <2>5
  <2>11. UsedIs(Append(cs \o done, code), (from + 13 * m) + 13)
    <3>1. Unread /\ at + gpos \in Nat
      BY <1>1 DEF GroupInv
    <3> HIDE DEF T
    <3> QED  BY <1>1, <2>8, <2>9, <2>10, <3>1, TakeBits
  <2> QED  BY <2>5, <2>7, <2>9, <2>11
<1>10. T = Nat
  <2> HIDE DEF T
  <2>1. T \subseteq Nat
    BY DEF T
  <2> QED  BY <1>7, <1>9, <2>1, Induction
<1>11. UsedIs(candidates', from + 104)
  <2>1. 8 \in T
    BY <1>10
  <2>2. UsedIs(taken(8), from + 13 * 8)
    BY <2>1
  <2> HIDE DEF T
  <2> QED  BY <1>2, <1>6, <2>2
<1>12. UsedIs(candidates, 8 * (at + gpos) + 13 * (gk - 1))'
  <2>1. 8 * (at + (gpos + 13)) + 13 * (gk - 1) = from + 104
    BY <1>1, <1>3
  <2>2. UsedIs(candidates, from + 104)'
    BY <1>2, <1>11 DEF UsedIs, Used, Name
  <2> QED  BY <1>2, <2>1, <2>2
<1>13. Places'
  <2>1. at' \in Nat /\ len' \in Nat /\ gpos' \in 0 .. len' /\ at' + len' = GroupEnd
    BY <1>1, <1>2
  <2>2. gctr' \in 0 .. GroupN /\ gk' = 1 /\ gpc' = "groups" /\ gsqueezed' \in Nat
    BY <1>1, <1>2, GroupSizes
  <2> QED  BY <2>1, <2>2 DEF Places
<1>14. Unread'
  <2>1. low \in Nat /\ low + 13 \in Nat /\ low <= low + 13 /\ low + 13 = at' + gpos'
    BY <1>1, <1>2, <1>3
  <2> QED  BY <1>2, <1>3, <2>1, UnreadLater DEF GroupInv
<1> QED  BY <1>12, <1>13, <1>14 DEF GroupInv

LEMMA GroupTakesSingle ==
    ASSUME GroupInv, NEW fits \in BOOLEAN, Group!TakeSingle(fits)
    PROVE  GroupInv'
<1>1. /\ at \in Nat /\ len \in Nat /\ gpos \in Nat /\ gpos <= len /\ at + len = GroupEnd
      /\ gk \in 1 .. 8 /\ gctr \in 0 .. GroupN /\ gsqueezed \in Nat /\ gpc = "single"
      /\ gk = 1 => gctr < GroupN /\ gpos + 2 <= len
      /\ gk > 1 => gpos + Group!Ahead[gk - 1] < len /\ gctr < GroupN
  BY DEF GroupInv, Places, Group!TakeSingle
<1>2. /\ candidates' = Append(candidates, Group!Bits(gk))
      /\ gctr' = IF fits THEN gctr + 1 ELSE gctr
      /\ gbuf' = gbuf /\ at' = at /\ len' = len /\ gsqueezed' = gsqueezed
      /\ IF gk = 8
         THEN gpos' = gpos + 13 /\ gk' = 1 /\ gpc' = gpc
         ELSE IF gctr' >= GroupN \/ gpos + Group!Ahead[gk] >= len
              THEN gpos' = gpos + Group!Past[gk] /\ gk' = 1 /\ gpc' = "return"
              ELSE gk' = gk + 1 /\ gpos' = gpos /\ gpc' = gpc
  BY DEF Group!TakeSingle, Group!QBITS
<1>3. PICK low \in Nat, from \in Nat, c \in 1 .. 8, p \in Nat, end \in Nat, ctr \in 0 .. GroupN,
           left \in Nat :
          /\ low = at + gpos /\ c = gk /\ from = 8 * low + 13 * (c - 1) /\ p = gpos /\ end = GroupEnd
          /\ ctr = gctr /\ ctr < GroupN /\ left = len - gpos /\ end = low + left
  <2>1. at + gpos \in Nat /\ GroupEnd \in Nat /\ len - gpos \in Nat /\ gctr < GroupN
    BY <1>1, GroupSizes
  <2>2. 8 * (at + gpos) + 13 * (gk - 1) \in Nat
    BY <1>1
  <2>3. GroupEnd = (at + gpos) + (len - gpos)
    BY <1>1
  <2> QED  BY <1>1, <2>1, <2>2, <2>3
<1>4. UsedIs(candidates, from) /\ Unread /\ at + gpos \in Nat
  BY <1>3 DEF GroupInv
<1>5. /\ c = 1 => 2 <= left
      /\ c > 1 => Group!Ahead[c - 1] < left
  <2>1. CASE c = 1
    BY <1>1, <1>3, <2>1
  <2>2. CASE c > 1
    <3>1. PICK more \in Nat : more = Group!Ahead[c - 1]
      BY <2>2, AheadIs
    <3>2. p + more < len
      BY <1>1, <1>3, <2>2, <3>1
    <3>3. more < left
      BY <1>1, <1>3, <3>2
    <3> QED  BY <2>2, <3>1, <3>3
  <2> QED  BY <2>1, <2>2
<1>6. (13 * (c - 1) + 12) \div 8 < left /\ 13 * c <= 8 * left
  <2>1. CASE c = 1
    BY <1>5, <2>1
  <2>2. CASE c > 1
    <3>1. PICK prev \in 1 .. 7 : prev = c - 1
      BY <2>2
    <3>2. PICK more \in Nat : more = Group!Ahead[prev] /\ (13 * prev + 12) \div 8 <= more
      BY AheadIs
    <3>3. more < left
      BY <1>5, <2>2, <3>1, <3>2
    <3>4. (13 * prev + 12) \div 8 < left
      BY <3>2, <3>3
    <3>5. 13 * prev + 13 <= 8 * left
      BY <3>4
    <3> QED  BY <3>1, <3>4, <3>5
  <2> QED  BY <2>1, <2>2
<1>7. PICK code : code = Group!Bits(c) /\ code = [v \in 0 .. 12 |-> {Name(from + v)}]
  <2>1. ASSUME NEW x \in 0 .. 12, x <= (13 * (c - 1) + 12) \div 8
        PROVE  gbuf[at + gpos + x] \in Nat
    <3>1. x < left
      BY <1>6, <2>1
    <3>2. low + x \in low .. end - 1
      BY <1>3, <3>1
    <3>3. gbuf[low + x] \in 0 .. gsqueezed - 1
      BY <1>3, <1>4, <3>2 DEF Unread
    <3> QED  BY <1>1, <1>3, <3>3
  <2> QED  BY <1>3, <1>4, <2>1, BitsAre
<1>8. UsedIs(candidates', from + 13)
  <2>1. from >= 8 * (at + gpos) /\ from + 13 <= 8 * GroupEnd
    BY <1>3, <1>6
  <2> QED  BY <1>1, <1>2, <1>3, <1>4, <1>7, <2>1, TakeBits
<1>9. gctr' \in 0 .. GroupN
  BY <1>2, <1>3, GroupSizes
<1> DEFINE to == 8 * (at' + gpos') + 13 * (gk' - 1)
<1>10. /\ gpos' \in Nat /\ gpos <= gpos' /\ gpos' <= len /\ gk' \in 1 .. 8
       /\ to \in Nat /\ from + 13 <= to
       /\ gpc' # "single" => gk' = 1
       /\ gpc' = "single" /\ gk' > 1 => gpos' + Group!Ahead[gk' - 1] < len /\ gctr' < GroupN
       /\ gpc' = "return" /\ gctr' < GroupN => len - gpos' <= 12
  <2>1. CASE gk = 8
    <3>1. gpos' = gpos + 13 /\ gk' = 1 /\ gpc' = "single"
      BY <1>1, <1>2, <2>1
    <3>2. 12 < left
      BY <1>3, <1>5, <2>1, AheadIs
    <3>3. gpos + 13 <= len
      BY <1>1, <1>3, <3>2
    <3>4. to = 8 * low + 104 /\ from + 13 = 8 * low + 104
      BY <1>1, <1>2, <1>3, <2>1, <3>1
    <3> HIDE DEF to
    <3> QED  BY <1>1, <1>3, <3>1, <3>3, <3>4
  <2>2. CASE gk # 8 /\ ~(gctr' >= GroupN \/ gpos + Group!Ahead[gk] >= len)
    <3>1. gpos' = gpos /\ gk' = gk + 1 /\ gpc' = "single"
      BY <1>1, <1>2, <2>2
    <3>2. gctr' < GroupN
      BY <1>9, <2>2, GroupSizes
    <3>3. gpos + Group!Ahead[gk] < len
      <4>1. gk \in 1 .. 7
        BY <1>1, <2>2
      <4>2. PICK more \in Nat : more = Group!Ahead[gk]
        BY <4>1, AheadIs
      <4> QED  BY <1>1, <2>2, <4>2
    <3>4. to = from + 13
      BY <1>1, <1>2, <1>3, <3>1
    <3>5. gk' - 1 = gk /\ gk' \in 1 .. 8
      BY <1>1, <2>2, <3>1
    <3> HIDE DEF to
    <3> QED  BY <1>1, <1>3, <3>1, <3>2, <3>3, <3>4, <3>5
  <2>3. CASE gk # 8 /\ (gctr' >= GroupN \/ gpos + Group!Ahead[gk] >= len)
    <3>1. gpos' = gpos + Group!Past[gk] /\ gk' = 1 /\ gpc' = "return"
      BY <1>2, <2>3
    <3>2. gk \in 1 .. 7
      BY <1>1, <2>3
    <3>3. PICK past \in 1 .. 12, ahead \in 1 .. 12 :
              /\ past = Group!Past[gk] /\ ahead = Group!Ahead[gk]
              /\ 8 * past >= 13 * gk /\ ahead <= past + 1
      BY <3>2, AheadIs
    <3>4. past <= left
      <4>1. CASE gk = 1
        BY <1>3, <1>5, <3>2, <3>3, <4>1, AheadIs
      <4>2. CASE gk > 1
        <5>1. PICK more \in Nat : more = Group!Ahead[gk - 1] /\ past <= more + 1
          <6>1. gk - 1 \in 1 .. 7
            BY <3>2, <4>2
          <6> QED  BY <3>2, <3>3, <4>2, <6>1, AheadIs
        <5>2. more < left
          BY <1>3, <1>5, <4>2, <5>1
        <5> QED  BY <5>1, <5>2
      <4> QED  BY <3>2, <4>1, <4>2
    <3>5. gpos' = p + past /\ p + past <= len
      BY <1>1, <1>3, <3>1, <3>3, <3>4
    <3>6. to = 8 * low + 8 * past
      BY <1>1, <1>2, <1>3, <3>1, <3>3
    <3>7. from + 13 <= 8 * low + 8 * past
      BY <1>3, <3>3
    <3>8. ASSUME gctr' < GroupN PROVE len - gpos' <= 12
      <4>1. p + ahead >= len
        BY <1>3, <1>9, <2>3, <3>3, <3>8, GroupSizes
      <4> QED  BY <1>1, <1>3, <3>3, <3>5, <4>1
    <3> HIDE DEF to
    <3> QED  BY <1>3, <3>1, <3>5, <3>6, <3>7, <3>8
  <2> QED  BY <2>1, <2>2, <2>3
<1> HIDE DEF to
<1>11. UsedIs(candidates', to)
  BY <1>8, <1>10, UsedLater
<1>12. UsedIs(candidates, 8 * (at + gpos) + 13 * (gk - 1))'
  <2>1. PICK there \in Nat : there = to
    BY <1>10
  <2>2. UsedIs(candidates, there)'
    BY <1>2, <1>11, <2>1 DEF UsedIs, Used, Name
  <2> QED  BY <2>1, <2>2 DEF to
<1>13. Places'
  <2>1. at' \in Nat /\ len' \in Nat /\ gpos' \in 0 .. len' /\ at' + len' = GroupEnd
    BY <1>1, <1>2, <1>10
  <2>2. gpc' = "return" /\ gctr' < GroupN => len' - gpos' <= 12
    BY <1>2, <1>10
  <2>3. gpc' = "single" /\ gk' > 1 => gpos' + Group!Ahead[gk' - 1] < len' /\ gctr' < GroupN
    BY <1>2, <1>10
  <2>4. gsqueezed' \in Nat /\ gk' \in 1 .. 8 /\ (gpc' # "single" => gk' = 1)
    BY <1>1, <1>2, <1>10
  <2> QED  BY <1>9, <2>1, <2>2, <2>3, <2>4 DEF Places
<1>14. Unread'
  <2>1. PICK high \in Nat : high = at' + gpos' /\ low <= high
    <3>1. PICK next \in Nat : next = gpos' /\ p <= next
      BY <1>3, <1>10
    <3>2. PICK start \in Nat : start = at /\ start = at'
      BY <1>1, <1>2
    <3>3. low = start + p
      BY <1>3, <3>2
    <3>4. p <= next
      BY <3>1
    <3>5. start + next \in Nat /\ start + p <= start + next
      BY <3>4
    <3> QED  BY <3>1, <3>2, <3>3, <3>5
  <2> QED  BY <1>2, <1>3, <1>4, <2>1, UnreadLater
<1> QED  BY <1>12, <1>13, <1>14 DEF GroupInv

LEMMA GroupLeaves == ASSUME GroupInv, Group!LeaveGroups \/ Group!LeaveSingles PROVE GroupInv'
<1>1. /\ at \in Nat /\ len \in Nat /\ gpos \in 0 .. len /\ at + len = GroupEnd
      /\ gctr \in 0 .. GroupN /\ gk = 1 /\ gsqueezed \in Nat
  BY DEF GroupInv, Places, Group!LeaveGroups, Group!LeaveSingles
<1>2. UNCHANGED <<gbuf, at, len, gpos, gctr, gk, gsqueezed, candidates>>
  BY DEF Group!LeaveGroups, Group!LeaveSingles
<1>3. gpc' = "return" /\ gctr < GroupN => len - gpos <= 12
  <2>1. CASE Group!LeaveGroups
    <3>1. ASSUME gpc' = "return" PROVE len - gpos <= 12
      <4>1. ~(gctr + 8 <= GroupN /\ gpos + 13 <= len) /\ gctr + 8 <= GroupN
        BY <2>1, <3>1 DEF Group!LeaveGroups, Group!QBITS
      <4>2. ~(gpos + 13 <= len)
        BY <4>1
      <4> QED  BY <1>1, <4>2
    <3> QED  BY <3>1
  <2>2. CASE Group!LeaveSingles
    <3>1. ASSUME gctr < GroupN PROVE len - gpos <= 12
      <4>1. ~(gpos + 2 <= len)
        BY <2>2, <3>1 DEF Group!LeaveSingles
      <4> QED  BY <1>1, <4>1
    <3> QED  BY <3>1
  <2> QED  BY <2>1, <2>2
<1>4. Places'
  <2>1. at' \in Nat /\ len' \in Nat /\ gpos' \in 0 .. len' /\ at' + len' = GroupEnd
    BY <1>1, <1>2
  <2>2. gctr' \in 0 .. GroupN /\ gk' = 1 /\ gsqueezed' \in Nat
    BY <1>1, <1>2
  <2>3. gpc' = "return" /\ gctr' < GroupN => len' - gpos' <= 12
    BY <1>2, <1>3
  <2>4. ~(gk' > 1) /\ gk' \in 1 .. 8
    BY <2>2
  <2> QED  BY <2>1, <2>2, <2>3, <2>4 DEF Places
<1>5. Unread'
  BY <1>2 DEF GroupInv, Unread
<1>6. UsedIs(candidates, 8 * (at + gpos) + 13 * (gk - 1))'
  BY <1>2 DEF GroupInv, UsedIs, Used, Name
<1> QED  BY <1>4, <1>5, <1>6 DEF GroupInv

LEMMA GroupDone == ASSUME GroupInv, Group!Done \/ UNCHANGED groupVars PROVE GroupInv'
<1>1. UNCHANGED <<gbuf, at, len, gpos, gctr, gk, gsqueezed, candidates>>
  BY DEF Group!Done, groupVars
<1>2. gpc' = gpc \/ (gpc' = "done" /\ gpc = "return")
  BY DEF Group!Done, groupVars
<1>3. Places'
  BY <1>1, <1>2 DEF GroupInv, Places
<1>4. Unread'
  BY <1>1 DEF GroupInv, Unread
<1>5. UsedIs(candidates, 8 * (at + gpos) + 13 * (gk - 1))'
  BY <1>1 DEF GroupInv, UsedIs, Used, Name
<1> QED  BY <1>3, <1>4, <1>5 DEF GroupInv

(* Refilled, the buffer begins with bytes that were never read. *)
LEMMA GroupRefills == ASSUME GroupInv, Group!Refill PROVE GroupInv'
<1>1. PICK rate \in Nat, low \in Nat, end \in Nat, left \in Nat, sq \in Nat, new \in Nat :
          /\ rate = GroupRate /\ low = at + gpos /\ end = GroupEnd /\ left = len - gpos
          /\ sq = gsqueezed /\ new = low - rate /\ end = low + left /\ left <= 12
          /\ end <= Group!Capacity /\ Group!Capacity \in Nat
  <2>1. /\ at \in Nat /\ len \in Nat /\ gpos \in 0 .. len /\ at + len = GroupEnd
        /\ gsqueezed \in Nat /\ len - gpos <= 12
    BY DEF GroupInv, Places, Group!Refill
  <2>2. GroupRate \in Nat /\ GroupEnd \in Nat /\ GroupEnd - 12 >= GroupRate
        /\ GroupEnd <= Group!Capacity /\ Group!Capacity \in Nat
    BY GroupSizes
  <2>3. PICK d \in Nat, e \in Nat, f \in Nat : d = at /\ e = len /\ f = gpos /\ f <= e
    BY <2>1
  <2>4. PICK r \in Nat, z \in Nat : r = GroupRate /\ z = GroupEnd /\ z - 12 >= r
    BY <2>2
  <2>5. e - f <= 12 /\ d + e = z
    BY <2>1, <2>3, <2>4
  <2>6. d + f \in Nat /\ e - f \in Nat /\ (d + f) - r \in Nat /\ z = (d + f) + (e - f)
    BY <2>3, <2>4, <2>5
  <2> QED  BY <2>1, <2>2, <2>3, <2>4, <2>5, <2>6
<1>2. /\ at' = new /\ len' = left + rate /\ gpos' = 0 /\ gsqueezed' = sq + rate
      /\ gctr' = gctr /\ gk' = gk /\ gpc' = "groups" /\ candidates' = candidates /\ gk = 1
      /\ gctr \in 0 .. GroupN
  <2>1. /\ at' = at + gpos - GroupRate /\ len' = len - gpos + GroupRate /\ gpos' = 0
        /\ gsqueezed' = gsqueezed + GroupRate /\ gctr' = gctr /\ gk' = gk /\ gpc' = "groups"
        /\ candidates' = candidates
    BY DEF Group!Refill
  <2>2. gk = 1 /\ gctr \in 0 .. GroupN
    BY DEF Group!Refill, GroupInv, Places
  <2>3. at' = new
    <3>1. low = at + gpos /\ rate = GroupRate /\ new = low - rate
      BY <1>1
    <3>2. at' = (at + gpos) - GroupRate
      <4>1. PICK d \in Nat, e \in Nat, r \in Nat : d = at /\ e = gpos /\ r = GroupRate
        BY GroupSizes DEF GroupInv, Places
      <4>2. d + (e - r) = (d + e) - r
        OBVIOUS
      <4>3. at' = d + (e - r)
        BY <2>1, <4>1, Zenon
      <4> QED  BY <4>1, <4>2, <4>3, Zenon
    <3>3. at' = low - rate
      BY <3>1, <3>2, Zenon
    <3> QED  BY <3>1, <3>3
  <2>4. len' = left + rate
    BY <1>1, <2>1
  <2>5. gsqueezed' = sq + rate
    BY <1>1, <2>1
  <2> QED  BY <2>1, <2>2, <2>3, <2>4, <2>5
<1>3. /\ gbuf \in [0 .. Group!Capacity - 1 -> Int]
      /\ \A x \in low .. end - 1 : gbuf[x] \in 0 .. sq - 1
      /\ \A x, y \in low .. end - 1 : gbuf[x] = gbuf[y] => x = y
  BY <1>1 DEF GroupInv, Unread
<1>4. gbuf' = [x \in 0 .. Group!Capacity - 1 |->
                  IF x \in new .. new + rate - 1 THEN sq + x - new ELSE gbuf[x]]
  <2>1. gbuf' = [x \in DOMAIN gbuf |->
                     IF x \in at' .. at' + GroupRate - 1 THEN gsqueezed + x - at' ELSE gbuf[x]]
    BY DEF Group!Refill
  <2>2. DOMAIN gbuf = 0 .. Group!Capacity - 1
    BY <1>3
  <2> QED  BY <1>1, <1>2, <2>1, <2>2
<1>5. low = new + rate
  BY <1>1
<1>6. ASSUME NEW x \in new .. end - 1
      PROVE  \/ x \in new .. low - 1 /\ gbuf'[x] = sq + x - new
             \/ x \in low .. end - 1 /\ gbuf'[x] = gbuf[x]
  <2>1. x \in 0 .. Group!Capacity - 1
    BY <1>1
  <2> QED  BY <1>4, <1>5, <2>1
<1>7. Places'
  <2>1. new + (left + rate) = end
    BY <1>1, <1>5
  <2>2. 0 \in 0 .. left + rate /\ left + rate \in Nat /\ sq + rate \in Nat
    OBVIOUS
  <2> QED  BY <1>1, <1>2, <2>1, <2>2 DEF Places
<1>8. Unread'
  <2>1. ASSUME NEW x \in new .. end - 1 PROVE gbuf'[x] \in 0 .. sq + rate - 1
    <3>1. CASE x \in new .. low - 1 /\ gbuf'[x] = sq + x - new
      BY <1>5, <3>1
    <3>2. CASE x \in low .. end - 1 /\ gbuf'[x] = gbuf[x]
      <4>1. gbuf[x] \in 0 .. sq - 1
        BY <1>3, <3>2
      <4> QED  BY <3>2, <4>1
    <3> QED  BY <1>6, <3>1, <3>2
  <2>2. ASSUME NEW x \in new .. end - 1, NEW y \in new .. end - 1, gbuf'[x] = gbuf'[y]
        PROVE  x = y
    <3>1. CASE x \in new .. low - 1 /\ gbuf'[x] = sq + x - new
      <4>1. CASE y \in new .. low - 1 /\ gbuf'[y] = sq + y - new
        <5>1. sq + x - new = sq + y - new
          BY <2>2, <3>1, <4>1
        <5> QED  BY <5>1
      <4>2. CASE y \in low .. end - 1 /\ gbuf'[y] = gbuf[y]
        <5>1. PICK b \in 0 .. sq - 1 : b = gbuf[y]
          BY <1>3, <4>2
        <5>2. b = sq + x - new
          BY <2>2, <3>1, <4>2, <5>1
        <5> QED  BY <5>2
      <4> QED  BY <1>6, <4>1, <4>2
    <3>2. CASE x \in low .. end - 1 /\ gbuf'[x] = gbuf[x]
      <4>1. CASE y \in new .. low - 1 /\ gbuf'[y] = sq + y - new
        <5>1. PICK b \in 0 .. sq - 1 : b = gbuf[x]
          BY <1>3, <3>2
        <5>2. b = sq + y - new
          BY <2>2, <3>2, <4>1, <5>1
        <5> QED  BY <5>2
      <4>2. CASE y \in low .. end - 1 /\ gbuf'[y] = gbuf[y]
        BY <1>3, <2>2, <3>2, <4>2
      <4> QED  BY <1>6, <4>1, <4>2
    <3> QED  BY <1>6, <3>1, <3>2
  <2>3. gbuf' \in [0 .. Group!Capacity - 1 -> Int]
    <3>1. ASSUME NEW x \in 0 .. Group!Capacity - 1
          PROVE  (IF x \in new .. new + rate - 1 THEN sq + x - new ELSE gbuf[x]) \in Int
      BY <1>3
    <3> QED  BY <1>4, <3>1
  <2>4. at' + gpos' = new
    BY <1>2
  <2>5. at' + gpos' .. GroupEnd - 1 = new .. end - 1
    BY <1>1, <2>4
  <2>6. 0 .. gsqueezed' - 1 = 0 .. sq + rate - 1
    BY <1>2
  <2> QED  BY <2>1, <2>2, <2>3, <2>5, <2>6 DEF Unread
<1>9. UsedIs(candidates, 8 * (at + gpos) + 13 * (gk - 1))'
  <2>1. UsedIs(candidates, 8 * low)
    <3>1. 8 * (at + gpos) + 13 * (gk - 1) = 8 * low
      BY <1>1, <1>2
    <3> QED  BY <3>1 DEF GroupInv
  <2>2. Used(candidates) \subseteq Singles(8 * (sq + rate))
    <3>1. Singles(8 * sq) \subseteq Singles(8 * (sq + rate))
      BY DEF Singles
    <3> QED  BY <1>1, <2>1, <3>1 DEF UsedIs
  <2>3. ASSUME NEW T \in 8 * new .. 8 * end - 1
        PROVE  {8 * gbuf'[T \div 8] + (T % 8)} \notin Used(candidates)
    <3>1. PICK o \in Nat, x \in 0 .. 7 : o = T \div 8 /\ x = T % 8 /\ T = 8 * o + x
      OBVIOUS
    <3>2. o \in new .. end - 1
      BY <3>1
    <3>3. CASE o \in new .. low - 1 /\ gbuf'[o] = sq + o - new
      <4>1. PICK m \in Nat : m = sq + o - new /\ m >= sq
        <5>1. sq + o - new \in Nat /\ sq + o - new >= sq
          BY <3>2
        <5> QED  BY <5>1
      <4>2. {8 * m + x} \notin Singles(8 * sq)
        BY <4>1 DEF Singles
      <4>3. Used(candidates) \subseteq Singles(8 * sq)
        BY <1>1, <2>1 DEF UsedIs
      <4> QED  BY <3>1, <3>3, <4>1, <4>2, <4>3
    <3>4. CASE o \in low .. end - 1 /\ gbuf'[o] = gbuf[o]
      <4>1. T \in 8 * low .. 8 * GroupEnd - 1
        BY <1>1, <3>1, <3>4
      <4>2. {Name(T)} \notin Used(candidates)
        BY <2>1, <4>1 DEF UsedIs
      <4> QED  BY <3>1, <3>4, <4>2 DEF Name
    <3> QED  BY <1>6, <3>2, <3>3, <3>4
  <2>4. UsedIs(candidates, 8 * new)'
    <3>1. /\ candidates \in Seq(Codes) /\ IsFiniteSet(Used(candidates))
          /\ Cardinality(Used(candidates)) = 13 * Len(candidates)
      BY <2>1 DEF UsedIs
    <3>2. Used(candidates') = Used(candidates) /\ gsqueezed' = sq + rate
      BY <1>2
    <3>3. \A T \in 8 * new .. 8 * GroupEnd - 1 : {Name(T)'} \notin Used(candidates)
      BY <1>1, <2>3 DEF Name
    <3>4. Used(candidates') \subseteq Singles(8 * gsqueezed')
      BY <2>2, <3>2
    <3> QED  BY <1>2, <3>1, <3>2, <3>3, <3>4 DEF UsedIs
  <2>5. 8 * (at' + gpos') + 13 * (gk' - 1) = 8 * new
    BY <1>2
  <2> QED  BY <2>4, <2>5
<1> QED  BY <1>7, <1>8, <1>9 DEF GroupInv

LEMMA GroupNext == GroupInv /\ [Group!Next]_groupVars => GroupInv'
<1> SUFFICES ASSUME GroupInv, [Group!Next]_groupVars PROVE GroupInv'
  OBVIOUS
<1> QED  BY GroupTakes, GroupTakesSingle, GroupLeaves, GroupDone, GroupRefills DEF Group!Next

LEMMA CountsAsGroup == \A S : Group!Cardinality(S) = Cardinality(S)
BY DEF Cardinality, Group!Cardinality

(* GroupInv says of the bits what the run checks.                          *)
LEMMA GroupSamples == GroupInv => Group!EachBitOnce
<1> SUFFICES ASSUME GroupInv PROVE Group!EachBitOnce
  OBVIOUS
<1>1. PICK m \in Nat : m = gsqueezed
  BY DEF GroupInv, Places
<1>2. /\ Used(candidates) \subseteq Singles(8 * m)
      /\ Cardinality(Used(candidates)) = 13 * Len(candidates)
  BY <1>1 DEF GroupInv, UsedIs
<1>3. \A bits \in Used(candidates) : Cardinality(bits) = 1
  BY <1>2, FS_Singleton DEF Singles
<1>4. UNION Used(candidates) \subseteq 0 .. 8 * m - 1
  BY <1>2 DEF Singles
<1>5. gctr <= GroupN
  BY DEF GroupInv, Places
<1> QED  BY <1>1, <1>2, <1>3, <1>4, <1>5, CountsAsGroup
         DEF Group!EachBitOnce, Used, Group!QBITS

-----------------------------------------------------------------------------
SamplingInv ==
    /\ IF running = "refilled" THEN RejInv ELSE returned = FALSE
    /\ IF running = "groups" THEN GroupInv ELSE candidates = << >> /\ gctr = 0

LEMMA SamplingInvariant == MCSpec => []SamplingInv
<1>1. MCInit => SamplingInv
  BY RejInit, GroupInit DEF MCInit, NoRej, NoGroup, SamplingInv
<1>2. SamplingInv /\ [MCNext]_<<running, challengeVars, rejVars, fixedVars, groupVars>>
          => SamplingInv'
  <2> SUFFICES ASSUME SamplingInv,
                      [MCNext]_<<running, challengeVars, rejVars, fixedVars, groupVars>>
               PROVE  SamplingInv'
    OBVIOUS
  <2>1. /\ running' = running
        /\ IF running = "refilled" THEN [Rej!Next]_rejVars ELSE UNCHANGED rejVars
        /\ IF running = "groups" THEN [Group!Next]_groupVars ELSE UNCHANGED groupVars
    BY DEF MCNext
  <2>2. CASE running = "refilled"
    <3>1. RejInv'
      BY <2>1, <2>2, RejNext DEF SamplingInv
    <3>2. candidates' = << >> /\ gctr' = 0
      BY <2>1, <2>2 DEF SamplingInv, groupVars
    <3> QED  BY <2>1, <2>2, <3>1, <3>2 DEF SamplingInv
  <2>3. CASE running = "groups"
    <3>1. GroupInv'
      BY <2>1, <2>3, GroupNext DEF SamplingInv
    <3>2. returned' = FALSE
      BY <2>1, <2>3 DEF SamplingInv, rejVars
    <3> QED  BY <2>1, <2>3, <3>1, <3>2 DEF SamplingInv
  <2>4. CASE running # "refilled" /\ running # "groups"
    BY <2>1, <2>4 DEF SamplingInv, rejVars, groupVars
  <2> QED  BY <2>2, <2>3, <2>4
<1> QED  BY <1>1, <1>2, PTL DEF MCSpec

(* What poly_uniform, poly_uniform_eta and gen_matrix return is the good   *)
(* candidates of one stream in order, for all block sizes, first fills,    *)
(* counter ranges, numbers of refills and sets of good candidates; and     *)
(* poly_uniform_seed of Aigis-enc takes each squeezed bit at most once,    *)
(* for all rates and sizes of the first fill.                              *)
THEOREM SamplesAreTheStreams == MCSpec => []SamplesStream
<1>1. SamplingInv => SamplesStream
  <2> SUFFICES ASSUME SamplingInv PROVE SamplesStream
    OBVIOUS
  <2>1. Rej!SamplesStream
    <3>1. CASE running = "refilled"
      BY <3>1, RejSamples DEF SamplingInv
    <3>2. CASE running # "refilled"
      <4>1. returned = FALSE
        BY <3>2 DEF SamplingInv
      <4> QED  BY <4>1 DEF Rej!SamplesStream
    <3> QED  BY <3>1, <3>2
  <2>2. Group!EachBitOnce
    <3>1. CASE running = "groups"
      BY <3>1, GroupSamples DEF SamplingInv
    <3>2. CASE running # "groups"
      <4>1. candidates = << >> /\ gctr = 0
        BY <3>2 DEF SamplingInv
      <4>2. DOMAIN candidates = {} /\ Len(candidates) = 0
        BY <4>1
      <4>3. UNION {Group!Range(candidates[c]) : c \in DOMAIN candidates} = {}
        BY <4>2
      <4>4. Group!Cardinality({}) = 13 * Len(candidates)
        <5>1. Cardinality({}) = 0
          BY FS_EmptySet
        <5> QED  BY <4>2, <5>1, CountsAsGroup
      <4>5. gctr <= GroupN
        BY <4>1, GroupSizes
      <4> DEFINE used == UNION {Group!Range(candidates[c]) : c \in DOMAIN candidates}
      <4>6. used = {}
        BY <4>3
      <4> HIDE DEF used
      <4>7. /\ \A bits \in used : Group!Cardinality(bits) = 1
            /\ UNION used \subseteq 0 .. 8 * gsqueezed - 1
            /\ Group!Cardinality(used) = 13 * Len(candidates)
        BY <4>4, <4>6
      <4> QED  BY <4>5, <4>7 DEF Group!EachBitOnce, Group!QBITS, used
    <3> QED  BY <3>1, <3>2
  <2> QED  BY <2>1, <2>2 DEF SamplesStream
<1> QED  BY <1>1, SamplingInvariant, PTL

-----------------------------------------------------------------------------
(***************************************************************************)
(* A challenge of weight k comes about in k! ways: the last byte is one of *)
(* its k positions, which one decides what the challenge was before.       *)
(***************************************************************************)
LEMMA RecursionIsUnique ==
    ASSUME NEW m \in Nat, NEW f, NEW g, f[0] = g[0], NEW next,
           \A n \in 1 .. m : f[n] = next[<<n, f[n - 1]>>],
           \A n \in 1 .. m : g[n] = next[<<n, g[n - 1]>>]
    PROVE  \A n \in 0 .. m : f[n] = g[n]
<1> DEFINE T == {n \in Nat : n <= m => f[n] = g[n]}
<1>1. 0 \in T
  OBVIOUS
<1>2. ASSUME NEW n \in T PROVE n + 1 \in T
  <2>1. n \in Nat
    OBVIOUS
  <2>2. ASSUME n + 1 <= m PROVE f[n + 1] = g[n + 1]
    <3>1. n <= m /\ n + 1 \in 1 .. m /\ (n + 1) - 1 = n
      BY <2>1, <2>2
    <3>2. f[n] = g[n]
      BY <2>1, <3>1
    <3> QED  BY <3>1, <3>2
  <2> QED  BY <2>1, <2>2
<1>3. T = Nat
  <2> HIDE DEF T
  <2>1. T \subseteq Nat
    BY DEF T
  <2> QED  BY <1>1, <1>2, <2>1, Induction
<1>4. \A n \in 0 .. m : n \in T
  <2> HIDE DEF T
  <2> QED  BY <1>3
<1> QED  BY <1>4

(* The same without an end. *)
AdvancesAlways(S) == [(Nat \ {0}) \X S -> S]

LEMMA RecursionOnNat ==
    ASSUME NEW S, NEW base \in S, NEW next \in AdvancesAlways(S)
    PROVE  \E f \in [Nat -> S] : f[0] = base /\ \A n \in Nat \ {0} : f[n] = next[<<n, f[n - 1]>>]
<1> DEFINE Good(n, g) == g \in [0 .. n -> S] /\ g[0] = base
                         /\ \A x \in 1 .. n : g[x] = next[<<x, g[x - 1]>>]
           upTo(n) == CHOOSE g : Good(n, g)
           f == [n \in Nat |-> upTo(n)[n]]
<1>1. ASSUME NEW n \in Nat PROVE Good(n, upTo(n))
  <2>1. PICK some \in Advances(n, S) : \A x \in (1 .. n) \X S : some[x] = next[x]
    <3>1. \A x \in (1 .. n) \X S : next[x] \in S
      BY DEF AdvancesAlways
    <3>2. [x \in (1 .. n) \X S |-> next[x]] \in [(1 .. n) \X S -> S]
      BY <3>1
    <3> QED  BY <3>2 DEF Advances
  <2>2. PICK g \in [0 .. n -> S] : g[0] = base /\ \A x \in 1 .. n : g[x] = some[<<x, g[x - 1]>>]
    BY RecursionExists
  <2>3. ASSUME NEW x \in 1 .. n PROVE g[x] = next[<<x, g[x - 1]>>]
    <3>1. x - 1 \in 0 .. n
      OBVIOUS
    <3>2. <<x, g[x - 1]>> \in (1 .. n) \X S
      BY <3>1
    <3> QED  BY <2>1, <2>2, <3>2
  <2>4. Good(n, g)
    BY <2>2, <2>3
  <2> HIDE DEF Good
  <2> QED  BY <2>4
<1>2. ASSUME NEW n \in Nat \ {0} PROVE f[n] = next[<<n, f[n - 1]>>]
  <2>1. PICK l \in Nat : n = l + 1
    <3>1. n - 1 \in Nat /\ n = (n - 1) + 1
      OBVIOUS
    <3> QED  BY <3>1
  <2>2. PICK g, e : g = upTo(l) /\ e = upTo(n)
    OBVIOUS
  <2>3. Good(l, g) /\ Good(n, e)
    <3> HIDE DEF Good
    <3> QED  BY <1>1, <2>1, <2>2
  <2>4. \A x \in 1 .. l : x \in 1 .. n
    BY <2>1
  <2>5. g[l] = e[l]
    <3>1. /\ g[0] = e[0]
          /\ \A x \in 1 .. l : g[x] = next[<<x, g[x - 1]>>]
          /\ \A x \in 1 .. l : e[x] = next[<<x, e[x - 1]>>]
      BY <2>3, <2>4
    <3>2. \A x \in 0 .. l : g[x] = e[x]
      BY <3>1, RecursionIsUnique
    <3> QED  BY <3>2
  <2>6. f[n] = e[n] /\ f[l] = g[l] /\ n - 1 = l
    BY <2>1, <2>2
  <2>7. e[n] = next[<<n, e[n - 1]>>]
    <3>1. n \in 1 .. n
      OBVIOUS
    <3> QED  BY <2>3, <3>1
  <2> QED  BY <2>5, <2>6, <2>7
<1>3. f \in [Nat -> S]
  <2>1. ASSUME NEW n \in Nat PROVE upTo(n)[n] \in S
    <3>1. PICK g : g = upTo(n)
      OBVIOUS
    <3>2. Good(n, g)
      <4> HIDE DEF Good
      <4> QED  BY <1>1, <3>1
    <3>3. n \in 0 .. n
      OBVIOUS
    <3> QED  BY <3>1, <3>2, <3>3
  <2> HIDE DEF upTo
  <2> QED  BY <2>1
<1>4. f[0] = base
  <2>1. PICK g : g = upTo(0)
    OBVIOUS
  <2>2. Good(0, g)
    <3> HIDE DEF Good
    <3> QED  BY <1>1, <2>1
  <2> QED  BY <2>1, <2>2
<1> QED  BY <1>2, <1>3, <1>4

LEMMA FactorialIs ==
    /\ Draw!Factorial[0] = 1
    /\ \A n \in Nat : /\ Draw!Factorial[n] \in Nat
                      /\ Draw!Factorial[n + 1] = (n + 1) * Draw!Factorial[n]
<1> DEFINE Is(g) == g = [n \in Nat |-> IF n = 0 THEN 1 ELSE n * g[n - 1]]
<1>1. PICK next \in [(Nat \ {0}) \X Nat -> Nat] :
          \A x \in (Nat \ {0}) \X Nat : next[x] = x[1] * x[2]
  <2>1. \A x \in (Nat \ {0}) \X Nat : x[1] * x[2] \in Nat
    OBVIOUS
  <2>2. [x \in (Nat \ {0}) \X Nat |-> x[1] * x[2]] \in [(Nat \ {0}) \X Nat -> Nat]
    BY <2>1
  <2> QED  BY <2>2
<1>2. PICK f \in [Nat -> Nat] :
          f[0] = 1 /\ \A n \in Nat \ {0} : f[n] = next[<<n, f[n - 1]>>]
  <2>1. PICK S : S = Nat
    OBVIOUS
  <2>2. PICK base \in S : base = 1
    BY <2>1
  <2>3. PICK advance \in AdvancesAlways(S) : advance = next
    BY <2>1 DEF AdvancesAlways
  <2>4. \E f \in [Nat -> S] :
            f[0] = base /\ \A n \in Nat \ {0} : f[n] = advance[<<n, f[n - 1]>>]
    BY RecursionOnNat
  <2> QED  BY <2>1, <2>2, <2>3, <2>4
<1>3. ASSUME NEW n \in Nat \ {0} PROVE f[n] = n * f[n - 1]
  <2>1. <<n, f[n - 1]>> \in (Nat \ {0}) \X Nat
    BY <1>2
  <2> QED  BY <1>1, <1>2, <2>1
<1>4. Is(f)
  BY <1>2, <1>3
<1> DEFINE g == CHOOSE e : Is(e)
<1>5. Is(g)
  <2> HIDE DEF Is
  <2> QED  BY <1>4
<1>6. Draw!Factorial = g
  BY DEF Draw!Factorial
<1> HIDE DEF g
<1>7. g[0] = 1 /\ \A n \in Nat : g[n + 1] = (n + 1) * g[n]
  <2>1. g[0] = 1
    BY <1>5
  <2>2. ASSUME NEW n \in Nat PROVE g[n + 1] = (n + 1) * g[n]
    <3>1. n + 1 \in Nat /\ n + 1 # 0 /\ (n + 1) - 1 = n
      OBVIOUS
    <3> QED  BY <1>5, <3>1
  <2> QED  BY <2>1, <2>2
<1>8. \A n \in Nat : g[n] \in Nat
  <2> DEFINE T == {n \in Nat : g[n] \in Nat}
  <2>1. 0 \in T
    BY <1>7
  <2>2. ASSUME NEW n \in T PROVE n + 1 \in T
    BY <1>7
  <2>3. T = Nat
    <3> HIDE DEF T
    <3>1. T \subseteq Nat
      BY DEF T
    <3> QED  BY <2>1, <2>2, <3>1, Induction
  <2> QED  BY <2>3
<1> QED  BY <1>6, <1>7, <1>8

(* A set is the sum of its parts, here of equal parts. *)
Part(A, f, p) == {x \in A : f[x] = p}

PartsOf(A, S, f, size) ==
    /\ \A x \in A : f[x] \in S
    /\ \A p \in S : IsFiniteSet(Part(A, f, p)) /\ Cardinality(Part(A, f, p)) = size

LEMMA EqualParts ==
    ASSUME NEW A, NEW S, IsFiniteSet(S), NEW size \in Nat, NEW f, PartsOf(A, S, f, size)
    PROVE  IsFiniteSet(A) /\ Cardinality(A) = Cardinality(S) * size
<1> DEFINE part(P) == {x \in A : f[x] \in P}
           Right(P) == IsFiniteSet(part(P)) /\ Cardinality(part(P)) = Cardinality(P) * size
           T == {n \in Nat : \A P \in SUBSET S : Cardinality(P) = n => Right(P)}
<1>0. \A P \in SUBSET S : IsFiniteSet(P) /\ Cardinality(P) \in Nat
  BY FS_Subset, FS_CardinalityType
<1>1. 0 \in T
  <2>1. SUFFICES ASSUME NEW P \in SUBSET S, Cardinality(P) = 0 PROVE Right(P)
    OBVIOUS
  <2>2. P = {}
    BY <1>0, <2>1, FS_EmptySet
  <2>3. part(P) = {}
    BY <2>2
  <2>4. 0 * size = 0
    OBVIOUS
  <2> QED  BY <2>1, <2>3, <2>4, FS_EmptySet
<1>2. ASSUME NEW n \in T PROVE n + 1 \in T
  <2>1. n \in Nat
    OBVIOUS
  <2>2. ASSUME NEW P \in SUBSET S, Cardinality(P) = n + 1 PROVE Right(P)
    <3>3. PICK p \in P : TRUE
      <4>1. Cardinality({}) = 0 /\ n + 1 # 0
        BY <2>1, FS_EmptySet
      <4>2. P # {}
        BY <2>2, <4>1
      <4> QED  BY <4>2
    <3>4. PICK Q \in SUBSET S : Q = P \ {p}
      OBVIOUS
    <3>5. Cardinality(Q) = n
      <4>1. Cardinality(P \ {p}) = Cardinality(P) - 1
        BY <1>0, FS_RemoveElement
      <4>2. (n + 1) - 1 = n
        BY <2>1
      <4> QED  BY <2>2, <3>4, <4>1, <4>2
    <3>6. Right(Q)
      <4> HIDE DEF Right
      <4> QED  BY <3>5
    <3> DEFINE fibre == {x \in A : f[x] = p}
    <3>7. part(P) = part(Q) \cup fibre /\ part(Q) \cap fibre = {}
      BY <3>4
    <3>8. IsFiniteSet(fibre) /\ Cardinality(fibre) = size
      BY DEF Part, PartsOf
    <3>9. IsFiniteSet(part(Q)) /\ Cardinality(part(Q)) = n * size
      BY <3>5, <3>6
    <3> HIDE DEF part, fibre
    <3>10. /\ IsFiniteSet(part(Q) \cup fibre)
           /\ Cardinality(part(Q) \cup fibre) =
                  Cardinality(part(Q)) + Cardinality(fibre) - Cardinality(part(Q) \cap fibre)
      BY <3>8, <3>9, FS_Union
    <3>11. Cardinality(part(Q) \cap fibre) = 0
      BY <3>7, FS_EmptySet
    <3>12. n * size \in Nat /\ (n + 1) * size = n * size + size
      BY <2>1
    <3>13. Cardinality(part(P)) = (n + 1) * size /\ IsFiniteSet(part(P))
      <4>1. PICK whole \in Nat : whole = n * size
        BY <3>12
      <4>2. whole + (size - 0) = whole + size
        OBVIOUS
      <4> QED  BY <3>7, <3>8, <3>9, <3>10, <3>11, <3>12, <4>1, <4>2
    <3> QED  BY <2>2, <3>13
  <2> HIDE DEF Right
  <2> QED  BY <2>1, <2>2
<1>3. T = Nat
  <2> HIDE DEF T
  <2>1. T \subseteq Nat
    BY DEF T
  <2> QED  BY <1>1, <1>2, <2>1, Induction
<1>4. Right(S)
  <2>1. Cardinality(S) \in T /\ S \in SUBSET S
    BY <1>3, FS_CardinalityType
  <2> HIDE DEF Right
  <2> QED  BY <2>1
<1>5. part(S) = A
  BY DEF PartsOf
<1> QED  BY <1>4, <1>5

-----------------------------------------------------------------------------
Zero == [x \in Draw!Index |-> 0]
Polys == [Draw!Index -> {-1, 0, 1}]
Start == Degree - TAU
First(m) == Start .. Start + m - 1

(* The challenges along the first m draws. *)
IsRun(f, b, s, m) ==
    /\ f \in [0 .. m -> Polys] /\ f[0] = Zero
    /\ \A n \in 1 .. m :
           f[n] = Draw!Shuffle(f[n - 1], Start + (n - 1), b[Start + (n - 1)], s[Start + (n - 1)])

Gives(m, b, s, d) == \E f : IsRun(f, b, s, m) /\ f[m] = d

Choices(m) == {q \in [First(m) -> Draw!Index] \X [First(m) -> {1, -1}] :
                  \A y \in First(m) : q[1][y] <= y}

Ways(m, d) == {q \in Choices(m) : Gives(m, q[1], q[2], d)}

Support(d) == {x \in Draw!Index : d[x] # 0}

Placed(m, d) == /\ d \in Polys /\ Cardinality(Support(d)) = m
                /\ \A x \in Support(d) : x < Start + m

LEMMA StartIs ==
    /\ Start \in Nat /\ Degree \in Nat /\ TAU \in Nat /\ Start + TAU = Degree
    /\ Draw!Index = 0 .. Degree - 1
    /\ \A m \in Nat : m <= TAU => First(m) \subseteq Draw!Index
    /\ \A m \in Nat : First(m + 1) = First(m) \cup {Start + m} /\ Start + m \notin First(m)
    /\ \A m \in Nat : m < TAU => Start + m \in Draw!Index
    /\ \A m \in Nat : \A n \in 1 .. m : Start + (n - 1) \in First(m)
BY ChallengeSizes DEF Start, First, Draw!Index

LEMMA ShuffleIs ==
    ASSUME NEW d \in Polys, NEW y \in Draw!Index, NEW b \in Draw!Index, NEW sign \in {1, -1}
    PROVE  /\ Draw!Shuffle(d, y, b, sign) \in Polys
           /\ \A x \in Draw!Index : Draw!Shuffle(d, y, b, sign)[x] =
                  IF x = b THEN sign ELSE IF x = y THEN d[b] ELSE d[x]
BY ShuffleAt DEF Polys

(* What is not reached yet is zero. *)
LEMMA RunSupport ==
    ASSUME NEW m \in Nat, m <= TAU, NEW q \in Choices(m), NEW f, IsRun(f, q[1], q[2], m)
    PROVE  \A n \in 0 .. m : \A x \in Draw!Index : x >= Start + n => f[n][x] = 0
<1> DEFINE T == {n \in Nat : n <= m => \A x \in Draw!Index : x >= Start + n => f[n][x] = 0}
<1>1. 0 \in T
  BY DEF IsRun, Zero
<1>2. ASSUME NEW n \in T PROVE n + 1 \in T
  <2>1. n \in Nat
    OBVIOUS
  <2>2. SUFFICES ASSUME n + 1 <= m, NEW x \in Draw!Index, x >= Start + (n + 1)
                 PROVE  f[n + 1][x] = 0
    BY <2>1
  <2>3. PICK y \in Draw!Index : y = Start + n /\ y \in First(m)
    <3>1. Start + n \in Draw!Index
      BY <2>1, <2>2, StartIs
    <3>2. n + 1 \in 1 .. m /\ (n + 1) - 1 = n
      BY <2>1, <2>2
    <3>3. Start + n \in First(m)
      BY <3>2, StartIs
    <3> QED  BY <3>1, <3>3
  <2>4. PICK b \in Draw!Index, sign \in {1, -1} : b = q[1][y] /\ sign = q[2][y] /\ b <= y
    BY <2>3 DEF Choices
  <2>5. f[n + 1] = Draw!Shuffle(f[n], y, b, sign) /\ f[n] \in Polys
    <3>1. n + 1 \in 1 .. m /\ (n + 1) - 1 = n /\ n \in 0 .. m
      BY <2>1, <2>2
    <3> QED  BY <2>3, <2>4, <3>1 DEF IsRun
  <2>6. x # b /\ x # y /\ x >= Start + n
    <3>1. x \in Nat /\ Start \in Nat /\ b \in Nat /\ y \in Nat
      BY StartIs
    <3>2. b <= y /\ y = Start + n /\ x >= Start + (n + 1)
      BY <2>2, <2>3, <2>4
    <3> QED  BY <2>1, <3>1, <3>2
  <2>7. f[n + 1][x] = f[n][x]
    <3>1. PICK g \in Polys : g = f[n] /\ f[n + 1] = Draw!Shuffle(g, y, b, sign)
      BY <2>5
    <3>2. Draw!Shuffle(g, y, b, sign)[x] = g[x]
      BY <2>6 DEF Draw!Shuffle, Polys
    <3> QED  BY <3>1, <3>2
  <2>8. f[n][x] = 0
    BY <2>1, <2>2, <2>6
  <2> QED  BY <2>7, <2>8
<1>3. T = Nat
  <2> HIDE DEF T
  <2>1. T \subseteq Nat
    BY DEF T
  <2> QED  BY <1>1, <1>2, <2>1, Induction
<1>4. \A n \in 0 .. m : n \in T
  <2> HIDE DEF T
  <2> QED  BY <1>3
<1> QED  BY <1>4

Cut(g, m) == [y \in First(m) |-> g[y]]

(* A run to the next draw is a run to this one and the draw. *)
LEMMA RunDown ==
    ASSUME NEW m \in Nat, m < TAU, NEW q \in Choices(m + 1), NEW d, Gives(m + 1, q[1], q[2], d)
    PROVE  /\ <<Cut(q[1], m), Cut(q[2], m)>> \in Choices(m)
           /\ \E e \in Polys : /\ Gives(m, Cut(q[1], m), Cut(q[2], m), e)
                               /\ d = Draw!Shuffle(e, Start + m, q[1][Start + m], q[2][Start + m])
                               /\ \A x \in Draw!Index : x >= Start + m => e[x] = 0
<1>1. PICK f : IsRun(f, q[1], q[2], m + 1) /\ f[m + 1] = d
  BY DEF Gives
<1>2. PICK b, s : b = Cut(q[1], m) /\ s = Cut(q[2], m)
  OBVIOUS
<1>3. /\ q[1] \in [First(m + 1) -> Draw!Index] /\ q[2] \in [First(m + 1) -> {1, -1}]
      /\ \A y \in First(m + 1) : q[1][y] <= y
  BY DEF Choices
<1>4. \A y \in First(m) : y \in First(m + 1) /\ b[y] = q[1][y] /\ s[y] = q[2][y]
  BY <1>2, StartIs DEF Cut
<1>5. <<b, s>> \in Choices(m)
  <2>1. b \in [First(m) -> Draw!Index]
    BY <1>2, <1>3, <1>4 DEF Cut
  <2>2. s \in [First(m) -> {1, -1}]
    BY <1>2, <1>3, <1>4 DEF Cut
  <2>3. \A y \in First(m) : b[y] <= y
    BY <1>3, <1>4
  <2> QED  BY <2>1, <2>2, <2>3 DEF Choices
<1>6. PICK g : g = [n \in 0 .. m |-> f[n]]
  OBVIOUS
<1>7. IsRun(g, b, s, m)
  <2>1. g \in [0 .. m -> Polys] /\ g[0] = Zero
    BY <1>1, <1>6 DEF IsRun
  <2>2. ASSUME NEW n \in 1 .. m
        PROVE  g[n] = Draw!Shuffle(g[n - 1], Start + (n - 1), b[Start + (n - 1)], s[Start + (n - 1)])
    <3>1. n \in 1 .. m + 1 /\ n \in 0 .. m /\ n - 1 \in 0 .. m
      OBVIOUS
    <3>2. Start + (n - 1) \in First(m)
      BY StartIs
    <3>3. b[Start + (n - 1)] = q[1][Start + (n - 1)] /\ s[Start + (n - 1)] = q[2][Start + (n - 1)]
      BY <1>4, <3>2
    <3>4. f[n] = Draw!Shuffle(f[n - 1], Start + (n - 1), q[1][Start + (n - 1)], q[2][Start + (n - 1)])
      BY <1>1, <3>1 DEF IsRun
    <3>5. g[n] = f[n] /\ g[n - 1] = f[n - 1]
      BY <1>6, <3>1
    <3> QED  BY <3>3, <3>4, <3>5
  <2> QED  BY <2>1, <2>2 DEF IsRun
<1>8. PICK e : e = g[m]
  OBVIOUS
<1>9. e \in Polys /\ \A x \in Draw!Index : x >= Start + m => e[x] = 0
  <2>1. m \in 0 .. m /\ m <= TAU
    BY StartIs
  <2>2. PICK w \in Choices(m) : w = <<b, s>>
    BY <1>5
  <2>3. IsRun(g, w[1], w[2], m)
    BY <1>7, <2>2
  <2>4. \A n \in 0 .. m : \A x \in Draw!Index : x >= Start + n => g[n][x] = 0
    BY <2>1, <2>3, RunSupport
  <2>5. g[m] \in Polys
    BY <1>7, <2>1 DEF IsRun
  <2> QED  BY <1>8, <2>1, <2>4, <2>5
<1>10. d = Draw!Shuffle(e, Start + m, q[1][Start + m], q[2][Start + m])
  <2>1. m + 1 \in 1 .. m + 1 /\ (m + 1) - 1 = m /\ m \in 0 .. m
    OBVIOUS
  <2>2. f[m + 1] = Draw!Shuffle(f[m], Start + m, q[1][Start + m], q[2][Start + m])
    BY <1>1, <2>1 DEF IsRun
  <2>3. e = f[m]
    BY <1>6, <1>8, <2>1
  <2> QED  BY <1>1, <2>2, <2>3
<1>11. Gives(m, b, s, e)
  BY <1>7, <1>8 DEF Gives
<1> QED  BY <1>2, <1>5, <1>9, <1>10, <1>11

Longer(g, m, p) == [y \in First(m + 1) |-> IF y = Start + m THEN p ELSE g[y]]

LEMMA RunUp ==
    ASSUME NEW m \in Nat, m < TAU, NEW q \in Choices(m), NEW e, Gives(m, q[1], q[2], e),
           NEW p \in Draw!Index, p <= Start + m, NEW sign \in {1, -1}
    PROVE  /\ <<Longer(q[1], m, p), Longer(q[2], m, sign)>> \in Choices(m + 1)
           /\ Gives(m + 1, Longer(q[1], m, p), Longer(q[2], m, sign),
                    Draw!Shuffle(e, Start + m, p, sign))
<1>1. PICK f : IsRun(f, q[1], q[2], m) /\ f[m] = e
  BY DEF Gives
<1>2. PICK b, s : b = Longer(q[1], m, p) /\ s = Longer(q[2], m, sign)
  OBVIOUS
<1>3. /\ q[1] \in [First(m) -> Draw!Index] /\ q[2] \in [First(m) -> {1, -1}]
      /\ \A y \in First(m) : q[1][y] <= y
  BY DEF Choices
<1>4. First(m + 1) = First(m) \cup {Start + m} /\ Start + m \notin First(m)
  BY StartIs
<1>5. /\ \A y \in First(m) : b[y] = q[1][y] /\ s[y] = q[2][y]
      /\ b[Start + m] = p /\ s[Start + m] = sign
  BY <1>2, <1>4 DEF Longer
<1>6. <<b, s>> \in Choices(m + 1)
  <2>1. b \in [First(m + 1) -> Draw!Index]
    BY <1>2, <1>3, <1>4 DEF Longer
  <2>2. s \in [First(m + 1) -> {1, -1}]
    BY <1>2, <1>3, <1>4 DEF Longer
  <2>3. \A y \in First(m + 1) : b[y] <= y
    BY <1>3, <1>4, <1>5
  <2> QED  BY <2>1, <2>2, <2>3 DEF Choices
<1>7. PICK last : last = Draw!Shuffle(e, Start + m, p, sign)
  OBVIOUS
<1>8. last \in Polys
  <2>1. e \in Polys
    <3>1. m \in 0 .. m
      OBVIOUS
    <3> QED  BY <1>1, <3>1 DEF IsRun
  <2>2. Start + m \in Draw!Index
    BY StartIs
  <2> QED  BY <1>7, <2>1, <2>2, ShuffleIs
<1>9. PICK g : g = [n \in 0 .. m + 1 |-> IF n = m + 1 THEN last ELSE f[n]]
  OBVIOUS
<1>10. g[m + 1] = last /\ \A n \in 0 .. m : g[n] = f[n]
  BY <1>9
<1>11. IsRun(g, b, s, m + 1)
  <2>1. g \in [0 .. m + 1 -> Polys]
    <3>1. \A n \in 0 .. m : f[n] \in Polys
      BY <1>1 DEF IsRun
    <3> QED  BY <1>8, <1>9, <3>1
  <2>2. g[0] = Zero
    BY <1>1, <1>10 DEF IsRun
  <2>3. ASSUME NEW n \in 1 .. m + 1
        PROVE  g[n] = Draw!Shuffle(g[n - 1], Start + (n - 1), b[Start + (n - 1)], s[Start + (n - 1)])
    <3>1. CASE n = m + 1
      <4>1. n - 1 = m /\ m \in 0 .. m
        BY <3>1
      <4>2. g[n - 1] = e
        BY <1>1, <1>10, <4>1
      <4> QED  BY <1>5, <1>7, <1>10, <3>1, <4>1, <4>2
    <3>2. CASE n # m + 1
      <4>1. n \in 1 .. m /\ n \in 0 .. m /\ n - 1 \in 0 .. m
        BY <3>2
      <4>2. Start + (n - 1) \in First(m)
        BY <4>1, StartIs
      <4>3. b[Start + (n - 1)] = q[1][Start + (n - 1)] /\ s[Start + (n - 1)] = q[2][Start + (n - 1)]
        BY <1>5, <4>2
      <4>4. f[n] = Draw!Shuffle(f[n - 1], Start + (n - 1), q[1][Start + (n - 1)], q[2][Start + (n - 1)])
        BY <1>1, <4>1 DEF IsRun
      <4>5. g[n] = f[n] /\ g[n - 1] = f[n - 1]
        BY <1>10, <4>1
      <4> QED  BY <4>3, <4>4, <4>5
    <3> QED  BY <3>1, <3>2
  <2> QED  BY <2>1, <2>2, <2>3 DEF IsRun
<1>12. Gives(m + 1, b, s, last)
  BY <1>10, <1>11 DEF Gives
<1> QED  BY <1>2, <1>6, <1>7, <1>12

(* What the challenge was before the draw of a position. *)
Undo(d, y, p) == [x \in Draw!Index |-> IF x = y THEN 0 ELSE IF x = p THEN d[y] ELSE d[x]]

LEMMA UndoIs ==
    ASSUME NEW m \in Nat, m < TAU, NEW d, Placed(m + 1, d), NEW p \in Support(d)
    PROVE  /\ Placed(m, Undo(d, Start + m, p)) /\ p <= Start + m /\ d[p] \in {1, -1}
           /\ Draw!Shuffle(Undo(d, Start + m, p), Start + m, p, d[p]) = d
<1>1. PICK y \in Draw!Index : y = Start + m
  BY StartIs
<1>2. /\ d \in Polys /\ p \in Draw!Index /\ d[p] # 0 /\ Cardinality(Support(d)) = m + 1
      /\ \A x \in Support(d) : x < Start + (m + 1)
  BY DEF Placed, Support
<1>3. \A x \in Draw!Index : d[x] \in {-1, 0, 1}
  BY <1>2 DEF Polys
<1>4. d[p] \in {1, -1}
  BY <1>2, <1>3
<1>5. \A x \in Support(d) : x <= y
  <2>1. SUFFICES ASSUME NEW x \in Support(d) PROVE x <= y
    OBVIOUS
  <2>2. x < Start + (m + 1) /\ x \in Nat /\ Start \in Nat
    <3>1. x \in Draw!Index
      BY DEF Support
    <3>2. x \in Nat /\ Start \in Nat
      BY <3>1, StartIs
    <3> QED  BY <1>2, <3>2
  <2> QED  BY <1>1, <2>2
<1>6. PICK e : e = Undo(d, y, p)
  OBVIOUS
<1>7. e \in Polys /\ e[y] = 0
      /\ \A x \in Draw!Index : e[x] = IF x = y THEN 0 ELSE IF x = p THEN d[y] ELSE d[x]
  BY <1>1, <1>3, <1>6 DEF Undo, Polys
<1>8. Draw!Shuffle(e, y, p, d[p]) = d
  <2>1. PICK w \in Polys : w = Draw!Shuffle(e, y, p, d[p])
    BY <1>2, <1>4, <1>7, ShuffleIs
  <2>2. \A x \in Draw!Index : w[x] = IF x = p THEN d[p] ELSE IF x = y THEN e[p] ELSE e[x]
    BY <1>2, <1>7, <2>1 DEF Draw!Shuffle, Polys
  <2>3. ASSUME NEW x \in Draw!Index PROVE w[x] = d[x]
    <3>1. CASE x = p
      BY <2>2, <3>1
    <3>2. CASE x # p /\ x = y
      <4>1. w[x] = e[p] /\ e[p] = d[y]
        BY <1>2, <1>7, <2>2, <3>2
      <4> QED  BY <3>2, <4>1
    <3>3. CASE x # p /\ x # y
      BY <1>7, <2>2, <3>3
    <3> QED  BY <3>1, <3>2, <3>3
  <2>4. w \in [Draw!Index -> {-1, 0, 1}] /\ d \in [Draw!Index -> {-1, 0, 1}]
    BY <1>2, <2>1 DEF Polys
  <2>5. w = d
    BY <2>3, <2>4
  <2> QED  BY <2>1, <2>5
<1>9. IsFiniteSet(Support(d))
  BY PlacesFinite DEF Support
<1>10. \E gone \in Support(d) : Support(e) = Support(d) \ {gone} /\ y \notin Support(e)
  <2>1. CASE d[y] = 0 \/ p = y
    <3>1. Support(e) = Support(d) \ {p}
      BY <1>1, <1>2, <1>7, <2>1 DEF Support
    <3> QED  BY <1>7, <3>1 DEF Support
  <2>2. CASE d[y] # 0 /\ p # y
    <3>1. Support(e) = Support(d) \ {y} /\ y \in Support(d)
      BY <1>1, <1>2, <1>7, <2>2 DEF Support
    <3> QED  BY <1>7, <3>1 DEF Support
  <2> QED  BY <2>1, <2>2
<1>11. Cardinality(Support(e)) = m
  <2>1. \A gone \in Support(d) : Cardinality(Support(d) \ {gone}) = (m + 1) - 1
    BY <1>2, <1>9, FS_RemoveElement
  <2>2. (m + 1) - 1 = m
    OBVIOUS
  <2> QED  BY <1>10, <2>1, <2>2
<1>12. \A x \in Support(e) : x < Start + m
  <2>1. SUFFICES ASSUME NEW x \in Support(e) PROVE x < Start + m
    OBVIOUS
  <2>2. x <= y /\ x # y
    BY <1>5, <1>10
  <2>3. x \in Nat /\ y \in Nat
    BY StartIs DEF Support
  <2> QED  BY <1>1, <2>2, <2>3
<1> QED  BY <1>1, <1>2, <1>4, <1>5, <1>6, <1>7, <1>8, <1>11, <1>12 DEF Placed

LEMMA WaysOfZero == \A d : Placed(0, d) =>
    IsFiniteSet(Ways(0, d)) /\ Cardinality(Ways(0, d)) = 1
<1> SUFFICES ASSUME NEW d, Placed(0, d)
             PROVE  IsFiniteSet(Ways(0, d)) /\ Cardinality(Ways(0, d)) = 1
  OBVIOUS
<1>1. First(0) = {}
  BY StartIs DEF First
<1>2. d = Zero
  <2>1. Support(d) = {} /\ d \in Polys
    <3>1. IsFiniteSet(Support(d)) /\ Cardinality(Support(d)) = 0 /\ d \in Polys
      BY PlacesFinite DEF Placed, Support
    <3> QED  BY <3>1, FS_EmptySet
  <2>2. \A x \in Draw!Index : d[x] = 0
    BY <2>1 DEF Support
  <2> QED  BY <2>1, <2>2 DEF Polys, Zero
<1>3. PICK none : none = [y \in {} |-> 0]
  OBVIOUS
<1>4. Gives(0, none, none, Zero)
  <2>1. PICK f : f = [n \in 0 .. 0 |-> Zero]
    OBVIOUS
  <2>2. Zero \in Polys
    BY DEF Zero, Polys
  <2>3. f \in [0 .. 0 -> Polys] /\ f[0] = Zero
    BY <2>1, <2>2
  <2>4. \A n \in 1 .. 0 : FALSE
    OBVIOUS
  <2>5. IsRun(f, none, none, 0)
    BY <2>3, <2>4 DEF IsRun
  <2> QED  BY <2>3, <2>5 DEF Gives
<1>5. Choices(0) = {<<none, none>>}
  <2>1. none \in [{} -> Draw!Index] /\ none \in [{} -> {1, -1}]
    BY <1>3
  <2>2. <<none, none>> \in Choices(0)
    BY <1>1, <2>1 DEF Choices
  <2>3. ASSUME NEW q \in Choices(0) PROVE q = <<none, none>>
    <3>1. q \in [{} -> Draw!Index] \X [{} -> {1, -1}]
      BY <1>1 DEF Choices
    <3>2. q[1] = none /\ q[2] = none /\ q = <<q[1], q[2]>>
      BY <1>3, <3>1
    <3> QED  BY <3>2
  <2> QED  BY <2>2, <2>3
<1>6. Ways(0, d) = {<<none, none>>}
  BY <1>2, <1>4, <1>5 DEF Ways
<1> QED  BY <1>6, FS_Singleton

LEMMA WaysStep ==
    ASSUME NEW m \in Nat, m < TAU, NEW size \in Nat,
           \A d : Placed(m, d) => IsFiniteSet(Ways(m, d)) /\ Cardinality(Ways(m, d)) = size,
           NEW d, Placed(m + 1, d)
    PROVE  IsFiniteSet(Ways(m + 1, d)) /\ Cardinality(Ways(m + 1, d)) = (m + 1) * size
<1>1. PICK y \in Draw!Index : y = Start + m
  BY StartIs
<1>2. d \in Polys /\ Cardinality(Support(d)) = m + 1 /\ IsFiniteSet(Support(d))
  BY PlacesFinite DEF Placed, Support
<1>3. First(m + 1) = First(m) \cup {y} /\ y \notin First(m)
  BY <1>1, StartIs
<1>4. ASSUME NEW q \in Ways(m + 1, d)
      PROVE  /\ q[1][y] \in Support(d) /\ q[2][y] = d[q[1][y]]
             /\ q = <<Longer(Cut(q[1], m), m, q[1][y]), Longer(Cut(q[2], m), m, q[2][y])>>
             /\ <<Cut(q[1], m), Cut(q[2], m)>> \in Ways(m, Undo(d, y, q[1][y]))
  <2>1. q \in Choices(m + 1) /\ Gives(m + 1, q[1], q[2], d)
    BY DEF Ways
  <2>2. /\ q \in [First(m + 1) -> Draw!Index] \X [First(m + 1) -> {1, -1}]
        /\ \A x \in First(m + 1) : q[1][x] <= x
    BY <2>1 DEF Choices
  <2>3. PICK p \in Draw!Index, sign \in {1, -1} : p = q[1][y] /\ sign = q[2][y] /\ p <= y
    BY <1>3, <2>2
  <2>4. PICK e \in Polys :
            /\ Gives(m, Cut(q[1], m), Cut(q[2], m), e)
            /\ d = Draw!Shuffle(e, y, p, sign)
            /\ \A x \in Draw!Index : x >= y => e[x] = 0
    BY <1>1, <2>1, <2>3, RunDown
  <2>5. \A x \in Draw!Index : d[x] = IF x = p THEN sign ELSE IF x = y THEN e[p] ELSE e[x]
    BY <2>3, <2>4 DEF Draw!Shuffle, Polys
  <2>6. p \in Support(d) /\ sign = d[p]
    BY <2>3, <2>5 DEF Support
  <2>7. e = Undo(d, y, p)
    <3>1. PICK u : u = Undo(d, y, p)
      OBVIOUS
    <3>2. e[y] = 0
      <4>1. y >= y
        BY StartIs
      <4> QED  BY <2>4, <4>1
    <3>3. ASSUME NEW x \in Draw!Index PROVE e[x] = u[x]
      <4>1. u[x] = IF x = y THEN 0 ELSE IF x = p THEN d[y] ELSE d[x]
        BY <3>1 DEF Undo
      <4>2. CASE x = y
        BY <3>2, <4>1, <4>2
      <4>3. CASE x # y /\ x = p
        <5>1. d[y] = e[p]
          BY <2>5, <4>3
        <5> QED  BY <4>1, <4>3, <5>1
      <4>4. CASE x # y /\ x # p
        BY <2>5, <4>1, <4>4
      <4> QED  BY <4>2, <4>3, <4>4
    <3>4. DOMAIN u = Draw!Index /\ DOMAIN e = Draw!Index
      BY <3>1 DEF Undo, Polys
    <3>5. u = [x \in Draw!Index |-> u[x]]
      BY <3>1 DEF Undo
    <3>6. e = [x \in Draw!Index |-> e[x]]
      BY DEF Polys
    <3>7. e = u
      BY <3>3, <3>5, <3>6
    <3> QED  BY <3>1, <3>7
  <2>8. <<Cut(q[1], m), Cut(q[2], m)>> \in Choices(m)
    BY <2>1, RunDown
  <2>9. <<Cut(q[1], m), Cut(q[2], m)>> \in Ways(m, Undo(d, y, p))
    BY <2>4, <2>7, <2>8 DEF Ways
  <2>10. q[1] = Longer(Cut(q[1], m), m, p) /\ q[2] = Longer(Cut(q[2], m), m, sign)
    <3>1. PICK b \in [First(m + 1) -> Draw!Index], s \in [First(m + 1) -> {1, -1}] :
              b = q[1] /\ s = q[2] /\ b[y] = p /\ s[y] = sign
      BY <2>2, <2>3
    <3>2. b = [x \in First(m + 1) |-> b[x]] /\ s = [x \in First(m + 1) |-> s[x]]
      OBVIOUS
    <3>3. \A x \in First(m + 1) : b[x] = IF x = y THEN p ELSE Cut(b, m)[x]
      BY <1>3, <3>1 DEF Cut
    <3>4. \A x \in First(m + 1) : s[x] = IF x = y THEN sign ELSE Cut(s, m)[x]
      BY <1>3, <3>1 DEF Cut
    <3>5. b = Longer(Cut(b, m), m, p)
      BY <1>1, <3>2, <3>3 DEF Longer
    <3>6. s = Longer(Cut(s, m), m, sign)
      BY <1>1, <3>2, <3>4 DEF Longer
    <3> QED  BY <3>1, <3>5, <3>6
  <2>11. q = <<q[1], q[2]>>
    BY <2>2
  <2> QED  BY <2>3, <2>6, <2>9, <2>10, <2>11
<1> DEFINE last == [q \in Ways(m + 1, d) |-> q[1][y]]
           fibre(p) == {q \in Ways(m + 1, d) : last[q] = p}
<1>5. ASSUME NEW p \in Support(d)
      PROVE  IsFiniteSet(fibre(p)) /\ Cardinality(fibre(p)) = size
  <2>1. PICK before : before = Ways(m, Undo(d, y, p))
    OBVIOUS
  <2>2. /\ Placed(m, Undo(d, y, p)) /\ p <= y /\ d[p] \in {1, -1} /\ p \in Draw!Index
        /\ Draw!Shuffle(Undo(d, y, p), y, p, d[p]) = d
    BY <1>1, UndoIs DEF Support
  <2>3. IsFiniteSet(before) /\ Cardinality(before) = size
    BY <2>1, <2>2
  <2> DEFINE ext(q) == <<Longer(q[1], m, p), Longer(q[2], m, d[p])>>
             extend == [q \in before |-> ext(q)]
  <2>4. ASSUME NEW q \in before PROVE ext(q) \in fibre(p)
    <3>1. q \in Choices(m) /\ Gives(m, q[1], q[2], Undo(d, y, p))
      BY <2>1 DEF Ways
    <3>2. /\ ext(q) \in Choices(m + 1)
          /\ Gives(m + 1, Longer(q[1], m, p), Longer(q[2], m, d[p]), d)
      BY <1>1, <2>2, <3>1, RunUp
    <3>3. ext(q) \in Ways(m + 1, d)
      BY <3>2 DEF Ways
    <3>4. ext(q)[1][y] = p
      BY <1>1, <1>3 DEF Longer
    <3> HIDE DEF ext
    <3> QED  BY <3>3, <3>4
  <2>5. ASSUME NEW q \in fibre(p)
        PROVE  \E w \in before : ext(w) = q
    <3>1. q \in Ways(m + 1, d) /\ q[1][y] = p
      OBVIOUS
    <3>2. PICK w : w = <<Cut(q[1], m), Cut(q[2], m)>>
      OBVIOUS
    <3>3. w \in before /\ q[2][y] = d[p]
          /\ q = <<Longer(Cut(q[1], m), m, p), Longer(Cut(q[2], m), m, d[p])>>
      BY <1>4, <2>1, <3>1, <3>2
    <3>4. w[1] = Cut(q[1], m) /\ w[2] = Cut(q[2], m)
      BY <3>2
    <3> QED  BY <3>3, <3>4
  <2>6. ASSUME NEW q \in before, NEW w \in before, ext(q) = ext(w) PROVE q = w
    <3>1. /\ q \in [First(m) -> Draw!Index] \X [First(m) -> {1, -1}]
          /\ w \in [First(m) -> Draw!Index] \X [First(m) -> {1, -1}]
      BY <2>1 DEF Ways, Choices
    <3>2. Longer(q[1], m, p) = Longer(w[1], m, p) /\ Longer(q[2], m, d[p]) = Longer(w[2], m, d[p])
      BY <2>6
    <3>3. \A x \in First(m) : /\ Longer(q[1], m, p)[x] = q[1][x] /\ Longer(w[1], m, p)[x] = w[1][x]
                              /\ Longer(q[2], m, d[p])[x] = q[2][x]
                              /\ Longer(w[2], m, d[p])[x] = w[2][x]
      BY <1>1, <1>3 DEF Longer
    <3>4. \A x \in First(m) : q[1][x] = w[1][x] /\ q[2][x] = w[2][x]
      BY <3>2, <3>3
    <3>5. q[1] = w[1] /\ q[2] = w[2]
      <4>1. PICK b \in [First(m) -> Draw!Index], s \in [First(m) -> {1, -1}] : b = q[1] /\ s = q[2]
        BY <3>1
      <4>2. PICK v \in [First(m) -> Draw!Index], u \in [First(m) -> {1, -1}] : v = w[1] /\ u = w[2]
        BY <3>1
      <4>3. b = v
        BY <3>4, <4>1, <4>2
      <4>4. s = u
        BY <3>4, <4>1, <4>2
      <4> QED  BY <4>1, <4>2, <4>3, <4>4
    <3> QED  BY <3>1, <3>5
  <2> HIDE DEF ext, fibre
  <2>7. extend \in Bijection(before, fibre(p))
    <3>1. extend \in [before -> fibre(p)]
      BY <2>4
    <3>2. \A q \in before : extend[q] = ext(q)
      OBVIOUS
    <3> HIDE DEF extend
    <3> QED  BY <2>5, <2>6, <3>1, <3>2 DEF Bijection, Injection, IsInjective, Surjection
  <2>8. ExistsBijection(before, fibre(p))
    BY <2>7 DEF ExistsBijection
  <2> QED  BY <2>3, <2>8, FS_Bijection
<1>6. \A q \in Ways(m + 1, d) : last[q] \in Support(d)
  BY <1>4
<1>7. \A p \in Support(d) : /\ IsFiniteSet({q \in Ways(m + 1, d) : last[q] = p})
                            /\ Cardinality({q \in Ways(m + 1, d) : last[q] = p}) = size
  BY <1>5
<1> HIDE DEF last
<1>8. PICK A, S, f : A = Ways(m + 1, d) /\ S = Support(d) /\ f = last
  OBVIOUS
<1>9. IsFiniteSet(A) /\ Cardinality(A) = Cardinality(S) * size
  <2>1. IsFiniteSet(S)
    BY <1>2, <1>8
  <2>2. \A p \in S : IsFiniteSet(Part(A, f, p)) /\ Cardinality(Part(A, f, p)) = size
    BY <1>7, <1>8 DEF Part
  <2>3. PartsOf(A, S, f, size)
    BY <1>6, <1>8, <2>2 DEF PartsOf
  <2> QED  BY <2>1, <2>3, EqualParts
<1> QED  BY <1>2, <1>8, <1>9

LEMMA WaysAre ==
    \A m \in Nat : m <= TAU => \A d : Placed(m, d) =>
        IsFiniteSet(Ways(m, d)) /\ Cardinality(Ways(m, d)) = Draw!Factorial[m]
<1> DEFINE Right(m) == m <= TAU => \A d : Placed(m, d) =>
               IsFiniteSet(Ways(m, d)) /\ Cardinality(Ways(m, d)) = Draw!Factorial[m]
           T == {m \in Nat : Right(m)}
<1>1. 0 \in T
  BY WaysOfZero, FactorialIs
<1>2. ASSUME NEW m \in T PROVE m + 1 \in T
  <2>1. m \in Nat
    OBVIOUS
  <2>2. SUFFICES ASSUME m + 1 <= TAU, NEW d, Placed(m + 1, d)
                 PROVE  /\ IsFiniteSet(Ways(m + 1, d))
                        /\ Cardinality(Ways(m + 1, d)) = Draw!Factorial[m + 1]
    BY <2>1
  <2>3. m < TAU /\ m <= TAU
    BY <2>1, <2>2, StartIs
  <2>4. PICK size \in Nat : size = Draw!Factorial[m] /\ Draw!Factorial[m + 1] = (m + 1) * size
    BY <2>1, FactorialIs
  <2>5. \A e : Placed(m, e) => IsFiniteSet(Ways(m, e)) /\ Cardinality(Ways(m, e)) = size
    BY <2>3, <2>4
  <2> HIDE DEF T
  <2>6. IsFiniteSet(Ways(m + 1, d)) /\ Cardinality(Ways(m + 1, d)) = (m + 1) * size
    BY <2>1, <2>2, <2>3, <2>5, WaysStep
  <2> QED  BY <2>4, <2>6
<1>3. T = Nat
  <2> HIDE DEF T
  <2>1. T \subseteq Nat
    BY DEF T
  <2> QED  BY <1>1, <1>2, <2>1, Induction
<1> QED  BY <1>3

-----------------------------------------------------------------------------
LEMMA RunIsUnique ==
    ASSUME NEW m \in Nat, NEW b, NEW s, NEW f, NEW g, IsRun(f, b, s, m), IsRun(g, b, s, m)
    PROVE  f[m] = g[m]
<1> DEFINE T == {n \in Nat : n <= m => f[n] = g[n]}
<1>1. 0 \in T
  BY DEF IsRun
<1>2. ASSUME NEW n \in T PROVE n + 1 \in T
  <2>1. n \in Nat
    OBVIOUS
  <2>2. ASSUME n + 1 <= m PROVE f[n + 1] = g[n + 1]
    <3>1. n + 1 \in 1 .. m /\ (n + 1) - 1 = n
      BY <2>1, <2>2
    <3>2. f[n] = g[n]
      <4>1. n <= m
        BY <2>1, <2>2
      <4> QED  BY <4>1
    <3>3. f[n + 1] = Draw!Shuffle(f[n], Start + n, b[Start + n], s[Start + n])
      BY <3>1 DEF IsRun
    <3>4. g[n + 1] = Draw!Shuffle(g[n], Start + n, b[Start + n], s[Start + n])
      BY <3>1 DEF IsRun
    <3> QED  BY <3>2, <3>3, <3>4
  <2> QED  BY <2>1, <2>2
<1>3. T = Nat
  <2> HIDE DEF T
  <2>1. T \subseteq Nat
    BY DEF T
  <2> QED  BY <1>1, <1>2, <2>1, Induction
<1> QED  BY <1>3

(* The draws of poly_challenge are a run. *)
LEMMA OutcomeIs ==
    ASSUME NEW q \in Choices(TAU)
    PROVE  Gives(TAU, q[1], q[2], Draw!Outcome(q[1], q[2]))
<1>1. PICK b \in [First(TAU) -> Draw!Index], s \in [First(TAU) -> {1, -1}] : b = q[1] /\ s = q[2]
  BY DEF Choices
<1>2. TAU \in Nat /\ Start \in Nat /\ Start + TAU = Degree /\ Degree \in Nat
  BY StartIs
<1> DEFINE draw(e, y) == Draw!Shuffle(e, y, b[y], s[y])
           Is(g) == g = [y \in Start .. Degree |-> IF y = Start THEN Zero ELSE draw(g[y - 1], y - 1)]
<1>3. ASSUME NEW n \in 1 .. TAU PROVE Start + (n - 1) \in First(TAU) /\ Start + (n - 1) \in Draw!Index
  BY StartIs
<1>4. PICK f : IsRun(f, b, s, TAU)
  <2>1. PICK next \in Advances(TAU, Polys) :
            \A n \in 1 .. TAU, e \in Polys : next[<<n, e>>] = draw(e, Start + (n - 1))
    <3>1. ASSUME NEW p \in (1 .. TAU) \X Polys PROVE draw(p[2], Start + (p[1] - 1)) \in Polys
      <4>1. p[1] \in 1 .. TAU /\ p[2] \in Polys
        OBVIOUS
      <4>2. PICK y \in Draw!Index : y = Start + (p[1] - 1) /\ y \in First(TAU)
        BY <1>3, <4>1
      <4>3. b[y] \in Draw!Index /\ s[y] \in {1, -1}
        BY <4>2
      <4>4. Draw!Shuffle(p[2], y, b[y], s[y]) \in Polys
        BY <4>1, <4>3, ShuffleIs
      <4> QED  BY <4>2, <4>4
    <3>2. PICK next : next = [p \in (1 .. TAU) \X Polys |-> draw(p[2], Start + (p[1] - 1))]
      OBVIOUS
    <3> HIDE DEF draw
    <3>3. next \in Advances(TAU, Polys)
      BY <3>1, <3>2 DEF Advances
    <3>4. ASSUME NEW n \in 1 .. TAU, NEW e \in Polys
          PROVE  next[<<n, e>>] = draw(e, Start + (n - 1))
      BY <3>2
    <3> QED  BY <3>3, <3>4
  <2>2. Zero \in Polys
    BY DEF Zero, Polys
  <2>3. PICK f \in [0 .. TAU -> Polys] : f[0] = Zero /\ \A n \in 1 .. TAU : f[n] = next[<<n, f[n - 1]>>]
    BY <1>2, <2>2, RecursionExists
  <2>4. ASSUME NEW n \in 1 .. TAU PROVE f[n] = draw(f[n - 1], Start + (n - 1))
    <3>1. n - 1 \in 0 .. TAU
      BY <1>2
    <3>2. f[n - 1] \in Polys
      BY <3>1
    <3> HIDE DEF draw
    <3> QED  BY <2>1, <2>3, <3>2
  <2> QED  BY <2>3, <2>4 DEF IsRun
<1>5. PICK g : g = [y \in Start .. Degree |-> f[y - Start]]
  OBVIOUS
<1>6. Is(g)
  <2>1. ASSUME NEW y \in Start .. Degree
        PROVE  g[y] = IF y = Start THEN Zero ELSE draw(g[y - 1], y - 1)
    <3>1. CASE y = Start
      BY <1>2, <1>4, <1>5, <3>1 DEF IsRun
    <3>2. CASE y # Start
      <4>1. PICK n \in 1 .. TAU : y = Start + n /\ y - Start = n /\ y - 1 = Start + (n - 1)
                                  /\ (y - 1) - Start = n - 1 /\ y - 1 \in Start .. Degree
        <5>1. y - Start \in 1 .. TAU
          BY <1>2, <3>2
        <5>2. y = Start + (y - Start) /\ y - 1 = Start + ((y - Start) - 1)
              /\ (y - 1) - Start = (y - Start) - 1 /\ y - 1 \in Start .. Degree
          BY <1>2, <3>2
        <5> QED  BY <5>1, <5>2
      <4>2. g[y] = f[n] /\ g[y - 1] = f[n - 1]
        BY <1>5, <4>1
      <4>3. f[n] = draw(f[n - 1], Start + (n - 1))
        BY <1>4 DEF IsRun
      <4> HIDE DEF draw
      <4> QED  BY <3>2, <4>1, <4>2, <4>3
    <3> QED  BY <3>1, <3>2
  <2> HIDE DEF draw
  <2> QED  BY <1>5, <2>1
<1> DEFINE h1 == CHOOSE e : Is(e)
<1>7. Is(h1)
  <2> HIDE DEF Is
  <2> QED  BY <1>6
<1>8. Draw!Outcome(b, s) = h1[Degree]
  BY DEF Draw!Outcome, Start, Zero
<1> HIDE DEF h1
<1>9. PICK e : e = [n \in 0 .. TAU |-> h1[Start + n]]
  OBVIOUS
<1>10. /\ h1[Start] = Zero
       /\ \A n \in 1 .. TAU : h1[Start + n] = draw(h1[Start + (n - 1)], Start + (n - 1))
  <2> HIDE DEF draw
  <2>1. \A y \in Start .. Degree : h1[y] = IF y = Start THEN Zero ELSE draw(h1[y - 1], y - 1)
    BY <1>7
  <2>2. Start \in Start .. Degree
    BY <1>2
  <2>3. ASSUME NEW n \in 1 .. TAU
        PROVE  h1[Start + n] = draw(h1[Start + (n - 1)], Start + (n - 1))
    <3>1. Start + n \in Start .. Degree /\ Start + n # Start /\ (Start + n) - 1 = Start + (n - 1)
      BY <1>2
    <3> QED  BY <2>1, <3>1
  <2> QED  BY <2>1, <2>2, <2>3
<1>11. /\ e[0] = Zero /\ e[TAU] = h1[Degree]
       /\ \A n \in 1 .. TAU : e[n] = draw(e[n - 1], Start + (n - 1))
  <2> HIDE DEF draw
  <2>1. 0 \in 0 .. TAU /\ TAU \in 0 .. TAU /\ Start + 0 = Start
    BY <1>2
  <2>2. ASSUME NEW n \in 1 .. TAU PROVE e[n] = draw(e[n - 1], Start + (n - 1))
    <3>1. n \in 0 .. TAU /\ n - 1 \in 0 .. TAU
      BY <1>2
    <3> QED  BY <1>9, <1>10, <3>1
  <2> QED  BY <1>2, <1>9, <1>10, <2>1, <2>2
<1>12. e \in [0 .. TAU -> Polys]
  <2> DEFINE T == {n \in Nat : n <= TAU => e[n] \in Polys}
  <2>1. 0 \in T
    BY <1>11 DEF Zero, Polys
  <2>2. ASSUME NEW n \in T PROVE n + 1 \in T
    <3>1. n \in Nat
      OBVIOUS
    <3>2. ASSUME n + 1 <= TAU PROVE e[n + 1] \in Polys
      <4>1. n + 1 \in 1 .. TAU /\ (n + 1) - 1 = n /\ n <= TAU
        BY <1>2, <3>1, <3>2
      <4>2. PICK y \in Draw!Index : y = Start + n /\ y \in First(TAU)
        BY <1>3, <4>1
      <4>3. e[n + 1] = Draw!Shuffle(e[n], y, b[y], s[y])
        BY <1>11, <4>1, <4>2
      <4>4. e[n] \in Polys /\ b[y] \in Draw!Index /\ s[y] \in {1, -1}
        BY <4>1, <4>2
      <4>5. PICK u \in Polys, v \in Draw!Index, sign \in {1, -1} :
                u = e[n] /\ v = b[y] /\ sign = s[y]
        BY <4>4
      <4>6. Draw!Shuffle(u, y, v, sign) \in Polys
        BY ShuffleIs
      <4> QED  BY <4>3, <4>5, <4>6
    <3> QED  BY <3>1, <3>2
  <2>3. T = Nat
    <3> HIDE DEF T
    <3>1. T \subseteq Nat
      BY DEF T
    <3> QED  BY <2>1, <2>2, <3>1, Induction
  <2>4. \A n \in 0 .. TAU : e[n] \in Polys
    BY <1>2, <2>3
  <2> QED  BY <1>9, <2>4
<1>13. IsRun(e, b, s, TAU)
  BY <1>11, <1>12 DEF IsRun
<1> QED  BY <1>1, <1>8, <1>11, <1>13 DEF Gives

LEMMA UniformDraws == DrawInv => Draw!Uniform
<1> SUFFICES ASSUME DrawInv, free = Degree
             PROVE  Cardinality({choice \in Draw!Kept \X Draw!Signs :
                                     Draw!Outcome(choice[1], choice[2]) = poly})
                        = Draw!Factorial[TAU]
  BY CountsAlike DEF Draw!Uniform
<1>1. Placed(TAU, poly)
  <2>1. poly \in Polys
    BY DEF DrawInv, Draw!Weight, Polys
  <2>2. Support(poly) = Draw!NonZero
    BY DEF Support, Draw!NonZero
  <2>3. Cardinality(Draw!NonZero) = free - (Degree - TAU) /\ \A y \in Draw!NonZero : y < free
    BY CountsAlike DEF DrawInv, Draw!Weight
  <2>4. free - (Degree - TAU) = TAU /\ free = Start + TAU
    BY StartIs DEF Start
  <2> QED  BY <2>1, <2>2, <2>3, <2>4 DEF Placed
<1>2. Draw!Drawn = First(TAU)
  BY StartIs DEF Draw!Drawn, First, Start
<1>3. ASSUME NEW q
      PROVE  q \in Draw!Kept \X Draw!Signs <=> q \in Choices(TAU)
  <2>1. \A y \in First(TAU), v \in Draw!Index : ~(v > y) <=> v <= y
    BY StartIs DEF First
  <2>2. Draw!Kept = {b \in [First(TAU) -> Draw!Index] : \A y \in First(TAU) : b[y] <= y}
    BY <1>2, <2>1 DEF Draw!Kept, Draw!TooLarge
  <2>3. Draw!Signs = [First(TAU) -> {1, -1}]
    BY <1>2 DEF Draw!Signs
  <2> QED  BY <2>2, <2>3 DEF Choices
<1>4. ASSUME NEW q \in Choices(TAU)
      PROVE  Draw!Outcome(q[1], q[2]) = poly <=> Gives(TAU, q[1], q[2], poly)
  <2>1. Gives(TAU, q[1], q[2], Draw!Outcome(q[1], q[2]))
    BY OutcomeIs
  <2>2. ASSUME Gives(TAU, q[1], q[2], poly) PROVE Draw!Outcome(q[1], q[2]) = poly
    <3>1. PICK f : IsRun(f, q[1], q[2], TAU) /\ f[TAU] = poly
      BY <2>2 DEF Gives
    <3>2. PICK g : IsRun(g, q[1], q[2], TAU) /\ g[TAU] = Draw!Outcome(q[1], q[2])
      BY <2>1 DEF Gives
    <3>3. f[TAU] = g[TAU]
      <4>1. TAU \in Nat
        BY StartIs
      <4>2. PICK b, s : b = q[1] /\ s = q[2]
        OBVIOUS
      <4> QED  BY <3>1, <3>2, <4>1, <4>2, RunIsUnique
    <3> QED  BY <3>1, <3>2, <3>3
  <2> QED  BY <2>1, <2>2
<1>5. {choice \in Draw!Kept \X Draw!Signs : Draw!Outcome(choice[1], choice[2]) = poly} = Ways(TAU, poly)
  BY <1>3, <1>4 DEF Ways
<1>6. Cardinality(Ways(TAU, poly)) = Draw!Factorial[TAU]
  <2>1. TAU \in Nat /\ TAU <= TAU
    BY StartIs
  <2> QED  BY <1>1, <2>1, WaysAre
<1> QED  BY <1>5, <1>6

(* Every challenge of poly_challenge is as likely as any other, whatever   *)
(* the degree and the weight: of all bytes that can be kept and all signs, *)
(* TAU! give it.                                                           *)
THEOREM ChallengesAreUniform == MCSpec => []Uniform
<1>1. DrawInv => Uniform
  BY UniformDraws DEF Uniform
<1> QED  BY <1>1, DrawsInvariant, PTL
-----------------------------------------------------------------------------
(***************************************************************************)
(* The buffers of Aigis-sig.  What the tables say of a loop: when it is    *)
(* left, the counter is beyond where it stops by less than an iteration's  *)
(* candidates, or at the limit; and that is below where the next loop      *)
(* stops, or the end of the polynomial.                                    *)
(***************************************************************************)
Length(f) == Len(Fixed!Code(f))
Step(f, s) == Fixed!Code(f)[s]

(* The most that a loop leaves behind. *)
MostAfter(loop) ==
    IF loop.limit < loop.upto - 1 + loop.candidates THEN loop.limit
    ELSE loop.upto - 1 + loop.candidates

NextLoop(f, s) == IF Step(f, s).op = "loop" THEN s ELSE s + 1

LoopIsRight(f, s) ==
    /\ Step(f, s).upto \in 0 .. 256 /\ Step(f, s).limit \in Nat
    /\ Step(f, s).bytes \in Nat \ {0} /\ Step(f, s).candidates \in Nat
    /\ MostAfter(Step(f, s)) <= 256
    /\ s = Length(f) => Step(f, s).upto = 256
    /\ s < Length(f) => MostAfter(Step(f, s)) < Step(f, NextLoop(f, s + 1)).upto

ExtensionIsRight(f, s) ==
    /\ f \in {"expand_mat_22", "eta2_5"}
    /\ s \in 2 .. Length(f) - 1
    /\ Step(f, s + 1).op = "loop"
    /\ \A t \in 1 .. Length(f) : Step(f, t).op = "extend" => t = s
    /\ Step(f, s).below = Fixed!EnoughAfter(f)
    /\ Step(f, s).block = IF f = "eta2_5" THEN 136 ELSE 168

StepIsRight(f, s) ==
    \/ Step(f, s).op = "loop" /\ LoopIsRight(f, s)
    \/ Step(f, s).op = "extend" /\ ExtensionIsRight(f, s)

LEMMA FiveSteps ==
    ASSUME NEW A, NEW B, NEW C, NEW D, NEW E, NEW code,
           code = (<<A, B>> \o <<C>>) \o <<D, E>>
    PROVE  /\ Len(code) = 5
           /\ code[1] = A /\ code[2] = B /\ code[3] = C /\ code[4] = D /\ code[5] = E
<1> DEFINE S == {A, B, C, D, E}
<1>1. <<A, B>> \in Seq(S) /\ <<C>> \in Seq(S) /\ <<D, E>> \in Seq(S)
  OBVIOUS
<1> HIDE DEF S
<1>2. PICK x, y, z : /\ x = <<A, B>> /\ y = <<C>> /\ z = <<D, E>>
                     /\ x \in Seq(S) /\ y \in Seq(S) /\ z \in Seq(S)
  BY <1>1
<1>3. /\ Len(x) = 2 /\ x[1] = A /\ x[2] = B /\ Len(y) = 1 /\ y[1] = C
      /\ Len(z) = 2 /\ z[1] = D /\ z[2] = E
  BY <1>2
<1>4. /\ x \in Seq(S) /\ y \in Seq(S) /\ z \in Seq(S)
  BY <1>2
<1>5. PICK s : s = x \o y
  OBVIOUS
<1>6. s \in Seq(S) /\ Len(s) = 3 /\ s[1] = A /\ s[2] = B /\ s[3] = C
  <2>1. s \in Seq(S) /\ Len(s) = Len(x) + Len(y)
    BY <1>4, <1>5
  <2>2. Len(s) = 3
    BY <1>3, <2>1
  <2>3. s[1] = x[1] /\ s[2] = x[2]
    BY <1>3, <1>4, <1>5
  <2>4. s[3] = y[1]
    <3>1. 3 > Len(x) /\ 3 <= Len(x) + Len(y) /\ 3 - Len(x) = 1
      BY <1>3
    <3>2. s[3] = y[3 - Len(x)]
      BY <1>4, <1>5, <3>1
    <3> QED  BY <3>1, <3>2
  <2> QED  BY <1>3, <2>1, <2>2, <2>3, <2>4
<1>7. code = s \o z
  BY <1>2, <1>5
<1> QED  BY <1>3, <1>4, <1>6, <1>7

LEMMA TablesAreRight ==
    ASSUME NEW f \in FixedSamplers
    PROVE  /\ Length(f) \in Nat \ {0}
           /\ Step(f, 1).op = "loop" /\ Step(f, 1).upto > 0
           /\ \A s \in 1 .. Length(f) : StepIsRight(f, s)
<1>1. CASE f = "expand_mat_21"
  <2>1. Fixed!Code(f) =
            <<[op |-> "loop", upto |-> 256, limit |-> 264, bytes |-> 3, candidates |-> 1]>>
    BY <1>1
    DEF Fixed!Code, Fixed!Loop, Fixed!None, Fixed!PARAM_N
  <2>2. /\ Length(f) = 1
        /\ Step(f, 1) = [op |-> "loop", upto |-> 256, limit |-> 264, bytes |-> 3, candidates |-> 1]
    BY <2>1 DEF Length, Step
  <2>3. ASSUME NEW s \in 1 .. Length(f) PROVE StepIsRight(f, s)
    <3>1. CASE s = 1
      BY <1>1, <2>2, <3>1 DEF StepIsRight, LoopIsRight, MostAfter, NextLoop
    <3> QED  BY <2>2, <3>1
  <2> QED  BY <2>2, <2>3
<1>2. CASE f = "expand_mat_22"
  <2>1. Fixed!Code(f) =
            <<[op |-> "loop", upto |-> 225, limit |-> 264, bytes |-> 3, candidates |-> 1],
              [op |-> "extend", below |-> 258, block |-> 168],
              [op |-> "loop", upto |-> 256, limit |-> 264, bytes |-> 3, candidates |-> 1]>>
    BY <1>2
    DEF Fixed!Code, Fixed!Loop, Fixed!Extend, Fixed!None, Fixed!PARAM_N, Fixed!LastBytes, Fixed!SHAKE128_RATE
  <2>2. /\ Length(f) = 3
        /\ Step(f, 1) = [op |-> "loop", upto |-> 225, limit |-> 264, bytes |-> 3, candidates |-> 1]
        /\ Step(f, 2) = [op |-> "extend", below |-> 258, block |-> 168]
        /\ Step(f, 3) = [op |-> "loop", upto |-> 256, limit |-> 264, bytes |-> 3, candidates |-> 1]
    BY <2>1 DEF Length, Step
  <2>3. ASSUME NEW s \in 1 .. Length(f) PROVE StepIsRight(f, s)
    <3>1. CASE s = 1
      BY <1>2, <2>2, <3>1 DEF StepIsRight, LoopIsRight, MostAfter, NextLoop
    <3>2. CASE s = 2
      BY <1>2, <2>2, <3>2 DEF StepIsRight, ExtensionIsRight, Fixed!EnoughAfter
    <3>3. CASE s = 3
      BY <1>2, <2>2, <3>3 DEF StepIsRight, LoopIsRight, MostAfter, NextLoop
    <3> QED  BY <2>2, <3>1, <3>2, <3>3
  <2> QED  BY <2>2, <2>3
<1>3. CASE f = "eta1_1"
  <2>1. Fixed!Code(f) =
            <<[op |-> "loop", upto |-> 252, limit |-> 264, bytes |-> 1, candidates |-> 4],
              [op |-> "loop", upto |-> 256, limit |-> 256, bytes |-> 1, candidates |-> 4]>>
    BY <1>3
    DEF Fixed!Code, Fixed!Loop, Fixed!None, Fixed!PARAM_N, Fixed!RejEta1One
  <2>2. /\ Length(f) = 2
        /\ Step(f, 1) = [op |-> "loop", upto |-> 252, limit |-> 264, bytes |-> 1, candidates |-> 4]
        /\ Step(f, 2) = [op |-> "loop", upto |-> 256, limit |-> 256, bytes |-> 1, candidates |-> 4]
    BY <2>1 DEF Length, Step
  <2>3. ASSUME NEW s \in 1 .. Length(f) PROVE StepIsRight(f, s)
    <3>1. CASE s = 1
      BY <1>3, <2>2, <3>1 DEF StepIsRight, LoopIsRight, MostAfter, NextLoop
    <3>2. CASE s = 2
      BY <1>3, <2>2, <3>2 DEF StepIsRight, LoopIsRight, MostAfter, NextLoop
    <3> QED  BY <2>2, <3>1, <3>2
  <2> QED  BY <2>2, <2>3
<1>4. CASE f = "eta1_2"
  <2>1. Fixed!Code(f) =
            <<[op |-> "loop", upto |-> 248, limit |-> 264, bytes |-> 3, candidates |-> 8],
              [op |-> "loop", upto |-> 256, limit |-> 256, bytes |-> 3, candidates |-> 8]>>
    BY <1>4
    DEF Fixed!Code, Fixed!Loop, Fixed!None, Fixed!PARAM_N, Fixed!RejEta1Two
  <2>2. /\ Length(f) = 2
        /\ Step(f, 1) = [op |-> "loop", upto |-> 248, limit |-> 264, bytes |-> 3, candidates |-> 8]
        /\ Step(f, 2) = [op |-> "loop", upto |-> 256, limit |-> 256, bytes |-> 3, candidates |-> 8]
    BY <2>1 DEF Length, Step
  <2>3. ASSUME NEW s \in 1 .. Length(f) PROVE StepIsRight(f, s)
    <3>1. CASE s = 1
      BY <1>4, <2>2, <3>1 DEF StepIsRight, LoopIsRight, MostAfter, NextLoop
    <3>2. CASE s = 2
      BY <1>4, <2>2, <3>2 DEF StepIsRight, LoopIsRight, MostAfter, NextLoop
    <3> QED  BY <2>2, <3>1, <3>2
  <2> QED  BY <2>2, <2>3
<1>5. CASE f = "eta2_3"
  <2>1. Fixed!Code(f) =
            <<[op |-> "loop", upto |-> 254, limit |-> 264, bytes |-> 1, candidates |-> 2],
              [op |-> "loop", upto |-> 256, limit |-> 256, bytes |-> 1, candidates |-> 2]>>
    BY <1>5
    DEF Fixed!Code, Fixed!Loop, Fixed!None, Fixed!PARAM_N, Fixed!RejEta2
  <2>2. /\ Length(f) = 2
        /\ Step(f, 1) = [op |-> "loop", upto |-> 254, limit |-> 264, bytes |-> 1, candidates |-> 2]
        /\ Step(f, 2) = [op |-> "loop", upto |-> 256, limit |-> 256, bytes |-> 1, candidates |-> 2]
    BY <2>1 DEF Length, Step
  <2>3. ASSUME NEW s \in 1 .. Length(f) PROVE StepIsRight(f, s)
    <3>1. CASE s = 1
      BY <1>5, <2>2, <3>1 DEF StepIsRight, LoopIsRight, MostAfter, NextLoop
    <3>2. CASE s = 2
      BY <1>5, <2>2, <3>2 DEF StepIsRight, LoopIsRight, MostAfter, NextLoop
    <3> QED  BY <2>2, <3>1, <3>2
  <2> QED  BY <2>2, <2>3
<1>6. CASE f = "eta2_5"
  <2>1. Fixed!RejEta2(0, 223) =
            <<[op |-> "loop", upto |-> 221, limit |-> 264, bytes |-> 1, candidates |-> 2],
              [op |-> "loop", upto |-> 223, limit |-> 223, bytes |-> 1, candidates |-> 2]>>
    BY DEF Fixed!RejEta2, Fixed!Loop, Fixed!None, Fixed!PARAM_N
  <2>2. Fixed!RejEta2(223, 33) =
            <<[op |-> "loop", upto |-> 254, limit |-> 264, bytes |-> 1, candidates |-> 2],
              [op |-> "loop", upto |-> 256, limit |-> 256, bytes |-> 1, candidates |-> 2]>>
    BY DEF Fixed!RejEta2, Fixed!Loop, Fixed!None, Fixed!PARAM_N
  <2>3. Fixed!Code(f) = (Fixed!RejEta2(0, 223) \o <<Fixed!Extend(85, 136)>>)
                            \o Fixed!RejEta2(223, 33)
    BY <1>6 DEF Fixed!Code, Fixed!SHAKE256_RATE
  <2>4. /\ Length(f) = 5
        /\ Step(f, 1) = [op |-> "loop", upto |-> 221, limit |-> 264, bytes |-> 1, candidates |-> 2]
        /\ Step(f, 2) = [op |-> "loop", upto |-> 223, limit |-> 223, bytes |-> 1, candidates |-> 2]
        /\ Step(f, 3) = [op |-> "extend", below |-> 85, block |-> 136]
        /\ Step(f, 4) = [op |-> "loop", upto |-> 254, limit |-> 264, bytes |-> 1, candidates |-> 2]
        /\ Step(f, 5) = [op |-> "loop", upto |-> 256, limit |-> 256, bytes |-> 1, candidates |-> 2]
    <3>1. PICK A, B, D, E :
              /\ A = [op |-> "loop", upto |-> 221, limit |-> 264, bytes |-> 1, candidates |-> 2]
              /\ B = [op |-> "loop", upto |-> 223, limit |-> 223, bytes |-> 1, candidates |-> 2]
              /\ D = [op |-> "loop", upto |-> 254, limit |-> 264, bytes |-> 1, candidates |-> 2]
              /\ E = [op |-> "loop", upto |-> 256, limit |-> 256, bytes |-> 1, candidates |-> 2]
      OBVIOUS
    <3>2. PICK C : C = [op |-> "extend", below |-> 85, block |-> 136]
      OBVIOUS
    <3>3. Fixed!Code(f) = (<<A, B>> \o <<C>>) \o <<D, E>>
      BY <2>1, <2>2, <2>3, <3>1, <3>2 DEF Fixed!Extend
    <3>4. /\ Length(f) = 5 /\ Step(f, 1) = A /\ Step(f, 2) = B /\ Step(f, 3) = C
          /\ Step(f, 4) = D /\ Step(f, 5) = E
      BY <3>3, FiveSteps DEF Length, Step
    <3> QED  BY <3>1, <3>2, <3>4
  <2>5. ASSUME NEW s \in 1 .. Length(f) PROVE StepIsRight(f, s)
    <3>1. CASE s = 1
      BY <1>6, <2>4, <3>1 DEF StepIsRight, LoopIsRight, MostAfter, NextLoop
    <3>2. CASE s = 2
      BY <1>6, <2>4, <3>2 DEF StepIsRight, LoopIsRight, MostAfter, NextLoop
    <3>3. CASE s = 3
      BY <1>6, <2>4, <3>3 DEF StepIsRight, ExtensionIsRight, Fixed!EnoughAfter
    <3>4. CASE s = 4
      BY <1>6, <2>4, <3>4 DEF StepIsRight, LoopIsRight, MostAfter, NextLoop
    <3>5. CASE s = 5
      BY <1>6, <2>4, <3>5 DEF StepIsRight, LoopIsRight, MostAfter, NextLoop
    <3> QED  BY <2>4, <3>1, <3>2, <3>3, <3>4, <3>5
  <2> QED  BY <2>4, <2>5
<1>7. CASE f = "gamma1m1"
  <2>1. Fixed!Code(f) =
            <<[op |-> "loop", upto |-> 254, limit |-> 264, bytes |-> 5, candidates |-> 2],
              [op |-> "loop", upto |-> 256, limit |-> 256, bytes |-> 5, candidates |-> 2]>>
    BY <1>7
    DEF Fixed!Code, Fixed!Loop, Fixed!None, Fixed!PARAM_N
  <2>2. /\ Length(f) = 2
        /\ Step(f, 1) = [op |-> "loop", upto |-> 254, limit |-> 264, bytes |-> 5, candidates |-> 2]
        /\ Step(f, 2) = [op |-> "loop", upto |-> 256, limit |-> 256, bytes |-> 5, candidates |-> 2]
    BY <2>1 DEF Length, Step
  <2>3. ASSUME NEW s \in 1 .. Length(f) PROVE StepIsRight(f, s)
    <3>1. CASE s = 1
      BY <1>7, <2>2, <3>1 DEF StepIsRight, LoopIsRight, MostAfter, NextLoop
    <3>2. CASE s = 2
      BY <1>7, <2>2, <3>2 DEF StepIsRight, LoopIsRight, MostAfter, NextLoop
    <3> QED  BY <2>2, <3>1, <3>2
  <2> QED  BY <2>2, <2>3
<1> QED  BY <1>1, <1>2, <1>3, <1>4, <1>5, <1>6, <1>7 DEF FixedSamplers

LEMMA FirstFills ==
    ASSUME NEW f \in FixedSamplers
    PROVE  /\ Fixed!FirstFill(f) \in Nat
           /\ f = "expand_mat_22" => Fixed!FirstFill(f) = 1008 /\ Fixed!EnoughAfter(f) = 258
           /\ f = "eta2_5" => Fixed!FirstFill(f) = 272 /\ Fixed!EnoughAfter(f) = 85
BY DEF FixedSamplers, Fixed!FirstFill, Fixed!EnoughAfter, Fixed!SHAKE128_RATE, Fixed!SHAKE256_RATE

-----------------------------------------------------------------------------
(* Where the counter may be before a step. *)
CounterBelow ==
    IF step > Length(fsampler) THEN fctr = 256
    ELSE IF Step(fsampler, step).op = "loop" THEN fctr < Step(fsampler, step).upto
    ELSE fctr < Step(fsampler, step + 1).upto /\ fctr <= 256

(* Before the extension the buffer is as it was filled; behind it there is *)
(* a block more if fewer bytes were left than are enough.                  *)
Extended ==
    IF resumed = 0 THEN fsqueezed = Fixed!FirstFill(fsampler)
    ELSE /\ fsampler \in {"expand_mat_22", "eta2_5"}
         /\ resumed <= Fixed!FirstFill(fsampler)
         /\ \A t \in 1 .. Length(fsampler) : Step(fsampler, t).op = "extend" => t < step
         /\ fsqueezed = IF Fixed!FirstFill(fsampler) - resumed < Fixed!EnoughAfter(fsampler)
                        THEN Fixed!FirstFill(fsampler) + (IF fsampler = "eta2_5" THEN 136 ELSE 168)
                        ELSE Fixed!FirstFill(fsampler)

FixedInv ==
    /\ fsampler \in FixedSamplers
    /\ step \in 1 .. Length(fsampler) + 1
    /\ fctr \in Nat /\ fpos \in Nat /\ resumed \in Nat
    /\ step > 1 => fpos > 0
    /\ CounterBelow /\ Extended

LEMMA RightStep ==
    ASSUME FixedInv, step <= Length(fsampler)
    PROVE  StepIsRight(fsampler, step)
<1>1. Length(fsampler) \in Nat /\ \A s \in 1 .. Length(fsampler) : StepIsRight(fsampler, s)
  BY TablesAreRight DEF FixedInv
<1> QED  BY <1>1 DEF FixedInv

LEMMA FixedInit == Fixed!Init => FixedInv
BY TablesAreRight DEF Fixed!Init, FixedInv, CounterBelow, Extended

LEMMA FixedIterates ==
    ASSUME FixedInv, NEW n \in 0 .. 8,
           Fixed!Running("loop"), n \in Fixed!Accepted, Fixed!Iterate(n)
    PROVE  FixedInv'
<1> DEFINE now == Step(fsampler, step)
<1>0. /\ Length(fsampler) \in Nat /\ step \in 1 .. Length(fsampler) + 1
      /\ fctr \in Nat /\ fpos \in Nat
  BY TablesAreRight DEF FixedInv
<1>1. /\ fsampler' = fsampler /\ fsqueezed' = fsqueezed /\ resumed' = resumed
      /\ fpos' = fpos + now.bytes
      /\ \/ fctr' = fctr + n /\ fctr' <= now.limit
         \/ fctr' = now.limit /\ fctr + n > now.limit
      /\ step' = IF fctr' >= now.upto THEN step + 1 ELSE step
      /\ step <= Length(fsampler) /\ now.op = "loop"
  BY DEF Fixed!Iterate, Fixed!Running, Fixed!Now, Length, Step
<1>2. LoopIsRight(fsampler, step)
  BY <1>1, RightStep DEF StepIsRight
<1>3. n <= now.candidates
  BY <1>2 DEF Fixed!Accepted, Fixed!Now, Step, LoopIsRight
<1>4. fctr < now.upto
  BY <1>0, <1>1 DEF FixedInv, CounterBelow
<1>5. /\ now.upto \in 0 .. 256 /\ now.limit \in Nat /\ now.bytes \in Nat \ {0}
      /\ now.candidates \in Nat
  BY <1>2 DEF LoopIsRight
<1>6. fctr' \in Nat /\ fctr' <= MostAfter(now)
  BY <1>0, <1>1, <1>3, <1>4, <1>5 DEF MostAfter
<1>7. CASE fctr' < now.upto
  <2>1. step' = step
    BY <1>1, <1>5, <1>6, <1>7
  <2>2. CounterBelow'
    BY <1>0, <1>1, <1>7, <2>1 DEF CounterBelow
  <2>3. Extended'
    BY <1>1, <2>1 DEF FixedInv, Extended
  <2> QED  BY <1>0, <1>1, <1>5, <1>6, <2>1, <2>2, <2>3 DEF FixedInv
<1>8. CASE fctr' >= now.upto
  <2>1. step' = step + 1
    BY <1>1, <1>8
  <2>2. MostAfter(now) \in Int /\ MostAfter(now) <= 256
    BY <1>2, <1>5 DEF MostAfter, LoopIsRight
  <2>3. CounterBelow'
    <3>1. CASE step = Length(fsampler)
      <4>1. now.upto = 256
        BY <1>2, <3>1 DEF LoopIsRight
      <4> QED  BY <1>0, <1>1, <1>6, <1>8, <2>1, <2>2, <3>1, <4>1 DEF CounterBelow
    <3>2. CASE step < Length(fsampler)
      <4>1. step + 1 \in 1 .. Length(fsampler)
        BY <1>0, <3>2
      <4>2. StepIsRight(fsampler, step + 1)
        BY <4>1, TablesAreRight DEF FixedInv
      <4>3. MostAfter(now) <
            Step(fsampler, NextLoop(fsampler, step + 1)).upto
        BY <1>2, <3>2 DEF LoopIsRight
      <4>4. CASE Step(fsampler, step + 1).op = "loop"
        <5>1. Step(fsampler, step + 1).upto \in Nat
          BY <4>2, <4>4 DEF StepIsRight, LoopIsRight
        <5>2. fctr' < Step(fsampler, step + 1).upto
          BY <1>6, <2>2, <4>3, <4>4, <5>1 DEF NextLoop
        <5> QED  BY <1>1, <2>1, <4>1, <4>4, <5>2, <1>0 DEF CounterBelow
      <4>5. CASE Step(fsampler, step + 1).op # "loop"
        <5>1. ExtensionIsRight(fsampler, step + 1)
          BY <4>2, <4>5 DEF StepIsRight
        <5>2. /\ step + 2 \in 1 .. Length(fsampler) /\ step + 1 + 1 = step + 2
              /\ Step(fsampler, step + 2).op = "loop"
          BY <4>1, <5>1, TablesAreRight DEF ExtensionIsRight, FixedInv
        <5>3. Step(fsampler, step + 2).upto \in Nat
          <6>1. StepIsRight(fsampler, step + 2)
            BY <5>2, TablesAreRight DEF FixedInv
          <6> QED  BY <5>2, <6>1 DEF StepIsRight, LoopIsRight
        <5>4. fctr' < Step(fsampler, step + 2).upto /\ fctr' <= 256
          BY <1>6, <2>2, <4>3, <4>5, <5>2, <5>3 DEF NextLoop
        <5> QED  BY <1>1, <2>1, <4>1, <4>5, <5>2, <5>4, <1>0 DEF CounterBelow
      <4> QED  BY <4>4, <4>5
    <3> QED  BY <1>0, <1>1, <3>1, <3>2
  <2>4. Extended'
    BY <1>0, <1>1, <2>1 DEF FixedInv, Extended
  <2> QED  BY <1>0, <1>1, <1>5, <1>6, <2>1, <2>3, <2>4 DEF FixedInv
<1> QED  BY <1>5, <1>6, <1>7, <1>8

LEMMA FixedExtends == ASSUME FixedInv, Fixed!ExtendBuffer PROVE FixedInv'
<1>1. /\ fsampler' = fsampler /\ fctr' = fctr /\ fpos' = fpos /\ resumed' = fpos
      /\ step' = step + 1
      /\ step <= Length(fsampler) /\ Step(fsampler, step).op = "extend"
      /\ fsqueezed' = IF Fixed!FirstFill(fsampler) - fpos < Step(fsampler, step).below
                      THEN Fixed!FirstFill(fsampler) + Step(fsampler, step).block ELSE fsqueezed
  BY DEF Fixed!ExtendBuffer, Fixed!Running, Fixed!Now, Length, Step
<1>2. ExtensionIsRight(fsampler, step)
  BY <1>1, RightStep DEF StepIsRight
<1>3. fpos > 0
  BY <1>2 DEF ExtensionIsRight, FixedInv
<1>4. resumed = 0 /\ fpos <= Fixed!FirstFill(fsampler)
  <2>1. step \in 1 .. Length(fsampler)
    BY <1>2, TablesAreRight DEF ExtensionIsRight, FixedInv
  <2>2. resumed = 0
    BY <1>1, <2>1 DEF FixedInv, Extended
  <2> QED  BY <2>2 DEF Fixed!ExtendBuffer, Fixed!Lucky
<1>5. CounterBelow'
  BY <1>1, <1>2, TablesAreRight DEF FixedInv, CounterBelow, ExtensionIsRight
<1>6. Extended'
  BY <1>1, <1>2, <1>3, <1>4 DEF FixedInv, Extended, ExtensionIsRight
<1> QED  BY <1>1, <1>2, <1>3, <1>5, <1>6, TablesAreRight DEF FixedInv, ExtensionIsRight

LEMMA FixedNext == FixedInv /\ [Fixed!Next]_fixedVars => FixedInv'
<1> SUFFICES ASSUME FixedInv, [Fixed!Next]_fixedVars PROVE FixedInv'
  OBVIOUS
<1>1. CASE Fixed!ExtendBuffer
  BY <1>1, FixedExtends
<1>2. ASSUME NEW n \in 0 .. 8,
             Fixed!Running("loop"), n \in Fixed!Accepted, Fixed!Iterate(n)
      PROVE  FixedInv'
  BY <1>2, FixedIterates
<1>3. CASE UNCHANGED fixedVars
  BY <1>3 DEF fixedVars, FixedInv, CounterBelow, Extended
<1> QED  BY <1>1, <1>2, <1>3 DEF Fixed!Next

LEMMA FixedStays == FixedInv => Fixed!StaysInBuffers
<1> SUFFICES ASSUME FixedInv PROVE Fixed!StaysInBuffers
  OBVIOUS
<1>1. fctr <= 256 /\ (step > Length(fsampler) => fctr = 256)
  <2>1. CASE step > Length(fsampler)
    BY <2>1 DEF FixedInv, CounterBelow
  <2>2. CASE step <= Length(fsampler)
    <3>1. StepIsRight(fsampler, step)
      BY <2>2, TablesAreRight DEF FixedInv
    <3> QED  BY <2>2, <3>1 DEF FixedInv, CounterBelow, StepIsRight, LoopIsRight
  <2> QED  BY <2>1, <2>2, TablesAreRight DEF FixedInv
<1>2. Fixed!Lucky => fpos <= fsqueezed
  <2> SUFFICES ASSUME Fixed!Lucky PROVE fpos <= fsqueezed
    OBVIOUS
  <2>1. CASE resumed = 0
    BY <2>1 DEF Fixed!Lucky, FixedInv, Extended
  <2>2. CASE resumed # 0
    <3>1. /\ fpos - resumed <= Fixed!EnoughAfter(fsampler)
          /\ fsampler = "expand_mat_22" => fpos <= 1176
      BY <2>2 DEF Fixed!Lucky, Fixed!SHAKE128_RATE, FixedInv
    <3>2. CASE fsampler = "expand_mat_22"
      BY <2>2, <3>1, <3>2, FirstFills DEF FixedInv, Extended
    <3>3. CASE fsampler = "eta2_5"
      BY <2>2, <3>1, <3>3, FirstFills DEF FixedInv, Extended
    <3> QED  BY <2>2, <3>2, <3>3 DEF FixedInv, Extended
  <2> QED  BY <2>1, <2>2
<1> QED  BY <1>1, <1>2 DEF Fixed!StaysInBuffers, Length, Fixed!PARAM_N

-----------------------------------------------------------------------------
FixedRuns ==
    IF running = "fixed" THEN FixedInv
    ELSE fsampler = "gamma1m1" /\ step = 0 /\ fctr = 0 /\ fpos = 0 /\ fsqueezed = 0

LEMMA FixedInvariant == MCSpec => []FixedRuns
<1>1. MCInit => FixedRuns
  BY FixedInit DEF MCInit, NoFixed, FixedRuns
<1>2. FixedRuns /\ [MCNext]_<<running, challengeVars, rejVars, fixedVars, groupVars>>
          => FixedRuns'
  <2> SUFFICES ASSUME FixedRuns,
                      [MCNext]_<<running, challengeVars, rejVars, fixedVars, groupVars>>
               PROVE  FixedRuns'
    OBVIOUS
  <2>1. /\ running' = running
        /\ IF running = "fixed" THEN [Fixed!Next]_fixedVars ELSE UNCHANGED fixedVars
    BY DEF MCNext
  <2>2. CASE running = "fixed"
    BY <2>1, <2>2, FixedNext DEF FixedRuns
  <2>3. CASE running # "fixed"
    BY <2>1, <2>3 DEF FixedRuns, fixedVars
  <2> QED  BY <2>2, <2>3
<1> QED  BY <1>1, <1>2, PTL DEF MCSpec

(* Aigis-sig: expand_mat, the secrets and the mask read no byte that was   *)
(* not squeezed, but for what the comments give a probability for, write   *)
(* no coefficient behind the last and leave none out, whatever is drawn:   *)
(* however long a loop runs.                                               *)
THEOREM SamplersStayInBuffers == MCSpec => []StaysInBuffers
<1>1. FixedRuns => StaysInBuffers
  <2> SUFFICES ASSUME FixedRuns PROVE Fixed!StaysInBuffers
    BY DEF StaysInBuffers
  <2>1. CASE running = "fixed"
    BY <2>1, FixedStays DEF FixedRuns
  <2>2. CASE running # "fixed"
    <3>1. fsampler \in FixedSamplers
      BY <2>2 DEF FixedRuns, FixedSamplers
    <3>2. Length(fsampler) \in Nat
      BY <3>1, TablesAreRight
    <3> QED  BY <2>2, <3>2 DEF FixedRuns, Fixed!StaysInBuffers, Fixed!PARAM_N, Length
  <2> QED  BY <2>1, <2>2
<1> QED  BY <1>1, FixedInvariant, PTL
-----------------------------------------------------------------------------
(***************************************************************************)
(* The packing loops, for a polynomial of any length and any tables that   *)
(* are right for one group (TablesWork, which TLC evaluates for the tables *)
(* of all schemes): every group is written and read as the first one, with *)
(* later coefficients, since the bit string has the period of a group.     *)
(***************************************************************************)
LEMMA Division ==
    ASSUME NEW u \in Nat, NEW M \in Nat \ {0}
    PROVE  /\ u \div M \in Nat /\ u % M \in 0 .. M - 1
           /\ u = (u \div M) * M + (u % M)
<1>1. u = M * (u \div M) + (u % M) /\ (u % M) \in 0 .. M - 1 /\ u \div M \in Int
  OBVIOUS
<1>2. M * (u \div M) = (u \div M) * M
  BY <1>1
<1>3. u \div M >= 0
  <2> DEFINE q == u \div M
  <2>1. q \in Int /\ q * M + M > 0
    BY <1>1, <1>2
  <2> HIDE DEF q
  <2>2. ASSUME q <= -1 PROVE FALSE
    <3>1. (-1 - q) * M >= 0
      BY <2>1, <2>2
    <3>2. (-1 - q) * M = -M - q * M
      BY <2>1
    <3> QED  BY <2>1, <3>1, <3>2
  <2> QED  BY <2>1, <2>2 DEF q
<1> QED  BY <1>1, <1>2, <1>3

LEMMA CancelFactor ==
    ASSUME NEW u \in Int, NEW b \in Int, NEW M \in Nat \ {0}, u * M < b * M
    PROVE  u < b
<1> SUFFICES ASSUME b <= u PROVE FALSE
  OBVIOUS
<1>1. u - b \in Nat
  OBVIOUS
<1>2. (u - b) * M >= 0
  BY <1>1
<1>3. (u - b) * M = u * M - b * M
  OBVIOUS
<1> QED  BY <1>2, <1>3

(* Quotient and rest are unique. *)
LEMMA QuotientIs ==
    ASSUME NEW u \in Nat, NEW M \in Nat \ {0}, NEW q \in Int, NEW e \in 0 .. M - 1, u = q * M + e
    PROVE  u \div M = q /\ u % M = e
<1> DEFINE p == u \div M
           o == u % M
<1>1. p \in Int /\ o \in 0 .. M - 1 /\ u = p * M + o
  BY Division
<1> HIDE DEF p, o
<1>2. p * M \in Int /\ q * M \in Int /\ (p + 1) * M = p * M + M /\ (q + 1) * M = q * M + M
  BY <1>1
<1>3. p * M < (q + 1) * M /\ q * M < (p + 1) * M
  BY <1>1, <1>2
<1>4. p < q + 1 /\ q < p + 1
  BY <1>1, <1>3, CancelFactor
<1>5. p = q
  BY <1>1, <1>4
<1> QED  BY <1>1, <1>5 DEF p, o

-----------------------------------------------------------------------------
(***************************************************************************)
(* The bits of a later group have the same places and later names: those   *)
(* of the first, u coefficients on.                                        *)
(***************************************************************************)
Named(bits, u) == {<<b[1], <<b[2][1] + u, b[2][2]>>>> : b \in bits}

LEMMA MovedNamed ==
    ASSUME NEW bits, NEW u, NEW operand
    PROVE  Bits!Moved(Named(bits, u), operand) = Named(Bits!Moved(bits, operand), u)
<1>1. ASSUME NEW y \in Bits!Moved(Named(bits, u), operand)
      PROVE  y \in Named(Bits!Moved(bits, operand), u)
  <2>1. PICK z \in Named(bits, u) : /\ z[1] < operand[2] /\ z[1] + operand[3] >= 0
                                    /\ y = <<z[1] + operand[3], z[2]>>
    BY DEF Bits!Moved
  <2>2. PICK b \in bits : z = <<b[1], <<b[2][1] + u, b[2][2]>>>>
    BY DEF Named
  <2>3. PICK c : c = <<b[1] + operand[3], b[2]>>
    OBVIOUS
  <2>4. c \in Bits!Moved(bits, operand)
    BY <2>1, <2>2, <2>3 DEF Bits!Moved
  <2>5. y = <<c[1], <<c[2][1] + u, c[2][2]>>>>
    BY <2>1, <2>2, <2>3
  <2> QED  BY <2>4, <2>5 DEF Named
<1>2. ASSUME NEW y \in Named(Bits!Moved(bits, operand), u)
      PROVE  y \in Bits!Moved(Named(bits, u), operand)
  <2>1. PICK c \in Bits!Moved(bits, operand) : y = <<c[1], <<c[2][1] + u, c[2][2]>>>>
    BY DEF Named
  <2>2. PICK b \in bits : /\ b[1] < operand[2] /\ b[1] + operand[3] >= 0
                          /\ c = <<b[1] + operand[3], b[2]>>
    BY DEF Bits!Moved
  <2>3. PICK z : z = <<b[1], <<b[2][1] + u, b[2][2]>>>>
    OBVIOUS
  <2>4. z \in Named(bits, u)
    BY <2>3 DEF Named
  <2>5. z[1] < operand[2] /\ z[1] + operand[3] >= 0 /\ y = <<z[1] + operand[3], z[2]>>
    BY <2>1, <2>2, <2>3
  <2> QED  BY <2>4, <2>5 DEF Bits!Moved
<1> QED  BY <1>1, <1>2

LEMMA LowNamed ==
    ASSUME NEW bits, NEW u, NEW n
    PROVE  Bits!Low(Named(bits, u), n) = Named(Bits!Low(bits, n), u)
<1>1. ASSUME NEW y \in Bits!Low(Named(bits, u), n)
      PROVE  y \in Named(Bits!Low(bits, n), u)
  <2>1. y \in Named(bits, u) /\ y[1] < n
    BY DEF Bits!Low
  <2>2. PICK b \in bits : y = <<b[1], <<b[2][1] + u, b[2][2]>>>>
    BY <2>1 DEF Named
  <2>3. b \in Bits!Low(bits, n)
    BY <2>1, <2>2 DEF Bits!Low
  <2> QED  BY <2>2, <2>3 DEF Named
<1>2. ASSUME NEW y \in Named(Bits!Low(bits, n), u)
      PROVE  y \in Bits!Low(Named(bits, u), n)
  <2>1. PICK b \in Bits!Low(bits, n) : y = <<b[1], <<b[2][1] + u, b[2][2]>>>>
    BY DEF Named
  <2>2. b \in bits /\ b[1] < n
    BY DEF Bits!Low
  <2>3. y \in Named(bits, u) /\ y[1] < n
    BY <2>1, <2>2 DEF Named
  <2> QED  BY <2>3 DEF Bits!Low
<1> QED  BY <1>1, <1>2

(* Words at a distance with the same bits make the same word there. *)
LEMMA OrNamed ==
    ASSUME NEW first, NEW words, NEW operands, NEW base, NEW u,
           \A o \in operands : words[base + o[1]] = Named(first[0 + o[1]], u)
    PROVE  Bits!Or(words, operands, base) = Named(Bits!Or(first, operands, 0), u)
<1>1. \A o \in operands :
          Bits!Moved(words[base + o[1]], o) = Named(Bits!Moved(first[0 + o[1]], o), u)
  BY MovedNamed
<1>2. ASSUME NEW y \in Bits!Or(words, operands, base)
      PROVE  y \in Named(Bits!Or(first, operands, 0), u)
  <2>1. PICK o \in operands : y \in Bits!Moved(words[base + o[1]], o)
    BY DEF Bits!Or
  <2>2. PICK b \in Bits!Moved(first[0 + o[1]], o) : y = <<b[1], <<b[2][1] + u, b[2][2]>>>>
    BY <1>1, <2>1 DEF Named
  <2>3. b \in Bits!Or(first, operands, 0)
    BY DEF Bits!Or
  <2> QED  BY <2>2, <2>3 DEF Named
<1>3. ASSUME NEW y \in Named(Bits!Or(first, operands, 0), u)
      PROVE  y \in Bits!Or(words, operands, base)
  <2>1. PICK b \in Bits!Or(first, operands, 0) : y = <<b[1], <<b[2][1] + u, b[2][2]>>>>
    BY DEF Named
  <2>2. PICK o \in operands : b \in Bits!Moved(first[0 + o[1]], o)
    BY DEF Bits!Or
  <2>3. y \in Bits!Moved(words[base + o[1]], o)
    BY <1>1, <2>1, <2>2 DEF Named
  <2> QED  BY <2>3 DEF Bits!Or
<1> QED  BY <1>2, <1>3

Byte8(f, u) == {<<b, Bits!StreamBit(f, u, b)>> : b \in 0 .. 7}

LEMMA CoefficientNamed ==
    ASSUME NEW f, NEW c \in Nat, NEW u \in Nat
    PROVE  Bits!Coefficient(f, u + c) = Named(Bits!Coefficient(f, c), u)
<1>1. c + u = u + c
  OBVIOUS
<1>2. ASSUME NEW y \in Bits!Coefficient(f, u + c)
      PROVE  y \in Named(Bits!Coefficient(f, c), u)
  <2>1. PICK p \in 0 .. f.width - 1 : y = <<p, <<u + c, p>>>>
    BY DEF Bits!Coefficient
  <2>2. PICK b : b = <<p, <<c, p>>>>
    OBVIOUS
  <2>3. b \in Bits!Coefficient(f, c)
    BY <2>2 DEF Bits!Coefficient
  <2>4. y = <<b[1], <<b[2][1] + u, b[2][2]>>>>
    BY <1>1, <2>1, <2>2
  <2> QED  BY <2>3, <2>4 DEF Named
<1>3. ASSUME NEW y \in Named(Bits!Coefficient(f, c), u)
      PROVE  y \in Bits!Coefficient(f, u + c)
  <2>1. PICK b \in Bits!Coefficient(f, c) : y = <<b[1], <<b[2][1] + u, b[2][2]>>>>
    BY DEF Named
  <2>2. PICK p \in 0 .. f.width - 1 : b = <<p, <<c, p>>>>
    BY DEF Bits!Coefficient
  <2>3. y = <<p, <<u + c, p>>>>
    BY <1>1, <2>1, <2>2
  <2> QED  BY <2>3 DEF Bits!Coefficient
<1> QED  BY <1>2, <1>3

(* m bytes on the bits are those of the coefficients n on. *)
Period(f, n, m) == f.width \in Nat \ {0} /\ 8 * m = n * f.width

(* Bit streams have the period of a group. *)
LEMMA StreamBitNamed ==
    ASSUME NEW f, NEW n \in Nat, NEW m \in Nat, Period(f, n, m),
           NEW u \in Nat, NEW b \in 0 .. 7
    PROVE  Bits!StreamBit(f, m + u, b) =
               <<Bits!StreamBit(f, u, b)[1] + n, Bits!StreamBit(f, u, b)[2]>>
<1>1. PICK w \in Nat \ {0} : w = f.width /\ 8 * m = n * w
  BY DEF Period
<1>2. PICK z \in Nat : z = 8 * u + b
  OBVIOUS
<1>3. PICK q \in Nat, e \in 0 .. w - 1 : q = z \div w /\ e = z % w /\ z = q * w + e
  <2>1. z \div w \in Nat /\ z % w \in 0 .. w - 1 /\ z = (z \div w) * w + (z % w)
    BY Division
  <2> QED  BY <2>1
<1>4. PICK y \in Nat, p \in Nat : y = 8 * (m + u) + b /\ p = q + n
  OBVIOUS
<1>5. y = p * w + e
  <2>1. p * w = q * w + n * w
    BY <1>4
  <2>2. PICK qw, nw \in Nat : qw = q * w /\ nw = n * w
    OBVIOUS
  <2>3. y = nw + z
    BY <1>1, <1>2, <1>4, <2>2
  <2> QED  BY <1>3, <2>1, <2>2, <2>3
<1>6. y \div w = p /\ y % w = e
  BY <1>5, QuotientIs
<1>7. Bits!StreamBit(f, u, b) = <<q, e>>
  BY <1>1, <1>2, <1>3 DEF Bits!StreamBit
<1>8. Bits!StreamBit(f, m + u, b) = <<q + n, e>>
  BY <1>1, <1>4, <1>6 DEF Bits!StreamBit
<1> QED  BY <1>7, <1>8

LEMMA ByteNamed ==
    ASSUME NEW f, NEW n \in Nat, NEW m \in Nat, Period(f, n, m), NEW u \in Nat
    PROVE  Byte8(f, m + u) = Named(Byte8(f, u), n)
<1>1. \A b \in 0 .. 7 : Bits!StreamBit(f, m + u, b) =
          <<Bits!StreamBit(f, u, b)[1] + n, Bits!StreamBit(f, u, b)[2]>>
  BY StreamBitNamed
<1>2. ASSUME NEW y \in Byte8(f, m + u)
      PROVE  y \in Named(Byte8(f, u), n)
  <2>1. PICK b \in 0 .. 7 : y = <<b, Bits!StreamBit(f, m + u, b)>>
    BY DEF Byte8
  <2>2. PICK z : z = <<b, Bits!StreamBit(f, u, b)>>
    OBVIOUS
  <2>3. z \in Byte8(f, u)
    BY <2>2 DEF Byte8
  <2>4. y = <<z[1], <<z[2][1] + n, z[2][2]>>>>
    BY <1>1, <2>1, <2>2
  <2> QED  BY <2>3, <2>4 DEF Named
<1>3. ASSUME NEW y \in Named(Byte8(f, u), n)
      PROVE  y \in Byte8(f, m + u)
  <2>1. PICK z \in Byte8(f, u) : y = <<z[1], <<z[2][1] + n, z[2][2]>>>>
    BY DEF Named
  <2>2. PICK b \in 0 .. 7 : z = <<b, Bits!StreamBit(f, u, b)>>
    BY DEF Byte8
  <2>3. y = <<b, Bits!StreamBit(f, m + u, b)>>
    BY <1>1, <2>1, <2>2
  <2> QED  BY <2>3 DEF Byte8
<1> QED  BY <1>2, <1>3

-----------------------------------------------------------------------------
(* What TablesWork says of a table. *)
Works(f, n, m, G) ==
    /\ n = f.n /\ m = Len(f.pack)
    /\ n \in Nat \ {0} /\ m \in Nat /\ m > 0 /\ f.width \in Nat \ {0} /\ 8 * m = n * f.width
    /\ G \in Nat /\ G > 0 /\ PolyN = G * n /\ PolyN \div n = G /\ Bits!PackedBytes(f) = G * m

LEMMA TableWorks ==
    ASSUME Bits!TablesWork, NEW name \in DOMAIN Lay!AllFormats, NEW f, f = Lay!AllFormats[name]
    PROVE  /\ Bits!GroupWorks(f)
           /\ \E n \in Nat \ {0}, m \in Nat, G \in Nat : Works(f, n, m, G)
<1>1. Bits!GroupWorks(f) /\ PolyN % f.n = 0 /\ PolyN \in Nat \ {0}
  BY DEF Bits!TablesWork
<1>2. PICK n \in Nat \ {0}, w \in Nat \ {0} :
          n = f.n /\ w = f.width /\ 8 * Len(f.pack) = n * w
  <2>1. f.n \in Nat \ {0} /\ f.width \in Nat \ {0} /\ 8 * Len(f.pack) = f.n * f.width
    BY <1>1 DEF Bits!GroupWorks
  <2> QED  BY <2>1
<1>3. PICK m : m = Len(f.pack)
  OBVIOUS
<1>4. m \in Nat /\ m > 0
  <2>1. PICK z \in Nat : z > 0 /\ z = n * w
    OBVIOUS
  <2>2. m \in Nat
    BY <1>1, <1>3 DEF Bits!GroupWorks
  <2> QED  BY <1>2, <1>3, <2>1, <2>2
<1>5. PICK G \in Nat : G = PolyN \div n /\ PolyN = G * n
  <2>1. PolyN = (PolyN \div n) * n + (PolyN % n) /\ PolyN \div n \in Nat
    BY <1>1, Division
  <2>2. PolyN % n = 0
    BY <1>1, <1>2
  <2>3. (PolyN \div n) * n \in Nat
    BY <2>1
  <2> QED  BY <2>1, <2>2, <2>3
<1>6. G > 0
  BY <1>1, <1>5
<1>7. Bits!PackedBytes(f) = G * m
  BY <1>2, <1>3, <1>5 DEF Bits!PackedBytes
<1>8. Works(f, n, m, G)
  BY <1>2, <1>3, <1>4, <1>5, <1>6, <1>7 DEF Works
<1> QED  BY <1>1, <1>4, <1>8

LEMMA GroupNamed ==
    ASSUME NEW f, NEW n \in Nat \ {0}, NEW m \in Nat, NEW G \in Nat, Works(f, n, m, G),
           NEW g \in 0 .. G - 1, NEW u \in 0 .. m - 1
    PROVE  Byte8(f, g * m + u) = Named(Byte8(f, u), g * n)
<1>1. PICK gm \in Nat, gn \in Nat : gm = g * m /\ gn = g * n
  OBVIOUS
<1>2. Period(f, gn, gm)
  <2>1. PICK w \in Nat \ {0} : w = f.width /\ 8 * m = n * w
    BY DEF Works
  <2>2. g * (8 * m) = g * (n * w)
    BY <2>1
  <2>3. g * (8 * m) = 8 * (g * m) /\ g * (n * w) = (g * n) * w
    OBVIOUS
  <2>4. 8 * gm = gn * w
    BY <1>1, <2>2, <2>3
  <2> QED  BY <2>1, <2>4 DEF Period
<1>3. u \in Nat
  OBVIOUS
<1>4. Byte8(f, gm + u) = Named(Byte8(f, u), gn)
  BY <1>2, <1>3, ByteNamed
<1> QED  BY <1>1, <1>4

(* Every group is packed as the first one. *)
LEMMA PacksGroup ==
    ASSUME NEW f, NEW n \in Nat \ {0}, NEW m \in Nat, NEW G \in Nat, Works(f, n, m, G), Bits!GroupWorks(f),
           NEW g \in 0 .. G - 1, NEW u \in 0 .. m - 1
    PROVE  Bits!Low(Bits!Or([c \in 0 .. PolyN - 1 |-> Bits!Coefficient(f, c)],
                                  f.pack[u + 1], g * n), 8) = Byte8(f, g * m + u)
<1>1. /\ n = f.n /\ m = Len(f.pack) /\ n \in Nat \ {0} /\ m \in Nat /\ f.width \in Nat \ {0}
      /\ 8 * m = n * f.width /\ G \in Nat /\ PolyN = G * n
  BY DEF Works
<1>2. PICK words, first, operands :
          /\ words = [c \in 0 .. PolyN - 1 |-> Bits!Coefficient(f, c)]
          /\ first = [c \in 0 .. n - 1 |-> Bits!Coefficient(f, c)]
          /\ operands = f.pack[u + 1]
  OBVIOUS
<1>3. /\ \A o \in operands : o[1] \in 0 .. n - 1
      /\ Bits!Low(Bits!Or(first, operands, 0), 8) = Byte8(f, u)
  <2>1. /\ \A o \in f.pack[u + 1] : o[1] \in 0 .. f.n - 1
        /\ Bits!Low(Bits!Or([c \in 0 .. f.n - 1 |-> Bits!Coefficient(f, c)], f.pack[u + 1], 0), 8) =
               Byte8(f, u)
    BY <1>1 DEF Bits!GroupWorks, Byte8
  <2> QED  BY <1>1, <1>2, <2>1
<1>4. \A o \in operands : words[g * n + o[1]] = Named(first[0 + o[1]], g * n)
  <2> SUFFICES ASSUME NEW o \in operands
               PROVE  words[g * n + o[1]] = Named(first[0 + o[1]], g * n)
    OBVIOUS
  <2>1. PICK c \in 0 .. n - 1, b \in Nat : c = o[1] /\ b = g * n
    <3>1. g * n \in Nat
      OBVIOUS
    <3> QED  BY <1>3, <3>1
  <2>2. b + c \in 0 .. PolyN - 1
    <3>1. (g + 1) * n <= G * n
      <4>1. PICK e \in Nat : G = g + 1 + e
        <5>1. G - g - 1 \in Nat /\ G = g + 1 + (G - g - 1)
          BY <1>1
        <5> QED  BY <5>1
      <4>2. G * n = (g + 1) * n + e * n /\ e * n \in Nat /\ (g + 1) * n \in Nat
        BY <4>1
      <4> QED  BY <4>2
    <3>2. (g + 1) * n = g * n + n
      OBVIOUS
    <3>3. PICK z \in Nat : z = G * n
      OBVIOUS
    <3>4. b + n <= z /\ z = PolyN
      BY <1>1, <2>1, <3>1, <3>2, <3>3
    <3> QED  BY <1>1, <3>4
  <2>3. words[b + c] = Bits!Coefficient(f, b + c) /\ first[c] = Bits!Coefficient(f, c)
    BY <1>2, <2>2
  <2>4. Bits!Coefficient(f, b + c) = Named(Bits!Coefficient(f, c), b)
    <3>1. c \in Nat
      OBVIOUS
    <3> QED  BY <3>1, CoefficientNamed
  <2>5. 0 + c = c
    OBVIOUS
  <2> QED  BY <2>1, <2>3, <2>4, <2>5
<1>5. Bits!Or(words, operands, g * n) = Named(Bits!Or(first, operands, 0), g * n)
  BY <1>4, OrNamed
<1>6. Bits!Low(Bits!Or(words, operands, g * n), 8) = Named(Byte8(f, u), g * n)
  BY <1>3, <1>5, LowNamed
<1>7. Byte8(f, g * m + u) = Named(Byte8(f, u), g * n)
  BY GroupNamed
<1> QED  BY <1>2, <1>6, <1>7

(* Every group is read as the first one. *)
LEMMA ReadsGroup ==
    ASSUME NEW f, NEW n \in Nat \ {0}, NEW m \in Nat, NEW G \in Nat, Works(f, n, m, G), Bits!GroupWorks(f), f.unpack # << >>,
           NEW bytes, \A u \in 0 .. G * m - 1 : bytes[u] = Byte8(f, u),
           NEW g \in 0 .. G - 1, NEW c \in 0 .. n - 1
    PROVE  Bits!Low(Bits!Or(bytes, f.unpack[c + 1], g * m), f.keep[c + 1]) =
               Bits!Coefficient(f, g * n + c)
<1>1. /\ n = f.n /\ m = Len(f.pack) /\ n \in Nat \ {0} /\ m \in Nat /\ f.width \in Nat \ {0}
      /\ 8 * m = n * f.width /\ G \in Nat
  BY DEF Works
<1>2. PICK first, operands :
          first = [u \in 0 .. m - 1 |-> Byte8(f, u)] /\ operands = f.unpack[c + 1]
  OBVIOUS
<1>3. /\ \A o \in operands : o[1] \in 0 .. m - 1
      /\ Bits!Low(Bits!Or(first, operands, 0), f.keep[c + 1]) = Bits!Coefficient(f, c)
  <2>1. /\ \A o \in f.unpack[c + 1] : o[1] \in 0 .. Len(f.pack) - 1
        /\ Bits!Low(Bits!Or([u \in 0 .. Len(f.pack) - 1 |-> Byte8(f, u)], f.unpack[c + 1], 0), f.keep[c + 1]) =
               [x \in 0 .. f.n - 1 |-> Bits!Coefficient(f, x)][c]
    BY <1>1 DEF Bits!GroupWorks, Byte8
  <2>2. [x \in 0 .. f.n - 1 |-> Bits!Coefficient(f, x)][c] = Bits!Coefficient(f, c)
    BY <1>1
  <2> QED  BY <1>1, <1>2, <2>1, <2>2
<1>4. ASSUME NEW u \in 0 .. m - 1
      PROVE  Byte8(f, g * m + u) = Named(Byte8(f, u), g * n)
  BY GroupNamed
<1>5. \A o \in operands : bytes[g * m + o[1]] = Named(first[0 + o[1]], g * n)
  <2> SUFFICES ASSUME NEW o \in operands
               PROVE  bytes[g * m + o[1]] = Named(first[0 + o[1]], g * n)
    OBVIOUS
  <2>1. PICK u \in 0 .. m - 1, b \in Nat : u = o[1] /\ b = g * m
    <3>1. g * m \in Nat
      OBVIOUS
    <3> QED  BY <1>3, <3>1
  <2>2. b + u \in 0 .. G * m - 1
    <3>1. (g + 1) * m <= G * m
      <4>1. PICK e \in Nat : G = g + 1 + e
        <5>1. G - g - 1 \in Nat /\ G = g + 1 + (G - g - 1)
          BY <1>1
        <5> QED  BY <5>1
      <4>2. G * m = (g + 1) * m + e * m /\ e * m \in Nat /\ (g + 1) * m \in Nat
        BY <4>1
      <4> QED  BY <4>2
    <3>2. (g + 1) * m = g * m + m
      OBVIOUS
    <3>3. PICK z \in Nat : z = G * m
      OBVIOUS
    <3>4. b + m <= z
      BY <1>1, <2>1, <3>1, <3>2, <3>3
    <3> QED  BY <1>1, <3>3, <3>4
  <2>3. bytes[b + u] = Byte8(f, b + u) /\ first[u] = Byte8(f, u)
    BY <1>2, <2>2
  <2>4. Byte8(f, g * m + u) = Named(Byte8(f, u), g * n)
    BY <2>1, <1>4
  <2>5. 0 + u = u
    OBVIOUS
  <2> QED  BY <2>1, <2>3, <2>4, <2>5
<1>6. Bits!Or(bytes, operands, g * m) = Named(Bits!Or(first, operands, 0), g * n)
  BY <1>5, OrNamed
<1>7. Bits!Low(Bits!Or(bytes, operands, g * m), f.keep[c + 1]) = Named(Bits!Coefficient(f, c), g * n)
  BY <1>3, <1>6, LowNamed
<1>8. Bits!Coefficient(f, g * n + c) = Named(Bits!Coefficient(f, c), g * n)
  <2>1. c \in Nat /\ g * n \in Nat
    BY <1>1
  <2> QED  BY <2>1, CoefficientNamed
<1> QED  BY <1>2, <1>7, <1>8

(* Packed are the groups before this one, read back those before it. *)
PackedTo(f, m, n) == \A u \in DOMAIN packed : u \div m < n => packed[u] = Byte8(f, u)
ReadTo(f, n, to) ==
    \A c \in DOMAIN unpacked : c \div n < to => unpacked[c] = Bits!Coefficient(f, c)

PackInvOf(f, n, m, G) ==
    /\ f = Lay!AllFormats[packFormat] /\ Bits!GroupWorks(f) /\ Works(f, n, m, G)
    /\ DOMAIN packed = 0 .. G * m - 1 /\ DOMAIN unpacked = 0 .. PolyN - 1
    /\ packPhase \in {"pack", "unpack"} /\ packGroup \in 0 .. G
    /\ packPhase = "pack" => PackedTo(f, m, packGroup)
    /\ packPhase = "unpack" =>
           PackedTo(f, m, G) /\ ReadTo(f, n, packGroup) /\ (f.unpack = << >> => packGroup = 0)

PackingInv == \E f : \E n \in Nat \ {0}, m \in Nat, G \in Nat : PackInvOf(f, n, m, G)

(* The groups are all there is. *)
LEMMA InGroups ==
    ASSUME NEW m \in Nat \ {0}, NEW G \in Nat, NEW u \in 0 .. G * m - 1
    PROVE  u \div m \in 0 .. G - 1 /\ u % m \in 0 .. m - 1 /\ u = (u \div m) * m + (u % m)
<1>1. PICK q \in Nat, e \in 0 .. m - 1 : q = u \div m /\ e = u % m /\ u = q * m + e
  <2>1. PICK z \in Nat : z = u
    <3>1. G * m \in Nat
      OBVIOUS
    <3> QED  BY <3>1
  <2>2. z \div m \in Nat /\ z % m \in 0 .. m - 1 /\ z = (z \div m) * m + (z % m)
    BY Division
  <2> QED  BY <2>1, <2>2
<1>2. q * m < G * m
  <2>1. PICK z \in Nat, y \in Nat : z = G * m /\ y = q * m
    OBVIOUS
  <2> QED  BY <1>1, <2>1
<1>3. q < G
  BY <1>2, CancelFactor
<1> QED  BY <1>1, <1>3

LEMMA PackingInit == ASSUME Bits!TablesWork, Bits!Init PROVE PackingInv
<1>1. PICK f : f = Lay!AllFormats[packFormat]
  OBVIOUS
<1>2. packFormat \in DOMAIN Lay!AllFormats
  BY DEF Bits!Init
<1>3. PICK n \in Nat \ {0}, m \in Nat, G \in Nat : Works(f, n, m, G) /\ Bits!GroupWorks(f)
  BY <1>1, <1>2, TableWorks
<1>4. /\ DOMAIN packed = 0 .. Bits!PackedBytes(f) - 1 /\ DOMAIN unpacked = 0 .. PolyN - 1
      /\ packPhase = "pack" /\ packGroup = 0
  BY <1>1 DEF Bits!Init
<1>5. Bits!PackedBytes(f) = G * m /\ m > 0
  BY <1>3 DEF Works
<1>6. DOMAIN packed = 0 .. G * m - 1 /\ 0 \in 0 .. G
  BY <1>4, <1>5
<1>7. PackedTo(f, m, 0)
  <2>1. m \in Nat \ {0}
    BY <1>5
  <2>2. \A u \in 0 .. G * m - 1 : ~(u \div m < 0)
    BY <2>1, InGroups
  <2> QED  BY <1>6, <2>2 DEF PackedTo
<1>8. PackInvOf(f, n, m, G)
  BY <1>1, <1>3, <1>4, <1>6, <1>7 DEF PackInvOf
<1> QED  BY <1>8 DEF PackingInv

LEMMA PackGroupKeeps == ASSUME PackingInv, Bits!PackGroup PROVE PackingInv'
<1>1. PICK f : \E n \in Nat \ {0}, m \in Nat, G \in Nat : PackInvOf(f, n, m, G)
  BY DEF PackingInv
<1>2. PICK n \in Nat \ {0}, m \in Nat, G \in Nat : PackInvOf(f, n, m, G)
  BY <1>1
<1>3. /\ f = Lay!AllFormats[packFormat] /\ Bits!GroupWorks(f) /\ Works(f, n, m, G)
      /\ DOMAIN packed = 0 .. G * m - 1 /\ DOMAIN unpacked = 0 .. PolyN - 1
      /\ packGroup \in 0 .. G /\ packPhase = "pack" /\ PackedTo(f, m, packGroup)
  BY <1>2 DEF PackInvOf, Bits!PackGroup
<1>4. n = f.n /\ m = Len(f.pack) /\ PolyN \div n = G /\ m \in Nat \ {0}
  BY <1>3 DEF Works
<1>5. m \in Nat \ {0}
  BY <1>4
<1>6. Works(f, n, m, G) /\ Bits!GroupWorks(f)
  BY <1>3
<1>7. /\ packGroup < G /\ packGroup' = packGroup + 1
      /\ UNCHANGED <<packFormat, packPhase, unpacked>>
  BY <1>3, <1>4 DEF Bits!PackGroup
<1>8. packed' = [u \in DOMAIN packed |->
                    IF u \div m = packGroup
                    THEN Bits!Low(Bits!Or([c \in 0 .. PolyN - 1 |-> Bits!Coefficient(f, c)],
                                                f.pack[(u % m) + 1], packGroup * n), 8)
                    ELSE packed[u]]
  BY <1>3, <1>4 DEF Bits!PackGroup
<1>9. packGroup \in 0 .. G - 1 /\ packGroup + 1 \in 0 .. G
  BY <1>3, <1>7
<1>10. PackedTo(f, m, packGroup)'
  <2> SUFFICES ASSUME NEW u \in 0 .. G * m - 1, u \div m < packGroup + 1
               PROVE  packed'[u] = Byte8(f, u)
    BY <1>3, <1>7, <1>8 DEF PackedTo
  <2>1. PICK q \in 0 .. G - 1, e \in 0 .. m - 1 : q = u \div m /\ e = u % m /\ u = q * m + e
    BY <1>5, InGroups
  <2>2. CASE q < packGroup
    <3>1. packed'[u] = packed[u]
      BY <1>3, <1>8, <1>9, <2>1, <2>2
    <3> QED  BY <1>3, <2>1, <2>2, <3>1 DEF PackedTo
  <2>3. CASE q = packGroup
    <3>1. packed'[u] = Bits!Low(Bits!Or([c \in 0 .. PolyN - 1 |-> Bits!Coefficient(f, c)],
                                              f.pack[e + 1], q * n), 8)
      BY <1>3, <1>8, <2>1, <2>3
    <3>2. Bits!Low(Bits!Or([c \in 0 .. PolyN - 1 |-> Bits!Coefficient(f, c)],
                                 f.pack[e + 1], q * n), 8) = Byte8(f, q * m + e)
      BY <1>6, PacksGroup
    <3> QED  BY <2>1, <3>1, <3>2
  <2> QED  BY <1>9, <2>1, <2>2, <2>3
<1>11. DOMAIN packed' = DOMAIN packed
  BY <1>8
<1>12. PackInvOf(f, n, m, G)'
  BY <1>3, <1>7, <1>9, <1>10, <1>11 DEF PackInvOf
<1> QED  BY <1>12 DEF PackingInv

LEMMA TurnKeeps == ASSUME PackingInv, Bits!Turn PROVE PackingInv'
<1>1. PICK f : \E n \in Nat \ {0}, m \in Nat, G \in Nat : PackInvOf(f, n, m, G)
  BY DEF PackingInv
<1>2. PICK n \in Nat \ {0}, m \in Nat, G \in Nat : PackInvOf(f, n, m, G)
  BY <1>1
<1>3. /\ f = Lay!AllFormats[packFormat] /\ Bits!GroupWorks(f) /\ Works(f, n, m, G)
      /\ DOMAIN packed = 0 .. G * m - 1 /\ DOMAIN unpacked = 0 .. PolyN - 1
      /\ packGroup \in 0 .. G /\ packPhase = "pack" /\ PackedTo(f, m, packGroup)
  BY <1>2 DEF PackInvOf, Bits!Turn
<1>4. n = f.n /\ PolyN \div n = G /\ PolyN = G * n
  BY <1>3 DEF Works
<1>5. /\ packGroup = G /\ packGroup' = 0 /\ packPhase' = "unpack"
      /\ UNCHANGED <<packFormat, packed, unpacked>>
  BY <1>3, <1>4 DEF Bits!Turn
<1>6. ReadTo(f, n, 0)
  <2>1. \A c \in 0 .. G * n - 1 : ~(c \div n < 0)
    BY InGroups
  <2> QED  BY <1>3, <1>4, <2>1 DEF ReadTo
<1>7. PackInvOf(f, n, m, G)'
  <2>1. 0 \in 0 .. G /\ (ReadTo(f, n, 0))' /\ (PackedTo(f, m, G))'
    BY <1>3, <1>5, <1>6 DEF ReadTo, PackedTo
  <2> QED  BY <1>3, <1>5, <2>1 DEF PackInvOf, ReadTo
<1> QED  BY <1>7 DEF PackingInv

LEMMA UnpackGroupKeeps == ASSUME PackingInv, Bits!UnpackGroup PROVE PackingInv'
<1>1. PICK f : \E n \in Nat \ {0}, m \in Nat, G \in Nat : PackInvOf(f, n, m, G)
  BY DEF PackingInv
<1>2. PICK n \in Nat \ {0}, m \in Nat, G \in Nat : PackInvOf(f, n, m, G)
  BY <1>1
<1>3. /\ f = Lay!AllFormats[packFormat] /\ Bits!GroupWorks(f) /\ Works(f, n, m, G)
      /\ DOMAIN packed = 0 .. G * m - 1 /\ DOMAIN unpacked = 0 .. PolyN - 1
      /\ packGroup \in 0 .. G /\ packPhase = "unpack"
      /\ PackedTo(f, m, G) /\ ReadTo(f, n, packGroup)
  BY <1>2 DEF PackInvOf, Bits!UnpackGroup
<1>4. n = f.n /\ m = Len(f.pack) /\ PolyN \div n = G /\ PolyN = G * n /\ m \in Nat \ {0}
  BY <1>3 DEF Works
<1>5. m \in Nat \ {0}
  BY <1>4
<1>6. Works(f, n, m, G) /\ Bits!GroupWorks(f)
  BY <1>3
<1>7. /\ packGroup < G /\ packGroup' = packGroup + 1 /\ f.unpack # << >>
      /\ UNCHANGED <<packFormat, packPhase, packed>>
  BY <1>3, <1>4 DEF Bits!UnpackGroup
<1>8. f.unpack # << >>
  BY <1>7
<1>9. unpacked' = [c \in DOMAIN unpacked |->
                      IF c \div n = packGroup
                      THEN Bits!Low(Bits!Or(packed, f.unpack[(c % n) + 1], packGroup * m),
                                       f.keep[(c % n) + 1])
                      ELSE unpacked[c]]
  BY <1>3, <1>4 DEF Bits!UnpackGroup
<1>10. packGroup \in 0 .. G - 1 /\ packGroup + 1 \in 0 .. G
  BY <1>3, <1>7
<1>11. \A u \in 0 .. G * m - 1 : packed[u] = Byte8(f, u)
  <2>1. \A u \in 0 .. G * m - 1 : u \div m < G
    <3> TAKE u \in 0 .. G * m - 1
    <3>1. u \div m \in 0 .. G - 1
      BY <1>5, InGroups
    <3> QED  BY <3>1
  <2> QED  BY <1>3, <2>1 DEF PackedTo
<1>12. ReadTo(f, n, packGroup)'
  <2> SUFFICES ASSUME NEW c \in 0 .. G * n - 1, c \div n < packGroup + 1
               PROVE  unpacked'[c] = Bits!Coefficient(f, c)
    BY <1>3, <1>4, <1>7, <1>9 DEF ReadTo
  <2>1. PICK q \in 0 .. G - 1, e \in 0 .. n - 1 : q = c \div n /\ e = c % n /\ c = q * n + e
    BY InGroups
  <2>2. c \in DOMAIN unpacked
    BY <1>3, <1>4
  <2>3. CASE q < packGroup
    <3>1. unpacked'[c] = unpacked[c]
      BY <1>9, <1>10, <2>1, <2>2, <2>3
    <3> QED  BY <1>3, <2>1, <2>2, <2>3, <3>1 DEF ReadTo
  <2>4. CASE q = packGroup
    <3>1. unpacked'[c] = Bits!Low(Bits!Or(packed, f.unpack[e + 1], q * m), f.keep[e + 1])
      BY <1>9, <2>1, <2>2, <2>4
    <3>2. Bits!Low(Bits!Or(packed, f.unpack[e + 1], q * m), f.keep[e + 1]) =
              Bits!Coefficient(f, q * n + e)
      BY <1>6, <1>8, <1>11, ReadsGroup
    <3> QED  BY <2>1, <3>1, <3>2
  <2> QED  BY <1>10, <2>1, <2>3, <2>4
<1>13. DOMAIN unpacked' = DOMAIN unpacked
  BY <1>9
<1>14. PackInvOf(f, n, m, G)'
  <2>1. PackedTo(f, m, G)'
    BY <1>3, <1>7 DEF PackedTo
  <2> QED  BY <1>3, <1>7, <1>10, <1>12, <1>13, <2>1 DEF PackInvOf
<1> QED  BY <1>14 DEF PackingInv

(* A table that works for one group works for a polynomial of any length,  *)
(* all groups of it: the unrolled loop writes the bit string of the        *)
(* coefficients over what the caller had in the buffer, and reads them     *)
(* back whole (poly*_pack, poly*_unpack, *_compress, *_tobytes).           *)
THEOREM PackingKeepsAll == EncodingSpec => []PackingIsLossless
<1> DEFINE Runs == encoding = "bits" => PackingInv
<1>1. EncodingInit => Runs
  BY PackingInit, TablesWork DEF EncodingInit
<1>2. Runs /\ [EncodingNext]_<<encoding, vars, bitVars, layVars>> => Runs'
  <2> SUFFICES ASSUME Runs, [EncodingNext]_<<encoding, vars, bitVars, layVars>>, encoding' = "bits"
               PROVE  PackingInv'
    OBVIOUS
  <2>0. PackingInv /\ (Bits!Next \/ UNCHANGED bitVars)
    BY DEF EncodingNext
  <2>1. CASE Bits!Next
    BY <2>0, <2>1, PackGroupKeeps, TurnKeeps, UnpackGroupKeeps DEF Bits!Next
  <2>2. CASE UNCHANGED bitVars
    <3>1. PICK f : \E n \in Nat \ {0}, m \in Nat, G \in Nat : PackInvOf(f, n, m, G)
      BY <2>0 DEF PackingInv
    <3>2. PICK n \in Nat \ {0}, m \in Nat, G \in Nat : PackInvOf(f, n, m, G)
      BY <3>1
    <3>3. PackInvOf(f, n, m, G)'
      BY <2>2, <3>2 DEF bitVars, PackInvOf, PackedTo, ReadTo
    <3> QED  BY <3>3 DEF PackingInv
  <2> QED  BY <2>0, <2>1, <2>2
<1>3. Runs => PackingIsLossless
  <2> SUFFICES ASSUME PackingInv PROVE Bits!PackingIsLossless
    BY DEF PackingIsLossless
  <2>1. PICK f : \E n \in Nat \ {0}, m \in Nat, G \in Nat : PackInvOf(f, n, m, G)
    BY DEF PackingInv
  <2>2. PICK n \in Nat \ {0}, m \in Nat, G \in Nat : PackInvOf(f, n, m, G)
    BY <2>1
  <2>3. /\ f = Lay!AllFormats[packFormat] /\ Bits!GroupWorks(f) /\ Works(f, n, m, G)
        /\ DOMAIN packed = 0 .. G * m - 1 /\ DOMAIN unpacked = 0 .. PolyN - 1
    BY <2>2 DEF PackInvOf
  <2>4. n = f.n /\ PolyN \div n = G /\ PolyN = G * n /\ m \in Nat \ {0} /\ G > 0
    BY <2>3 DEF Works
  <2>5. Bits!PackedIsStream
    <3> SUFFICES ASSUME packPhase = "unpack", NEW u \in 0 .. G * m - 1
                 PROVE  packed[u] = Byte8(f, u)
      BY <2>3 DEF Bits!PackedIsStream, Byte8
    <3>1. u \div m < G
      <4>1. u \div m \in 0 .. G - 1
        BY <2>4, InGroups
      <4> QED  BY <4>1
    <3> QED  BY <2>2, <2>3, <3>1 DEF PackInvOf, PackedTo
  <2>6. Bits!ReadBack
    <3> SUFFICES ASSUME packPhase = "unpack", packGroup = G, NEW c \in 0 .. G * n - 1
                 PROVE  unpacked[c] = Bits!Coefficient(f, c)
      BY <2>3, <2>4 DEF Bits!ReadBack
    <3>1. c \div n < G
      <4>1. c \div n \in 0 .. G - 1
        BY InGroups
      <4> QED  BY <4>1
    <3>2. c \in DOMAIN unpacked
      BY <2>3, <2>4
    <3> QED  BY <2>2, <3>1, <3>2 DEF PackInvOf, ReadTo
  <2>7. Bits!CodesFit
    BY <2>3 DEF Bits!CodesFit, Bits!GroupWorks
  <2> QED  BY <2>5, <2>6, <2>7 DEF Bits!PackingIsLossless
<1> QED  BY <1>1, <1>2, <1>3, PTL DEF EncodingSpec
=============================================================================
