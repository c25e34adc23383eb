--------------------------- MODULE GroupSampling ---------------------------
(***************************************************************************)
(* poly_uniform_seed of Aigis-enc.  Thirteen bytes are eight candidates of *)
(* thirteen bits.  While eight coefficients are missing they are taken by  *)
(* groups, then one by one, leaving in the middle of a group and of a byte *)
(* as soon as bytes or coefficients run out.  A refill is put in front of  *)
(* the bytes that are left.                                                *)
(***************************************************************************)
EXTENDS Integers, Sequences, FiniteSets, SequencesExt

CONSTANTS N,                    \* PARAM_N
          Rate,                 \* KDF128RATE
          REJ_UNIFORM_BYTES,
          MaxRefills            \* bound

QBITS == 13
NBlock == (REJ_UNIFORM_BYTES + Rate - 1) \div Rate

(* The first fill leaves room for a refill in front of what a group may    *)
(* leave.                                                                  *)
GroupAssumption ==
    /\ N \in Nat \ {0} /\ Rate \in Nat \ {0} /\ REJ_UNIFORM_BYTES \in Nat
    /\ NBlock * Rate - (QBITS - 1) >= Rate

(* val[k]: the bytes it is put together from, and how far each is shifted  *)
(* to the left.                                                            *)
Val == << << <<0, 0>>, <<1, 8>> >>,
          << <<1, -5>>, <<2, 3>>, <<3, 11>> >>,
          << <<3, -2>>, <<4, 6>> >>,
          << <<4, -7>>, <<5, 1>>, <<6, 9>> >>,
          << <<6, -4>>, <<7, 4>>, <<8, 12>> >>,
          << <<8, -1>>, <<9, 7>> >>,
          << <<9, -6>>, <<10, 2>>, <<11, 10>> >>,
          << <<11, -3>>, <<12, 5>> >> >>

(* One by one: after val[k] the next one is tried if buf[pos + Ahead] can  *)
(* be read; if not, pos moves on by Past.  With a split byte given back:   *)
PastSplitByte == <<2, 3, 5, 7, 9, 10, 12>>

Ahead == <<3, 4, 6, 8, 9, 11, 12>>
Past == <<2, 4, 5, 7, 9, 10, 12>>

-----------------------------------------------------------------------------
VARIABLES buf,      \* offset -> the byte, numbered as squeezed, or Stale
          at,       \* pos of poly_uniform_seed, where rej_uniform starts
          len,      \* buflen, the bytes from there
          pos, ctr, \* of rej_uniform
          k,        \* the candidate of the group that is next
          pc,
          squeezed, \* how many bytes so far
          candidates    \* ghost: for each one the bits it was made of

vars == <<buf, at, len, pos, ctr, k, pc, squeezed, candidates>>

Stale == -1

Capacity == REJ_UNIFORM_BYTES + Rate

Init ==
    /\ buf = [x \in 0 .. Capacity - 1 |-> IF x < NBlock * Rate THEN x ELSE Stale]
    /\ at = 0 /\ len = NBlock * Rate /\ squeezed = len
    /\ pos = 0 /\ ctr = 0 /\ k = 1 /\ pc = "groups"
    /\ candidates = << >>

(* The bits of a candidate, lowest first: for each the bits that are or-ed *)
(* into it.  A byte that is not squeezed has bits below zero.              *)
Bits(c) ==
    [v \in 0 .. QBITS - 1 |->
        UNION {{8 * buf[at + pos + piece[1]] + b : b \in {x \in 0 .. 7 : x + piece[2] = v}} :
                  piece \in Range(Val[c])}]

(* Of the candidates of a group n are good. *)
TakeGroup(n) ==
    /\ pc = "groups" /\ ctr + 8 <= N /\ pos + QBITS <= len
    /\ candidates' = candidates \o [c \in 1 .. 8 |-> Bits(c)]
    /\ ctr' = ctr + n
    /\ pos' = pos + QBITS
    /\ UNCHANGED <<buf, at, len, k, pc, squeezed>>

(* More bytes are needed, or the last coefficients are taken singly. *)
LeaveGroups ==
    /\ pc = "groups" /\ ~(ctr + 8 <= N /\ pos + QBITS <= len)
    /\ pc' = IF ctr + 8 <= N THEN "return" ELSE "single"
    /\ UNCHANGED <<buf, at, len, pos, ctr, k, squeezed, candidates>>

(* val[k], good or not; the loop begins again with the next group. *)
TakeSingle(good) ==
    /\ pc = "single"
    /\ k = 1 => ctr < N /\ pos + 2 <= len
    /\ candidates' = Append(candidates, Bits(k))
    /\ ctr' = IF good THEN ctr + 1 ELSE ctr
    /\ IF k = 8
       THEN pos' = pos + QBITS /\ k' = 1 /\ UNCHANGED pc
       ELSE IF ctr' >= N \/ pos + Ahead[k] >= len
            THEN pos' = pos + Past[k] /\ k' = 1 /\ pc' = "return"
            ELSE k' = k + 1 /\ UNCHANGED <<pos, pc>>
    /\ UNCHANGED <<buf, at, len, squeezed>>

LeaveSingles ==
    /\ pc = "single" /\ k = 1 /\ ~(ctr < N /\ pos + 2 <= len)
    /\ pc' = "return"
    /\ UNCHANGED <<buf, at, len, pos, ctr, k, squeezed, candidates>>

(* poly_uniform_seed after rej_uniform: done, or another block in front of *)
(* what was not read.                                                      *)
Refill ==
    /\ pc = "return" /\ ctr < N
    /\ squeezed < (NBlock + MaxRefills) * Rate
    /\ at' = at + pos - Rate
    /\ len' = len - pos + Rate
    /\ buf' = [x \in DOMAIN buf |->
                  IF x \in at' .. at' + Rate - 1 THEN squeezed + x - at' ELSE buf[x]]
    /\ squeezed' = squeezed + Rate
    /\ pos' = 0 /\ pc' = "groups"
    /\ UNCHANGED <<ctr, k, candidates>>

Done ==
    /\ pc = "return" /\ ctr = N
    /\ pc' = "done"
    /\ UNCHANGED <<buf, at, len, pos, ctr, k, squeezed, candidates>>

Next ==
    \/ \E n \in 0 .. 8 : TakeGroup(n)
    \/ \E good \in BOOLEAN : TakeSingle(good)
    \/ LeaveGroups \/ LeaveSingles \/ Refill \/ Done

Spec == Init /\ [][Next]_vars

-----------------------------------------------------------------------------
(* Each bit of a candidate is one squeezed bit, and no squeezed bit is in  *)
(* two of them, whichever bytes the last call left and however the refill  *)
(* was put in front of them.  The polynomial never has more than N         *)
(* coefficients.                                                           *)
EachBitOnce ==
    LET used == UNION {Range(candidates[c]) : c \in DOMAIN candidates}
    IN  /\ \A bits \in used : Cardinality(bits) = 1
        /\ UNION used \subseteq 0 .. 8 * squeezed - 1
        /\ Cardinality(used) = QBITS * Len(candidates)
        /\ ctr <= N

=============================================================================
