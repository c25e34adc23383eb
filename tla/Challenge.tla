----------------------------- MODULE Challenge -----------------------------
(***************************************************************************)
(* poly_challenge of ML-DSA and Dilithium, challenge of Aigis-sig: bytes   *)
(* of a hash place TAU coefficients, each 1 or -1, among N.  A position is *)
(* drawn by throwing away the bytes that are too large.                    *)
(***************************************************************************)
EXTENDS Integers, FiniteSets

CONSTANTS N,            \* 256, also the number of values of a byte
          TAU,
          SignBytes,    \* 8
          RATE          \* SHAKE256_RATE

ChallengeAssumption ==
    /\ N \in Nat /\ TAU \in Nat /\ TAU <= N
    /\ SignBytes \in Nat /\ RATE \in Nat /\ SignBytes < RATE

Index == 0 .. N - 1
Drawn == N - TAU .. N - 1

VARIABLES c,            \* the coefficients
          i,
          pos,          \* in the block of hash output
          signs         \* the sign bits in the order of their use

vars == <<c, i, pos, signs>>

Signs == [Drawn -> {1, -1}]

Init ==
    /\ c = [j \in Index |-> 0]
    /\ i = N - TAU
    /\ pos = SignBytes
    /\ signs \in Signs

(* A new block when this one is used up. *)
NextPos == (IF pos >= RATE THEN 0 ELSE pos) + 1

(* while(b > i): equal is too large as well. *)
TooLargeOrEqual(b, j) == b >= j

TooLarge(b, j) == b > j

DropByte(b) ==
    /\ i < N /\ TooLarge(b, i)
    /\ pos' = NextPos
    /\ UNCHANGED <<c, i, signs>>

(* The sign placed before what it replaces is read. *)
SignFirst(d, j, b, sign) ==
    LET e == [d EXCEPT ![b] = sign] IN [e EXCEPT ![j] = e[b]]

(* What is at b makes room: c[i] = c[b]; c[b] = 1 - 2 * sign. *)
Shuffle(d, j, b, sign) == [[d EXCEPT ![j] = d[b]] EXCEPT ![b] = sign]

Place(b) ==
    /\ i < N /\ ~TooLarge(b, i)
    /\ c' = Shuffle(c, i, b, signs[i])
    /\ pos' = NextPos
    /\ i' = i + 1
    /\ UNCHANGED signs

Next == \E b \in Index : DropByte(b) \/ Place(b)

Spec == Init /\ [][Next]_vars

-----------------------------------------------------------------------------
(* After each draw there is one more coefficient that is not zero, and     *)
(* none beyond i: the bound BETA = TAU * ETA on products with a challenge, *)
(* which all of the rejection of signatures rests on, needs exactly that.  *)
NonZero == {j \in Index : c[j] # 0}

Weight ==
    /\ c \in [Index -> {-1, 0, 1}]
    /\ Cardinality(NonZero) = i - (N - TAU)
    /\ \A j \in NonZero : j < i

-----------------------------------------------------------------------------
(* The challenge that these bytes, one kept for each draw, and signs give. *)
Outcome(b, s) ==
    LET d[j \in N - TAU .. N] ==
            IF j = N - TAU THEN [x \in Index |-> 0]
            ELSE Shuffle(d[j - 1], j - 1, b[j - 1], s[j - 1])
    IN  d[N]

Kept == {b \in [Drawn -> Index] : \A j \in Drawn : ~TooLarge(b[j], j)}

Factorial[n \in Nat] == IF n = 0 THEN 1 ELSE n * Factorial[n - 1]

(* No challenge is more likely than another, and none is missing: of all   *)
(* bytes that can be kept and all signs, as many give this challenge as    *)
(* there are orders to place its coefficients in.                          *)
Uniform ==
    i = N => Cardinality({choice \in Kept \X Signs : Outcome(choice[1], choice[2]) = c})
                 = Factorial[TAU]

=============================================================================
