------------------------------ MODULE IncSponge ------------------------------
(***************************************************************************)
(* The incremental interface of hash/keccak/fips202.c (keccak_inc_*, used  *)
(* through shake256_inc_* by SLH-DSA and SPHINCS-Alpha): the same sponge   *)
(* as Keccak, but the 26th word of the state is one counter with two       *)
(* meanings.  Until finalize it is the number of bytes absorbed since the  *)
(* last permutation, afterwards the number of bytes NOT yet squeezed.      *)
(* haraka_S_inc_* of slh_dsa/std/haraka.c is the same code over a state    *)
(* of 64 bytes with a one-byte counter (CounterMax = 255).                 *)
(***************************************************************************)
EXTENDS Sponge

CONSTANTS MaxMsg,      \* bound: bytes of a message
          MaxOut,      \* bound: bytes of output read from one state
          CounterMax   \* the largest value of the counter's type, at least the
                       \* rate (136 in a 64-bit word, 32 in a byte)

VARIABLES s,           \* s_inc[0..24]
          count,       \* s_inc[25]
          phase,       \* "raw", "absorb", "squeeze"
          fed,         \* bytes of message handed to the API
          out,         \* bytes written since finalize
          call         \* the running call and what it has left

vars == <<s, count, phase, fed, out, call>>

NoCall == [op |-> "none", left |-> 0]
Call(op, n) == [op |-> op, left |-> n]
Idle == call.op = "none"
Left == call.left
NextByte == fed - Left + 1

\* stored in the counter's type
Counter(n) == n % (CounterMax + 1)
-----------------------------------------------------------------------------
Init ==
  /\ s = <<Bytes(1, 0, R)>>
  /\ count = CounterMax
  /\ phase = "raw"
  /\ fed = 0
  /\ out = <<>>
  /\ call = NoCall

IncInit ==
  /\ Idle
  /\ s' = ZeroState
  /\ count' = 0
  /\ phase' = "absorb"
  /\ fed' = 0
  /\ out' = <<>>
  /\ UNCHANGED call

IncAbsorb(n) ==
  /\ Idle
  /\ phase = "absorb"
  /\ fed + n <= MaxMsg
  /\ fed' = fed + n
  /\ call' = Call("absorb", n)
  /\ UNCHANGED <<s, count, phase, out>>

BlockFull == Left + count >= R

\* one iteration of the while of keccak_inc_absorb
IncAbsorbBlock ==
  /\ call.op = "absorb"
  /\ BlockFull
  /\ s' = Permute(XorInto(s, Bytes(NextByte, count, R - count)))
  /\ call' = Call("absorb", Left - (R - count))
  /\ count' = 0
  /\ UNCHANGED <<phase, fed, out>>

\* the rest of the message stays in the block
IncAbsorbTail ==
  /\ call.op = "absorb"
  /\ ~BlockFull
  /\ s' = XorInto(s, Bytes(NextByte, count, Left))
  /\ count' = Counter(count + Left)
  /\ call' = NoCall
  /\ UNCHANGED <<phase, fed, out>>

\* Mutant: the counter keeps its absorb meaning
IncFinalizeKeepsCount ==
  /\ Idle
  /\ phase = "absorb"
  /\ s' = XorInto(s, [j \in {count, R - 1} |->
                        {i \in {SHAKE} : j = count} \cup {i \in {LAST} : j = R - 1}])
  /\ phase' = "squeeze"
  /\ UNCHANGED <<count, fed, out, call>>

\* keccak_inc_finalize: from now on the counter counts what is left to squeeze
IncFinalize ==
  /\ Idle
  /\ phase = "absorb"
  /\ s' = XorInto(s, [j \in {count, R - 1} |->
                        {i \in {SHAKE} : j = count} \cup {i \in {LAST} : j = R - 1}])
  /\ count' = 0
  /\ phase' = "squeeze"
  /\ UNCHANGED <<fed, out, call>>
-----------------------------------------------------------------------------
\* i < a && i < b
Smaller(a, b) == IF a < b THEN a ELSE b

Read(st, from, n) == [i \in 1..n |-> OutByte(st, from + i - 1)]

(* The call and its first loop: the bytes still in the state, from offset  *)
(* r - count on.                                                           *)
IncSqueeze(n) ==
  /\ Idle
  /\ phase = "squeeze"
  /\ Len(out) + n <= MaxOut
  /\ LET k == Smaller(n, count)
     IN  /\ out' = out \o Read(s, R - count, k)
         /\ count' = Counter(count - k)
         /\ call' = IF n > k THEN Call("squeeze", n - k) ELSE NoCall
  /\ UNCHANGED <<s, phase, fed>>

\* one iteration of the while of keccak_inc_squeeze
IncSqueezeBlock ==
  /\ call.op = "squeeze"
  /\ LET st == Permute(s)
         k  == Smaller(Left, R)
     IN  /\ s' = st
         /\ out' = out \o Read(st, 0, k)
         /\ count' = Counter(R - k)
         /\ call' = IF Left > k THEN Call("squeeze", Left - k) ELSE NoCall
  /\ UNCHANGED <<phase, fed>>
-----------------------------------------------------------------------------
Run == IncAbsorbBlock \/ IncAbsorbTail \/ IncSqueezeBlock

NewCall == \/ IncInit
           \/ IncFinalize
           \/ \E n \in 0..MaxMsg : IncAbsorb(n)
           \/ \E n \in 0..MaxOut : IncSqueeze(n)

Next == Run \/ NewCall

Spec == Init /\ [][Next]_vars
-----------------------------------------------------------------------------
Absorbed == fed - (IF call.op = "absorb" THEN Left ELSE 0)

(* Refinement: the counter interface computes the same function of the     *)
(* whole message as the position interface, however the calls cut it.      *)
Abstract == INSTANCE XOF WITH Byte <- XofByte, dom <- SHAKE, absorbed <- Absorbed,
                              squeezing <- (phase = "squeeze"), out <- out
ImplementsXOF == Abstract!Spec
=============================================================================
