------------------------------- MODULE Keccak -------------------------------
(***************************************************************************)
(* keccak_state of hash/keccak/fips202.c: the lanes and `pos`, and the     *)
(* functions shake128_* / shake256_* / sha3_* that work on it.             *)
(*                                                                         *)
(* One API call is several steps: it leaves in `todo` the internal         *)
(* functions it still has to run (keccak_absorb, keccak_absorb_once,       *)
(* keccak_squeezeblocks, keccak_squeeze), and each step is one iteration   *)
(* of the loop of the first of them.  The state is used by one thread, so  *)
(* the next API call comes when todo is empty.                             *)
(***************************************************************************)
EXTENDS Sponge

CONSTANTS MaxMsg,     \* bound: bytes of a message
          MaxOut      \* bound: bytes of output read from one state

ASSUME BoundsAssumption == MaxMsg \in Nat /\ MaxOut \in Nat

VARIABLES s,          \* the lanes, as Sponge keeps them
          pos,        \* position in the current block
          phase,      \* "raw" (uninitialised memory), "absorb", "squeeze"
          dom,        \* the domain byte last used
          fed,        \* bytes of message handed to the API since the state was zeroed
          out,        \* bytes written to the caller since the message was complete
          todo        \* what the running API call still has to do

vars == <<s, pos, phase, dom, fed, out, todo>>

Ops == {"absorb", "once", "blocks", "squeeze"}

\* `left`: the local inlen, outlen or nblocks
Call(op, left) == [op |-> op, left |-> left]
Idle     == todo = <<>>
Doing(f) == ~Idle /\ Head(todo).op = f
Left     == Head(todo).left
Keep(n)  == todo' = <<Call(Head(todo).op, n)>> \o Tail(todo)
Return   == todo' = Tail(todo)

\* the next byte of the message the running absorb has not consumed
NextByte == fed - Left + 1

\* Mutant: the loop runs only while more than a block is there
BlockFullStrict == pos + Left > R

\* the loop condition of keccak_absorb
BlockFull == pos + Left >= R
-----------------------------------------------------------------------------
Init ==
  /\ phase = "raw"
  /\ s = <<Bytes(1, 0, R)>>       \* whatever the memory held
  /\ pos = R
  /\ dom = SHAKE
  /\ fed = 0
  /\ out = <<>>
  /\ todo = <<>>

\* shake128_init, shake256_init
ShakeInit ==
  /\ Idle
  /\ s' = ZeroState
  /\ pos' = 0
  /\ phase' = "absorb"
  /\ fed' = 0
  /\ out' = <<>>
  /\ UNCHANGED <<dom, todo>>

\* shake128_absorb, shake256_absorb with n bytes
ShakeAbsorb(n) ==
  /\ Idle
  /\ phase = "absorb"
  /\ fed + n <= MaxMsg
  /\ fed' = fed + n
  /\ todo' = <<Call("absorb", n)>>
  /\ UNCHANGED <<s, pos, phase, dom, out>>

\* one iteration of keccak_absorb's while: fill the block and permute
AbsorbBlock ==
  /\ Doing("absorb")
  /\ BlockFull
  /\ s' = Permute(XorInto(s, Bytes(NextByte, pos, R - pos)))
  /\ Keep(Left - (R - pos))
  /\ pos' = 0
  /\ UNCHANGED <<phase, dom, fed, out>>

\* the bytes after the loop; the wrapper stores the returned position
AbsorbTail ==
  /\ Doing("absorb")
  /\ ~BlockFull
  /\ s' = XorInto(s, Bytes(NextByte, pos, Left))
  /\ pos' = pos + Left
  /\ Return
  /\ UNCHANGED <<phase, dom, fed, out>>

\* keccak_finalize: the domain byte at pos and the final bit in byte r-1
Pad(d, p) == [j \in {p, R - 1} |-> {i \in {d} : j = p} \cup {i \in {LAST} : j = R - 1}]

\* Mutant: the wrapper does not set state->pos, so squeezing starts in the padded block
ShakeFinalizeKeepsPos ==
  /\ Idle
  /\ phase = "absorb"
  /\ s' = XorInto(s, Pad(SHAKE, pos))
  /\ phase' = "squeeze"
  /\ dom' = SHAKE
  /\ UNCHANGED <<pos, fed, out, todo>>

ShakeFinalize ==
  /\ Idle
  /\ phase = "absorb"
  /\ s' = XorInto(s, Pad(SHAKE, pos))
  /\ pos' = R
  /\ phase' = "squeeze"
  /\ dom' = SHAKE
  /\ UNCHANGED <<fed, out, todo>>
-----------------------------------------------------------------------------
(* keccak_absorb_once zeroes the state, absorbs whole blocks, and XORs the *)
(* last block t with its padding in.  `more` is what the caller runs next. *)
AbsorbOnce(n, d, more) ==
  /\ Idle
  /\ s' = ZeroState
  /\ fed' = n
  /\ dom' = d
  /\ phase' = "absorb"
  /\ out' = <<>>
  /\ todo' = <<Call("once", n)>> \o more
  /\ UNCHANGED pos

OnceBlock ==
  /\ Doing("once")
  /\ Left >= R
  /\ s' = Permute(XorInto(s, Bytes(NextByte, 0, R)))
  /\ Keep(Left - R)
  /\ UNCHANGED <<pos, phase, dom, fed, out>>

LastBlock(d, first, n) ==
  [j \in Offset |-> {i \in {first + j} : j < n} \cup {i \in {d} : j = n}
                      \cup {i \in {LAST} : j = R - 1}]

OnceTail ==
  /\ Doing("once")
  /\ Left < R
  /\ s' = XorInto(s, LastBlock(dom, NextByte, Left))
  /\ pos' = R
  /\ phase' = "squeeze"
  /\ Return
  /\ UNCHANGED <<dom, fed, out>>

\* shake128_absorb_once, shake256_absorb_once
ShakeAbsorbOnce(n) == AbsorbOnce(n, SHAKE, <<>>)

\* shake128, shake256: whole blocks first, then the rest byte by byte
ShakeOneShot(n, outlen) ==
  AbsorbOnce(n, SHAKE, <<Call("blocks", outlen \div R), Call("squeeze", outlen % R)>>)

\* sha3_*: nblocks into a buffer of whole blocks, of which the digest is a prefix
Sha3(n, nblocks) == AbsorbOnce(n, SHA3, <<Call("blocks", nblocks)>>)
-----------------------------------------------------------------------------
\* shake128_squeeze, shake256_squeeze
ShakeSqueeze(n) ==
  /\ Idle
  /\ phase = "squeeze"
  /\ Len(out) + n <= MaxOut
  /\ todo' = <<Call("squeeze", n)>>
  /\ UNCHANGED <<s, pos, phase, dom, fed, out>>

(* shake128_squeezeblocks, shake256_squeezeblocks.  They ignore pos: every *)
(* caller of the library uses them before any byte-wise squeeze.           *)
ShakeSqueezeBlocks(n) ==
  /\ Idle
  /\ phase = "squeeze"
  /\ pos = R
  /\ Len(out) + n * R <= MaxOut
  /\ todo' = <<Call("blocks", n)>>
  /\ UNCHANGED <<s, pos, phase, dom, fed, out>>

\* the bytes at offsets from..to-1 of state st
Read(st, from, to) == [i \in 1..(to - from) |-> OutByte(st, from + i - 1)]

\* the bound of keccak_squeeze's inner loop (i < r && i < pos+outlen)
\* Mutant: pos not reset after the permutation
StartStuck == pos

SqueezeEnd(from) == IF from + Left < R THEN from + Left ELSE R
SqueezeStart     == IF pos = R THEN 0 ELSE pos

\* one iteration of keccak_squeeze's while
SqueezeSome ==
  /\ Doing("squeeze")
  /\ Left > 0
  /\ LET st   == IF pos = R THEN Permute(s) ELSE s
         from == SqueezeStart
         to   == SqueezeEnd(from)
     IN  /\ s' = st
         /\ out' = out \o Read(st, from, to)
         /\ pos' = to
         /\ Keep(Left - (to - from))
  /\ UNCHANGED <<phase, dom, fed>>

\* one iteration of keccak_squeezeblocks' while
SqueezeBlock ==
  /\ Doing("blocks")
  /\ Left > 0
  /\ s' = Permute(s)
  /\ out' = out \o Read(Permute(s), 0, R)
  /\ Keep(Left - 1)
  /\ UNCHANGED <<pos, phase, dom, fed>>

SqueezeReturn ==
  /\ Doing("squeeze") \/ Doing("blocks")
  /\ Left = 0
  /\ Return
  /\ UNCHANGED <<s, pos, phase, dom, fed, out>>
-----------------------------------------------------------------------------
\* the iterations of a call already made
Run == \/ AbsorbBlock \/ AbsorbTail
       \/ OnceBlock \/ OnceTail
       \/ SqueezeSome \/ SqueezeBlock \/ SqueezeReturn

\* the next call of the API
NewCall ==
  \/ ShakeInit
  \/ ShakeFinalize
  \/ \E n \in 0..MaxMsg : ShakeAbsorb(n) \/ ShakeAbsorbOnce(n)
  \/ \E n \in 0..MaxMsg, m \in 0..MaxOut : ShakeOneShot(n, m)
  \/ \E n \in 0..MaxMsg, b \in 1..2 : b * R <= MaxOut /\ Sha3(n, b)
  \/ \E n \in 1..MaxOut : ShakeSqueeze(n) \/ ShakeSqueezeBlocks(n)

Next == Run \/ NewCall

Spec == Init /\ [][Next]_vars
-----------------------------------------------------------------------------
TypeOK ==
  /\ s \in Seq(Block) /\ s # <<>>
  /\ pos \in 0..R
  /\ phase \in {"raw", "absorb", "squeeze"}
  /\ dom \in Domain
  /\ fed \in Nat
  /\ out \in Seq(Seq(Block) \X Offset)
  /\ todo \in Seq([op : Ops, left : Nat])

(* Between calls of the incremental absorb there is always room in the     *)
(* block for the domain byte (keccak_absorb returns with pos < r), however *)
(* the message was cut.                                                    *)
RoomForPadding == Idle /\ phase = "absorb" => pos < R

\* bytes the sponge has taken in, of those handed to the API
Absorbed == fed - (IF Doing("absorb") \/ Doing("once") THEN Left ELSE 0)

(* Refinement: whatever the calls and their sizes (incremental, one-shot,  *)
(* block-wise then byte-wise), the output is the one of the XOF of the     *)
(* whole message; no byte is skipped, repeated or taken before padding.    *)
Abstract == INSTANCE XOF WITH Byte <- XofByte, dom <- dom, absorbed <- Absorbed,
                              squeezing <- (phase = "squeeze"), out <- out
ImplementsXOF == Abstract!Spec

(* The variant of the loops: every iteration leaves fewer bytes or blocks  *)
(* to do, or finishes the function, also where pos = r, no byte is asked   *)
(* for or the length is a multiple of the rate; so every call returns.     *)
LoopsAdvance ==
  [][~Idle => \/ Len(todo') < Len(todo)
              \/ Len(todo') = Len(todo) /\ Head(todo').left < Left]_vars
=============================================================================
