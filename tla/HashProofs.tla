----------------------------- MODULE HashProofs -----------------------------
(***************************************************************************)
(* Theorems about the two interfaces of the sponge, for every rate and     *)
(* every length, and about SM3, for every size of block and word.  IInv is *)
(* the inductive invariant of the position interface: TypeOK needs that    *)
(* the running absorb has consumed no more than it was given,              *)
(* RoomForPadding that position r never survives a call of the incremental *)
(* absorb.  XofInv says which message the state holds and how much of the  *)
(* output was read, in the middle of a call too; IncInv says the same of   *)
(* the interface with a counter.  From these two follow the refinements of *)
(* XOF.  SM3Inv says that a context Holds a message: its whole blocks      *)
(* compressed and counted, the rest in the partial block.                  *)
(***************************************************************************)
EXTENDS MCHash, SequenceTheorems, TLAPS

Absorbing == Doing("absorb") \/ Doing("once")

QueueInv ==
  /\ Absorbing => phase = "absorb" /\ Left <= fed
  /\ Doing("absorb") => pos < R /\ Len(todo) = 1
  /\ Doing("blocks") \/ Doing("squeeze") => phase = "squeeze"
  /\ \A i \in 2..Len(todo) : todo[i].op \in {"blocks", "squeeze"}

IInv == TypeOK /\ QueueInv /\ RoomForPadding
-----------------------------------------------------------------------------
(* The functions on blocks stay within blocks.                             *)
LEMMA ZeroType == Zero \in Block
  BY DEF Zero, Block

LEMMA PermuteType ==
  ASSUME NEW st \in Seq(Block)
  PROVE  /\ Permute(st) \in Seq(Block)
         /\ Permute(st) # <<>>
  <1>1. Permute(st) \in Seq(Block)
    BY ZeroType DEF Permute
  <1>2. Len(Permute(st)) = Len(st) + 1
    BY DEF Permute
  <1>3. QED
    BY <1>1, <1>2

LEMMA XorType ==
  ASSUME NEW st \in Seq(Block), st # <<>>, NEW bytes,
         \A j \in DOMAIN bytes : bytes[j] \in SUBSET Item
  PROVE  XorInto(st, bytes) \in Seq(Block) /\ XorInto(st, bytes) # <<>>
  <1>1. Len(st) \in 1..Len(st) /\ st[Len(st)] \in Block
    OBVIOUS
  <1>2. \A j \in Offset : st[Len(st)][j] \in SUBSET Item
    BY <1>1 DEF Block
  <1> DEFINE new == [j \in Offset |-> IF j \in DOMAIN bytes
                                      THEN Xor(st[Len(st)][j], bytes[j])
                                      ELSE st[Len(st)][j]]
  <1>3. new \in Block
    BY <1>2 DEF Block, Xor
  <1>4. XorInto(st, bytes) = [st EXCEPT ![Len(st)] = new]
    BY <1>1 DEF XorInto
  <1> HIDE DEF new
  <1>5. QED
    BY <1>1, <1>3, <1>4

LEMMA BytesType ==
  ASSUME NEW first \in Nat, NEW p \in Int, NEW n \in Int
  PROVE  \A j \in DOMAIN Bytes(first, p, n) : Bytes(first, p, n)[j] \in SUBSET Item
  BY DEF Bytes, Item

LEMMA XorBytesType ==
  ASSUME NEW st \in Seq(Block), st # <<>>, NEW first \in Nat, NEW p \in Int, NEW n \in Int
  PROVE  XorInto(st, Bytes(first, p, n)) \in Seq(Block) /\ XorInto(st, Bytes(first, p, n)) # <<>>
  <1> DEFINE bytes == Bytes(first, p, n)
  <1>1. \A j \in DOMAIN bytes : bytes[j] \in SUBSET Item
    BY BytesType
  <1> HIDE DEF bytes
  <1>2. XorInto(st, bytes) \in Seq(Block) /\ XorInto(st, bytes) # <<>>
    BY <1>1, XorType, Zenon
  <1>3. QED
    BY <1>2 DEF bytes

LEMMA PadType ==
  ASSUME NEW d \in Domain, NEW p \in Int
  PROVE  \A j \in DOMAIN Pad(d, p) : Pad(d, p)[j] \in SUBSET Item
  BY DEF Pad, Item

LEMMA LastBlockType ==
  ASSUME NEW d \in Domain, NEW first \in Nat, NEW n \in Nat
  PROVE  \A j \in DOMAIN LastBlock(d, first, n) :
            LastBlock(d, first, n)[j] \in SUBSET Item
  BY DEF LastBlock, Item, Offset

LEMMA ReadType ==
  ASSUME NEW st \in Seq(Block), NEW from \in Nat, NEW to \in 0..R, from <= to
  PROVE  Read(st, from, to) \in Seq(Seq(Block) \X Offset)
  <1>1. \A i \in 1..(to - from) : OutByte(st, from + i - 1) \in Seq(Block) \X Offset
    BY RateAssumption DEF OutByte, Offset
  <1>2. to - from \in Nat
    BY RateAssumption
  <1>3. QED
    BY <1>1, <1>2 DEF Read

(* The initial block of garbage is a block like any other.                 *)
LEMMA ZeroStateType == ZeroState \in Seq(Block) /\ ZeroState # <<>>
  BY ZeroType DEF ZeroState
-----------------------------------------------------------------------------
(* The calls of the API.                                                   *)
LEMMA CallSeq ==
  ASSUME NEW op \in Ops, NEW n \in Nat
  PROVE  Call(op, n) \in [op : Ops, left : Nat]
  BY DEF Call

LEMMA InitInv == Init => IInv
  <1> SUFFICES ASSUME Init PROVE IInv
    OBVIOUS
  <1>1. Bytes(1, 0, R) \in Block
    BY RateAssumption DEF Bytes, Block, Offset, Item
  <1>2. s \in Seq(Block) /\ s # <<>>
    BY <1>1 DEF Init
  <1>3. TypeOK
    BY <1>2, RateAssumption DEF Init, TypeOK, Domain
  <1>4. QED
    BY <1>3 DEF Init, IInv, QueueInv, RoomForPadding, Absorbing, Doing, Idle

(* A call that zeroes the state and starts keccak_absorb_once.             *)
LEMMA AbsorbOnceInv ==
  ASSUME IInv, NEW n \in Nat, NEW d \in Domain, NEW more \in Seq([op : Ops, left : Nat]),
         \A i \in 1..Len(more) : more[i].op \in {"blocks", "squeeze"},
         AbsorbOnce(n, d, more)
  PROVE  IInv'
  <1> DEFINE first == Call("once", n)
  <1>1. first \in [op : Ops, left : Nat] /\ first.op = "once" /\ first.left = n
    BY DEF Call, Ops
  <1>2. todo' = <<first>> \o more
    BY DEF AbsorbOnce
  <1> HIDE DEF first
  <1>3. /\ todo' \in Seq([op : Ops, left : Nat])
        /\ todo' # <<>>
        /\ Head(todo') = first
        /\ \A i \in 2..Len(todo') : todo'[i].op \in {"blocks", "squeeze"}
    <2>1. /\ Len(todo') = 1 + Len(more)
          /\ todo' \in Seq([op : Ops, left : Nat])
          /\ \A i \in 1..Len(todo') : todo'[i] = IF i = 1 THEN first ELSE more[i - 1]
      BY <1>1, <1>2
    <2>2. \A i \in 2..Len(todo') : i - 1 \in 1..Len(more) /\ todo'[i] = more[i - 1]
      BY <2>1
    <2>3. todo' # <<>> /\ Head(todo') = todo'[1]
      BY <2>1
    <2>4. todo'[1] = first
      BY <2>1
    <2>5. \A i \in 2..Len(todo') : todo'[i].op \in {"blocks", "squeeze"}
      <3> TAKE i \in 2..Len(todo')
      <3>1. i - 1 \in 1..Len(more) /\ todo'[i] = more[i - 1]
        BY <2>2
      <3>2. QED
        BY <3>1, Zenon
    <2>6. QED
      BY <2>1, <2>3, <2>4, <2>5, Zenon
  <1>4. TypeOK'
    BY <1>3, ZeroStateType DEF IInv, TypeOK, AbsorbOnce
  <1>5. QueueInv' /\ RoomForPadding'
    BY <1>1, <1>3 DEF AbsorbOnce, QueueInv, RoomForPadding, Absorbing, Doing, Idle, Left
  <1>6. QED
    BY <1>4, <1>5 DEF IInv

LEMMA HeadType ==
  ASSUME NEW S, NEW q \in Seq(S), q # <<>>
  PROVE  Head(q) = q[1] /\ Head(q) \in S
  OBVIOUS

(* What a step that goes on with, or returns from, the function at the     *)
(* head of todo leaves there.                                              *)
LEMMA KeepQueue ==
  ASSUME TypeOK, ~Idle, NEW n \in Nat, Keep(n)
  PROVE  /\ todo' \in Seq([op : Ops, left : Nat])
         /\ todo' # <<>> /\ Len(todo') = Len(todo)
         /\ Head(todo').op = Head(todo).op /\ Head(todo').left = n
         /\ \A i \in 2..Len(todo) : todo'[i] = todo[i]
  <1> DEFINE first == Call(Head(todo).op, n)
  <1>0. todo \in Seq([op : Ops, left : Nat]) /\ todo # <<>>
    BY DEF TypeOK, Idle
  <1>1. Head(todo) \in [op : Ops, left : Nat]
    BY <1>0, HeadType
  <1>2. first \in [op : Ops, left : Nat] /\ first.op = Head(todo).op /\ first.left = n
    BY <1>1 DEF Call
  <1>3. todo' = <<first>> \o Tail(todo)
    BY DEF Keep
  <1> HIDE DEF first
  <1>4. /\ Tail(todo) \in Seq([op : Ops, left : Nat])
        /\ Len(Tail(todo)) = Len(todo) - 1
        /\ \A i \in 1..Len(Tail(todo)) : Tail(todo)[i] = todo[i + 1]
    BY <1>0
  <1>5. /\ todo' \in Seq([op : Ops, left : Nat])
        /\ Len(todo') = Len(todo)
        /\ \A i \in 1..Len(todo') : todo'[i] = IF i = 1 THEN first ELSE Tail(todo)[i - 1]
    BY <1>0, <1>2, <1>3, <1>4
  <1>6. todo' # <<>> /\ Head(todo') = first
    BY <1>0, <1>5
  <1>7. ASSUME NEW i \in 2..Len(todo) PROVE todo'[i] = todo[i]
    <2>1. i \in 1..Len(todo') /\ i # 1 /\ i - 1 \in 1..Len(Tail(todo))
      BY <1>0, <1>4, <1>5
    <2>2. QED
      BY <2>1, <1>4, <1>5
  <1>8. QED
    BY <1>2, <1>5, <1>6, <1>7

LEMMA ReturnQueue ==
  ASSUME TypeOK, QueueInv, ~Idle, Return
  PROVE  /\ todo' \in Seq([op : Ops, left : Nat])
         /\ Len(todo') = Len(todo) - 1
         /\ \A i \in 1..Len(todo') : todo'[i].op \in {"blocks", "squeeze"}
  <1>0. todo \in Seq([op : Ops, left : Nat]) /\ todo # <<>>
    BY DEF TypeOK, Idle
  <1>1. /\ todo' \in Seq([op : Ops, left : Nat])
        /\ Len(todo') = Len(todo) - 1
        /\ \A i \in 1..Len(todo') : todo'[i] = todo[i + 1]
    BY <1>0 DEF Return
  <1>2. \A i \in 1..Len(todo') : i + 1 \in 2..Len(todo)
    BY <1>0, <1>1
  <1>3. QED
    BY <1>1, <1>2 DEF QueueInv
-----------------------------------------------------------------------------
(* Every step keeps the invariant: first the calls, then the iterations.   *)
LEMMA CallInv == IInv /\ NewCall => IInv'
  <1> SUFFICES ASSUME IInv, NewCall PROVE IInv'
    OBVIOUS
  <1> USE DEF IInv
  <1>1. CASE ShakeInit
    BY <1>1, ZeroStateType, RateAssumption
    DEF ShakeInit, TypeOK, QueueInv, RoomForPadding, Absorbing, Doing, Idle
  <1>2. CASE ShakeFinalize
    <2>1. XorInto(s, Pad(SHAKE, pos)) \in Seq(Block) /\ XorInto(s, Pad(SHAKE, pos)) # <<>>
      BY XorType, PadType, RateAssumption DEF TypeOK, Domain
    <2>2. TypeOK'
      BY <1>2, <2>1, RateAssumption DEF ShakeFinalize, TypeOK, Domain
    <2>3. QED
      BY <1>2, <2>2 DEF ShakeFinalize, QueueInv, RoomForPadding, Absorbing, Doing, Idle
  <1>3. ASSUME NEW n \in 0..MaxMsg, ShakeAbsorb(n) PROVE IInv'
    <2>1. n \in Nat /\ Call("absorb", n) \in [op : Ops, left : Nat]
      BY CallSeq, BoundsAssumption DEF Ops
    <2>2. /\ todo' \in Seq([op : Ops, left : Nat]) /\ Len(todo') = 1
          /\ todo' # <<>> /\ Head(todo') = Call("absorb", n)
      BY <1>3, <2>1 DEF ShakeAbsorb
    <2>3. TypeOK'
      BY <1>3, <2>1, <2>2 DEF ShakeAbsorb, TypeOK
    <2>4. QED
      BY <1>3, <2>1, <2>2, <2>3
      DEF ShakeAbsorb, TypeOK, QueueInv, RoomForPadding, Absorbing, Doing, Idle, Left, Call
  <1>4. ASSUME NEW n \in 0..MaxMsg, ShakeAbsorbOnce(n) PROVE IInv'
    <2>1. n \in Nat /\ AbsorbOnce(n, SHAKE, <<>>)
      BY <1>4, BoundsAssumption DEF ShakeAbsorbOnce
    <2>2. /\ <<>> \in Seq([op : Ops, left : Nat])
          /\ \A i \in 1..Len(<<>>) : <<>>[i].op \in {"blocks", "squeeze"}
      OBVIOUS
    <2>3. QED
      BY <2>1, <2>2, AbsorbOnceInv DEF Domain
  <1>5. ASSUME NEW n \in 0..MaxMsg, NEW m \in 0..MaxOut, ShakeOneShot(n, m) PROVE IInv'
    <2> DEFINE b == Call("blocks", m \div R)
               q == Call("squeeze", m % R)
    <2>1. n \in Nat /\ m \div R \in Nat /\ m % R \in Nat
      BY BoundsAssumption, RateAssumption
    <2>2. /\ b \in [op : Ops, left : Nat] /\ b.op = "blocks"
          /\ q \in [op : Ops, left : Nat] /\ q.op = "squeeze"
      BY <2>1 DEF Call, Ops
    <2>3. AbsorbOnce(n, SHAKE, <<b, q>>)
      BY <1>5 DEF ShakeOneShot
    <2> HIDE DEF b, q
    <2>4. /\ <<b, q>> \in Seq([op : Ops, left : Nat])
          /\ \A i \in 1..Len(<<b, q>>) : <<b, q>>[i].op \in {"blocks", "squeeze"}
      BY <2>2
    <2>5. QED
      BY <2>1, <2>3, <2>4, AbsorbOnceInv DEF Domain
  <1>6. ASSUME NEW n \in 0..MaxMsg, NEW k \in 1..2, Sha3(n, k) PROVE IInv'
    <2> DEFINE b == Call("blocks", k)
    <2>1. n \in Nat /\ b \in [op : Ops, left : Nat] /\ b.op = "blocks"
      BY BoundsAssumption DEF Call, Ops
    <2>2. AbsorbOnce(n, SHA3, <<b>>)
      BY <1>6 DEF Sha3
    <2> HIDE DEF b
    <2>3. /\ <<b>> \in Seq([op : Ops, left : Nat])
          /\ \A i \in 1..Len(<<b>>) : <<b>>[i].op \in {"blocks", "squeeze"}
      BY <2>1
    <2>4. QED
      BY <2>1, <2>2, <2>3, AbsorbOnceInv DEF Domain
  <1>7. ASSUME NEW n \in 1..MaxOut, ShakeSqueeze(n) \/ ShakeSqueezeBlocks(n) PROVE IInv'
    <2>1. PICK op \in {"blocks", "squeeze"} : todo' = <<Call(op, n)>>
      BY <1>7 DEF ShakeSqueeze, ShakeSqueezeBlocks
    <2>2. n \in Nat /\ Call(op, n) \in [op : Ops, left : Nat]
      BY CallSeq, BoundsAssumption DEF Ops
    <2>3. /\ todo' \in Seq([op : Ops, left : Nat]) /\ Len(todo') = 1
          /\ todo' # <<>> /\ Head(todo') = Call(op, n)
      BY <2>1, <2>2
    <2>4. phase = "squeeze" /\ UNCHANGED <<s, pos, phase, dom, fed, out>>
      BY <1>7 DEF ShakeSqueeze, ShakeSqueezeBlocks
    <2>5. TypeOK'
      BY <2>3, <2>4 DEF TypeOK
    <2>6. QED
      BY <2>3, <2>4, <2>5 DEF QueueInv, RoomForPadding, Absorbing, Doing, Idle, Call
  <1>8. QED
    BY <1>1, <1>2, <1>3, <1>4, <1>5, <1>6, <1>7 DEF NewCall

(* After an iteration that does not touch the queue's tail, the clauses on *)
(* the queue hold if they hold for its head.                               *)
LEMMA KeepInv ==
  ASSUME IInv, ~Idle, NEW n \in Nat, Keep(n), TypeOK',
         Absorbing => n <= fed' /\ phase' = phase,
         Doing("absorb") => pos' < R,
         ~Absorbing => phase' = phase
  PROVE  IInv'
  <1>1. /\ Len(todo') = Len(todo) /\ todo' # <<>>
        /\ Head(todo').op = Head(todo).op /\ Head(todo').left = n
        /\ \A i \in 2..Len(todo) : todo'[i] = todo[i]
    BY KeepQueue DEF IInv
  <1>2. /\ Absorbing' <=> Absorbing
        /\ Doing("absorb")' <=> Doing("absorb")
        /\ (Doing("blocks") \/ Doing("squeeze"))' <=> (Doing("blocks") \/ Doing("squeeze"))
        /\ Left' = n
        /\ ~Idle'
    BY <1>1 DEF Absorbing, Doing, Idle, Left
  <1>3. Absorbing \/ Doing("blocks") \/ Doing("squeeze")
    <2>1. Head(todo) \in [op : Ops, left : Nat]
      BY HeadType DEF IInv, TypeOK, Idle
    <2>2. QED
      BY <2>1 DEF Ops, Absorbing, Doing
  <1>4. phase' = phase
    OBVIOUS
  <1>5. QED
    BY <1>1, <1>2, <1>4 DEF IInv, QueueInv, RoomForPadding

(* What is left to do, and the next byte of the message, are numbers.      *)
LEMMA LeftType ==
  ASSUME IInv, ~Idle
  PROVE  Left \in Nat /\ (Absorbing => NextByte \in Nat)
  <1>1. Left \in Nat
    <2>1. Head(todo) \in [op : Ops, left : Nat]
      BY HeadType DEF IInv, TypeOK, Idle
    <2>2. QED
      BY <2>1 DEF Left
  <1>2. QED
    BY <1>1 DEF IInv, TypeOK, QueueInv, NextByte

LEMMA ReturnInv ==
  ASSUME IInv, ~Idle, Return, TypeOK',
         \/ phase' = "squeeze"
         \/ phase' = phase /\ ~Absorbing
         \/ phase' = phase /\ Doing("absorb") /\ pos' < R
  PROVE  IInv'
  <1>0. todo \in Seq([op : Ops, left : Nat]) /\ todo # <<>>
    BY DEF IInv, TypeOK, Idle
  <1>1. /\ todo' \in Seq([op : Ops, left : Nat])
        /\ Len(todo') = Len(todo) - 1
        /\ \A i \in 1..Len(todo') : todo'[i].op \in {"blocks", "squeeze"}
    BY ReturnQueue DEF IInv
  <1>2. todo' # <<>> => Head(todo').op \in {"blocks", "squeeze"}
    BY <1>1, HeadType
  <1>3. ~Absorbing' /\ ~Doing("absorb")'
    BY <1>2 DEF Absorbing, Doing, Idle
  <1>4. \A i \in 2..Len(todo') : todo'[i].op \in {"blocks", "squeeze"}
    BY <1>1
  <1>5. ~Absorbing => Doing("blocks") \/ Doing("squeeze")
    <2>1. Head(todo) \in [op : Ops, left : Nat]
      BY <1>0, HeadType
    <2>2. QED
      BY <2>1 DEF Ops, Absorbing, Doing
  <1>6. Doing("absorb") => todo' = <<>>
    BY <1>0, <1>1 DEF IInv, QueueInv
  <1>7. CASE phase' = "squeeze"
    BY <1>3, <1>4, <1>7 DEF IInv, QueueInv, RoomForPadding
  <1>8. CASE phase' = phase /\ ~Absorbing
    BY <1>3, <1>4, <1>5, <1>7, <1>8 DEF IInv, QueueInv, RoomForPadding
  <1>9. CASE phase' = phase /\ Doing("absorb") /\ pos' < R
    BY <1>3, <1>4, <1>6, <1>9 DEF IInv, QueueInv, RoomForPadding, Doing, Idle
  <1>10. QED
    BY <1>7, <1>8, <1>9

LEMMA RunInv == IInv /\ Run => IInv'
  <1> SUFFICES ASSUME IInv, Run PROVE IInv'
    OBVIOUS
  <1>0. ~Idle
    BY DEF Run, AbsorbBlock, AbsorbTail, OnceBlock, OnceTail, SqueezeSome,
           SqueezeBlock, SqueezeReturn, Doing
  <1>1. TypeOK /\ QueueInv /\ Left \in Nat /\ (Absorbing => NextByte \in Nat)
    BY <1>0, LeftType DEF IInv
  <1>2. CASE AbsorbBlock
    <2> DEFINE st == XorInto(s, Bytes(NextByte, pos, R - pos))
    <2>0. Doing("absorb") /\ Absorbing
      BY <1>2, Zenon DEF AbsorbBlock, Absorbing
    <2>1. Absorbing /\ Doing("absorb") /\ phase = "absorb" /\ Left <= fed /\ pos < R
      BY <1>1, <2>0, Zenon DEF QueueInv
    <2>2. Left - (R - pos) \in Nat /\ Left - (R - pos) <= fed
      BY <1>1, <1>2, <2>1, RateAssumption DEF AbsorbBlock, BlockFull, TypeOK
    <2>3. st \in Seq(Block) /\ st # <<>>
      <3>1. pos \in Int /\ R - pos \in Int /\ NextByte \in Nat
        BY <1>1, <2>1, RateAssumption DEF TypeOK
      <3>2. s \in Seq(Block) /\ s # <<>>
        BY <1>1 DEF TypeOK
      <3>3. QED
        BY <3>1, <3>2, XorBytesType, Zenon
    <2>4. s' \in Seq(Block) /\ s' # <<>>
      BY <1>2, <2>3, PermuteType DEF AbsorbBlock
    <2>5. Keep(Left - (R - pos)) /\ pos' = 0 /\ UNCHANGED <<phase, dom, fed, out>>
      BY <1>2 DEF AbsorbBlock
    <2>6. TypeOK'
      BY <1>0, <1>1, <2>2, <2>4, <2>5, KeepQueue, RateAssumption DEF TypeOK
    <2>7. QED
      BY <1>0, <2>1, <2>2, <2>5, <2>6, KeepInv, RateAssumption
  <1>3. CASE AbsorbTail
    <2>1. Absorbing /\ Doing("absorb") /\ phase = "absorb" /\ pos < R
      BY <1>1, <1>3 DEF AbsorbTail, Absorbing, QueueInv
    <2>2. s' \in Seq(Block) /\ s' # <<>>
      <3>1. pos \in Int /\ Left \in Int /\ NextByte \in Nat
        BY <1>1, <2>1, RateAssumption DEF TypeOK
      <3>2. s \in Seq(Block) /\ s # <<>>
        BY <1>1 DEF TypeOK
      <3>3. s' = XorInto(s, Bytes(NextByte, pos, Left))
        BY <1>3 DEF AbsorbTail
      <3>4. QED
        BY <3>1, <3>2, <3>3, XorBytesType, Zenon
    <2>3. pos' \in 0..R /\ pos' < R /\ Return /\ UNCHANGED <<phase, dom, fed, out>>
      BY <1>1, <1>3, RateAssumption DEF TypeOK, AbsorbTail, BlockFull
    <2>4. TypeOK'
      BY <1>0, <1>1, <2>2, <2>3, ReturnQueue DEF TypeOK
    <2>5. QED
      BY <1>0, <2>1, <2>3, <2>4, ReturnInv
  <1>4. CASE OnceBlock
    <2> DEFINE st == XorInto(s, Bytes(NextByte, 0, R))
    <2>1. Absorbing /\ ~Doing("absorb") /\ Left <= fed
      BY <1>1, <1>4 DEF OnceBlock, Absorbing, QueueInv, Doing
    <2>2. Left - R \in Nat /\ Left - R <= fed
      BY <1>1, <1>4, <2>1, RateAssumption DEF OnceBlock, TypeOK
    <2>3. st \in Seq(Block) /\ st # <<>>
      <3>1. 0 \in Int /\ R \in Int /\ NextByte \in Nat
        BY <1>1, <2>1, RateAssumption
      <3>2. s \in Seq(Block) /\ s # <<>>
        BY <1>1 DEF TypeOK
      <3>3. QED
        BY <3>1, <3>2, XorBytesType, Zenon
    <2>4. s' \in Seq(Block) /\ s' # <<>>
      BY <1>4, <2>3, PermuteType DEF OnceBlock
    <2>5. Keep(Left - R) /\ UNCHANGED <<pos, phase, dom, fed, out>>
      BY <1>4 DEF OnceBlock
    <2>6. TypeOK'
      BY <1>0, <1>1, <2>2, <2>4, <2>5, KeepQueue DEF TypeOK
    <2>7. QED
      BY <1>0, <2>1, <2>2, <2>5, <2>6, KeepInv
  <1>5. CASE OnceTail
    <2>1. Absorbing
      BY <1>5 DEF OnceTail, Absorbing
    <2>2. s' \in Seq(Block) /\ s' # <<>>
      BY <1>1, <1>5, <2>1, XorType, LastBlockType DEF TypeOK, OnceTail
    <2>3. pos' = R /\ phase' = "squeeze" /\ Return /\ UNCHANGED <<dom, fed, out>>
      BY <1>5 DEF OnceTail
    <2>4. TypeOK'
      BY <1>0, <1>1, <2>2, <2>3, ReturnQueue, RateAssumption DEF TypeOK
    <2>5. QED
      BY <1>0, <2>3, <2>4, ReturnInv
  <1>6. CASE SqueezeSome
    <2> DEFINE st   == IF pos = R THEN Permute(s) ELSE s
               from == SqueezeStart
               to   == SqueezeEnd(from)
    <2>1. ~Absorbing /\ Left > 0
      BY <1>6 DEF SqueezeSome, Absorbing, Doing
    <2>2. from \in 0..R /\ from < R
      BY <1>1, RateAssumption DEF SqueezeStart, TypeOK
    <2>3. to \in 0..R /\ from < to /\ Left - (to - from) \in Nat
      BY <1>1, <2>1, <2>2, RateAssumption DEF SqueezeEnd
    <2>4. st \in Seq(Block) /\ st # <<>>
      BY <1>1, PermuteType DEF TypeOK
    <2>5. Read(st, from, to) \in Seq(Seq(Block) \X Offset)
      BY <2>2, <2>3, <2>4, ReadType
    <2>6. /\ s' = st /\ out' = out \o Read(st, from, to) /\ pos' = to
          /\ Keep(Left - (to - from)) /\ UNCHANGED <<phase, dom, fed>>
      BY <1>6 DEF SqueezeSome
    <2> HIDE DEF st, from, to
    <2>7. TypeOK'
      BY <1>0, <1>1, <2>3, <2>4, <2>5, <2>6, KeepQueue DEF TypeOK
    <2>8. QED
      BY <1>0, <2>1, <2>3, <2>6, <2>7, KeepInv DEF Absorbing
  <1>7. CASE SqueezeBlock
    <2>1. ~Absorbing /\ Left - 1 \in Nat
      BY <1>1, <1>7 DEF SqueezeBlock, Absorbing, Doing
    <2>2. Permute(s) \in Seq(Block) /\ Permute(s) # <<>>
      BY <1>1, PermuteType DEF TypeOK
    <2>3. Read(Permute(s), 0, R) \in Seq(Seq(Block) \X Offset)
      BY <2>2, ReadType, RateAssumption
    <2>4. /\ s' = Permute(s) /\ out' = out \o Read(Permute(s), 0, R)
          /\ Keep(Left - 1) /\ UNCHANGED <<pos, phase, dom, fed>>
      BY <1>7 DEF SqueezeBlock
    <2>5. TypeOK'
      BY <1>0, <1>1, <2>1, <2>2, <2>3, <2>4, KeepQueue DEF TypeOK
    <2>6. QED
      BY <1>0, <2>1, <2>4, <2>5, KeepInv DEF Absorbing
  <1>8. CASE SqueezeReturn
    <2>1. ~Absorbing /\ Return /\ UNCHANGED <<s, pos, phase, dom, fed, out>>
      BY <1>8 DEF SqueezeReturn, Absorbing, Doing
    <2>2. TypeOK'
      BY <1>0, <1>1, <2>1, ReturnQueue DEF TypeOK
    <2>3. QED
      BY <1>0, <2>1, <2>2, ReturnInv
  <1>9. QED
    BY <1>2, <1>3, <1>4, <1>5, <1>6, <1>7, <1>8 DEF Run
-----------------------------------------------------------------------------
THEOREM Invariance == Spec => []IInv
  <1>1. IInv /\ UNCHANGED vars => IInv'
    BY DEF IInv, TypeOK, QueueInv, RoomForPadding, Absorbing, Doing, Idle, Left, vars
  <1>2. IInv /\ [Next]_vars => IInv'
    BY <1>1, CallInv, RunInv DEF Next
  <1>3. QED
    BY InitInv, <1>2, PTL DEF Spec

(* For every rate and every sequence of calls: positions stay in the       *)
(* block, every byte XORed or read lies inside it.                         *)
THEOREM TypeCorrect == Spec => []TypeOK
  BY Invariance, PTL DEF IInv

(* For every rate: keccak_finalize always finds room for the domain byte.  *)
THEOREM PaddingFits == Spec => []RoomForPadding
  BY Invariance, PTL DEF IInv

(* For every rate and every length: each iteration leaves less to do.      *)
THEOREM LoopsTerminate == Spec => LoopsAdvance
  <1> DEFINE Less == ~Idle => \/ Len(todo') < Len(todo)
                              \/ Len(todo') = Len(todo) /\ Head(todo').left < Left
  <1>1. ASSUME IInv, Run PROVE Less
    <2> SUFFICES ASSUME ~Idle PROVE Less
      OBVIOUS
    <2>1. TypeOK /\ QueueInv /\ Left \in Nat
      BY <1>1, LeftType DEF IInv
    <2>2. CASE AbsorbBlock
      <3>1. pos < R /\ Left - (R - pos) \in Nat /\ Left - (R - pos) < Left
        BY <2>1, <2>2, RateAssumption DEF AbsorbBlock, BlockFull, TypeOK, QueueInv
      <3>2. QED
        BY <2>1, <2>2, <3>1, KeepQueue DEF AbsorbBlock
    <2>3. CASE OnceBlock
      <3>1. Left - R \in Nat /\ Left - R < Left
        BY <2>1, <2>3, RateAssumption DEF OnceBlock
      <3>2. QED
        BY <2>1, <2>3, <3>1, KeepQueue DEF OnceBlock
    <2>4. CASE SqueezeSome
      <3> DEFINE from == SqueezeStart
                 to   == SqueezeEnd(from)
      <3>1. from \in 0..R /\ from < R
        BY <2>1, RateAssumption DEF SqueezeStart, TypeOK
      <3>2. from < to /\ Left - (to - from) \in Nat /\ Left - (to - from) < Left
        BY <2>1, <2>4, <3>1, RateAssumption DEF SqueezeEnd, SqueezeSome
      <3>3. Keep(Left - (to - from))
        BY <2>4 DEF SqueezeSome
      <3>4. QED
        BY <2>1, <3>2, <3>3, KeepQueue
    <2>5. CASE SqueezeBlock
      <3>1. Left - 1 \in Nat /\ Left - 1 < Left
        BY <2>1, <2>5 DEF SqueezeBlock
      <3>2. QED
        BY <2>1, <2>5, <3>1, KeepQueue DEF SqueezeBlock
    <2>6. CASE AbsorbTail \/ OnceTail \/ SqueezeReturn
      <3>1. Return
        BY <2>6 DEF AbsorbTail, OnceTail, SqueezeReturn
      <3>2. Len(todo') = Len(todo) - 1 /\ Len(todo) \in Nat
        BY <2>1, <3>1, ReturnQueue DEF TypeOK
      <3>3. QED
        BY <3>2
    <2>7. QED
      BY <1>1, <2>2, <2>3, <2>4, <2>5, <2>6 DEF Run
  <1>2. ASSUME NewCall PROVE Less
    BY <1>2 DEF NewCall, ShakeInit, ShakeFinalize, ShakeAbsorb, ShakeAbsorbOnce,
                ShakeOneShot, Sha3, AbsorbOnce, ShakeSqueeze, ShakeSqueezeBlocks
  <1>3. IInv /\ [Next]_vars => [Less]_vars
    BY <1>1, <1>2 DEF Next
  <1>4. QED
    BY <1>3, Invariance, PTL DEF Spec, LoopsAdvance
-----------------------------------------------------------------------------
(* Numbers. *)
LEMMA Division ==
    ASSUME NEW a \in Nat, NEW M \in Nat \ {0}
    PROVE  /\ a \div M \in Nat /\ a % M \in 0 .. M - 1
           /\ a = (a \div M) * M + (a % M)
<1>1. a = M * (a \div M) + (a % M) /\ (a % M) \in 0 .. M - 1 /\ a \div M \in Int
  OBVIOUS
<1>2. M * (a \div M) = (a \div M) * M
  BY <1>1
<1>3. a \div M >= 0
  <2> DEFINE q == a \div M
  <2>1. q \in Int /\ q * M + M > 0
    BY <1>1, <1>2
  <2> HIDE DEF q
  <2>2. ASSUME q <= -1 PROVE FALSE
    <3>1. (-1 - q) * M >= 0
      BY <2>1, <2>2
    <3>2. (-1 - q) * M = -M - q * M
      BY <2>1
    <3> QED  BY <2>1, <3>1, <3>2
  <2> QED  BY <2>1, <2>2 DEF q
<1> QED  BY <1>1, <1>2, <1>3

LEMMA Cancel ==
    ASSUME NEW a \in Int, NEW b \in Int, NEW M \in Nat \ {0}, a * M < b * M
    PROVE  a < b
<1> SUFFICES ASSUME b <= a PROVE FALSE
  OBVIOUS
<1>1. a - b \in Nat
  OBVIOUS
<1>2. (a - b) * M >= 0
  BY <1>1
<1>3. (a - b) * M = a * M - b * M
  OBVIOUS
<1> QED  BY <1>2, <1>3

(* QuotientIs and rest are unique. *)
LEMMA QuotientIs ==
    ASSUME NEW a \in Nat, NEW M \in Nat \ {0}, NEW q \in Int, NEW r \in 0 .. M - 1, a = q * M + r
    PROVE  a \div M = q /\ a % M = r
<1> DEFINE p == a \div M
           o == a % M
<1>1. p \in Int /\ o \in 0 .. M - 1 /\ a = p * M + o
  BY Division
<1> HIDE DEF p, o
<1>2. p * M \in Int /\ q * M \in Int /\ (p + 1) * M = p * M + M /\ (q + 1) * M = q * M + M
  BY <1>1
<1>3. p * M < (q + 1) * M /\ q * M < (p + 1) * M
  BY <1>1, <1>2
<1>4. p < q + 1 /\ q < p + 1
  BY <1>1, <1>3, Cancel
<1>5. p = q
  BY <1>1, <1>4
<1> QED  BY <1>1, <1>5 DEF p, o

(* Dividing twice is dividing by the product. *)
LEMMA DivTwice ==
    ASSUME NEW a \in Nat, NEW M \in Nat \ {0}, NEW N \in Nat \ {0}
    PROVE  M * N \in Nat \ {0} /\ (a \div M) \div N = a \div (M * N)
<1> DEFINE b == a \div M
           c == b \div N
<1>1. b \in Nat /\ a % M \in 0 .. M - 1 /\ a = b * M + (a % M)
  BY Division
<1>2. PICK r \in 0 .. M - 1 : a = b * M + r
  BY <1>1
<1> HIDE DEF b
<1>3. c \in Nat /\ b % N \in 0 .. N - 1 /\ b = c * N + (b % N)
  BY <1>1, Division
<1>4. PICK e \in 0 .. N - 1 : b = c * N + e
  BY <1>3
<1> HIDE DEF c
<1>5. M * N \in Nat \ {0}
  <2>1. M * N >= 1 * N
    <3>1. (M - 1) * N >= 0
      OBVIOUS
    <3>2. (M - 1) * N = M * N - N
      OBVIOUS
    <3> QED  BY <3>1, <3>2
  <2> QED  BY <2>1
<1>6. e * M \in Nat /\ e * M <= M * N - M
  <2>1. (N - 1 - e) * M >= 0
    OBVIOUS
  <2>2. (N - 1 - e) * M = M * N - M - e * M
    OBVIOUS
  <2>3. e * M >= 0
    OBVIOUS
  <2> QED  BY <2>1, <2>2, <2>3
<1>7. e * M + r \in 0 .. M * N - 1
  BY <1>5, <1>6
<1>8. a = c * (M * N) + (e * M + r)
  <2>1. b * M = (c * N + e) * M
    BY <1>4
  <2>2. (c * N + e) * M = c * (M * N) + e * M
    BY <1>3
  <2> DEFINE x == b * M
             y == c * (M * N)
             z == e * M
  <2>3. x = y + z /\ a = x + r /\ x \in Int /\ y \in Int /\ z \in Int
    BY <1>1, <1>2, <1>3, <1>5, <1>6, <2>1, <2>2
  <2> HIDE DEF x, y, z
  <2>4. a = y + (z + r)
    BY <2>3
  <2> QED  BY <2>4 DEF y, z
<1> DEFINE P == M * N
           t == e * M + r
<1>9. P \in Nat \ {0} /\ t \in 0 .. P - 1 /\ c \in Int /\ a = c * P + t
  BY <1>3, <1>5, <1>7, <1>8
<1> HIDE DEF P, t
<1>10. a \div P = c
  BY <1>9, QuotientIs
<1> QED  BY <1>5, <1>10 DEF P, c, b

LEMMA DivProduct ==
    ASSUME NEW a, NEW M, NEW N, NEW P, a \in Nat, M \in Nat \ {0}, N \in Nat \ {0}, P = M * N
    PROVE  (a \div M) \div N = a \div P
BY DivTwice
-----------------------------------------------------------------------------
(* The state after m bytes of message, whole blocks permuted.              *)
FedBlock(m, b) == [j \in Offset |-> {n \in {(b - 1) * R + j + 1} : n <= m}]
FedState(m) == [b \in 1..BlocksOf(m) |-> FedBlock(m, b)]

LEMMA Divide ==
  ASSUME NEW m \in Nat
  PROVE  /\ m \div R \in Nat
         /\ m % R \in Offset
         /\ m % R < R
         /\ m = (m \div R) * R + (m % R)
  BY RateAssumption DEF Offset

LEMMA Quotient ==
  ASSUME NEW m \in Nat, NEW k \in Nat, NEW r \in Nat, r < R, m = k * R + r
  PROVE  m \div R = k /\ m % R = r
  <1>1. r \in 0 .. R - 1 /\ R \in Nat \ {0}
    BY RateAssumption
  <1>2. QED
    BY <1>1, QuotientIs

LEMMA StateShape ==
  ASSUME NEW m \in Nat
  PROVE  /\ BlocksOf(m) \in Nat \ {0}
         /\ FedState(m) \in Seq([Offset -> SUBSET Nat])
         /\ Len(FedState(m)) = BlocksOf(m)
         /\ \A b \in 1..BlocksOf(m) : FedState(m)[b] = FedBlock(m, b)
  <1>1. BlocksOf(m) \in Nat \ {0}
    BY Divide DEF BlocksOf
  <1>2. \A b \in 1..BlocksOf(m) : FedBlock(m, b) \in [Offset -> SUBSET Nat]
    <2> SUFFICES ASSUME NEW b \in 1..BlocksOf(m), NEW j \in Offset
                 PROVE  {n \in {(b - 1) * R + j + 1} : n <= m} \in SUBSET Nat
      BY DEF FedBlock
    <2>1. (b - 1) * R \in Nat
      BY <1>1, RateAssumption
    <2>2. QED
      BY <2>1, RateAssumption DEF Offset
  <1>3. QED
    BY <1>1, <1>2 DEF FedState

(* A block before the last is full; the last holds m % R bytes.            *)
LEMMA FedOffsets ==
  ASSUME NEW m \in Nat, NEW b \in 1..BlocksOf(m), NEW j \in Offset
  PROVE  /\ (b - 1) * R + j + 1 \in Nat
         /\ b < BlocksOf(m) => (b - 1) * R + j + 1 <= m
         /\ b = BlocksOf(m) => (b - 1) * R = m - (m % R)
  <1> DEFINE c == m \div R
             p == m % R
  <1>1. c \in Nat /\ p \in Nat /\ p < R /\ m = c * R + p
    BY Divide DEF Offset
  <1>2. b \in Nat /\ b >= 1 /\ b <= c + 1 /\ j \in Nat /\ j < R
    BY RateAssumption, <1>1 DEF BlocksOf, Offset
  <1>3. b < BlocksOf(m) => b <= c
    BY <1>1, <1>2 DEF BlocksOf
  <1>4. b = BlocksOf(m) => b - 1 = c
    BY <1>1, <1>2 DEF BlocksOf
  <1> HIDE DEF c
  <1>5. (b - 1) * R \in Nat
    BY <1>2, RateAssumption
  <1>6. b <= c => (b - 1) * R + R <= c * R
    <2>1. b <= c => (c - b) * R \in Nat
      BY <1>1, <1>2, RateAssumption
    <2>2. (c - b) * R = c * R - ((b - 1) * R + R)
      BY <1>1, <1>2, RateAssumption
    <2>3. QED
      BY <2>1, <2>2, <1>1, <1>5, RateAssumption
  <1>7. c * R \in Nat
    BY <1>1, RateAssumption
  <1>8. b <= c => (b - 1) * R + j + 1 <= m
    BY <1>1, <1>2, <1>5, <1>6, <1>7, RateAssumption
  <1>9. b - 1 = c => (b - 1) * R = m - p
    BY <1>1, <1>7
  <1>10. QED
    BY <1>2, <1>3, <1>4, <1>5, <1>8, <1>9

(* XORing bytes in changes the last block only.                            *)
LEMMA XorShape ==
  ASSUME NEW st, NEW B \in Nat \ {0}, DOMAIN st = 1..B, Len(st) = B,
         st = [b \in 1..B |-> st[b]], NEW bytes
  PROVE  XorInto(st, bytes) =
           [b \in 1..B |-> IF b = B
              THEN [j \in Offset |-> IF j \in DOMAIN bytes THEN Xor(st[B][j], bytes[j])
                                     ELSE st[B][j]]
              ELSE st[b]]
  BY DEF XorInto

LEMMA XorFed ==
  ASSUME NEW m \in Nat, NEW bytes, NEW B, B = BlocksOf(m)
  PROVE  XorInto(FedState(m), bytes) =
           [b \in 1..B |-> IF b = B
              THEN [j \in Offset |-> IF j \in DOMAIN bytes
                                     THEN Xor(FedBlock(m, B)[j], bytes[j])
                                     ELSE FedBlock(m, B)[j]]
              ELSE FedBlock(m, b)]
  <1> DEFINE st == FedState(m)
  <1>1. /\ B \in Nat \ {0} /\ DOMAIN st = 1..B /\ Len(st) = B
        /\ st = [b \in 1..B |-> st[b]]
        /\ \A b \in 1..B : st[b] = FedBlock(m, b)
    BY StateShape DEF FedState
  <1>2. B \in 1..B /\ st[B] = FedBlock(m, B)
    BY <1>1
  <1> HIDE DEF st
  <1>3. XorInto(st, bytes) =
          [b \in 1..B |-> IF b = B
              THEN [j \in Offset |-> IF j \in DOMAIN bytes THEN Xor(st[B][j], bytes[j])
                                     ELSE st[B][j]]
              ELSE st[b]]
    BY <1>1 DEF XorInto
  <1>4. QED
    BY <1>1, <1>2, <1>3 DEF st

(* The last block, offset by offset.                                       *)
LEMMA LastFed ==
  ASSUME NEW m \in Nat, NEW j \in Offset
  PROVE  FedBlock(m, BlocksOf(m))[j] =
           IF j < m % R THEN {m - (m % R) + j + 1} ELSE {}
  <1> DEFINE B == BlocksOf(m)
             p == m % R
  <1>1. B \in 1..B
    BY StateShape
  <1>2. (B - 1) * R = m - p
    BY <1>1, FedOffsets
  <1>3. FedBlock(m, B)[j] = {n \in {m - p + j + 1} : n <= m}
    BY <1>2 DEF FedBlock
  <1>4. p \in Nat /\ j \in Nat
    BY Divide, RateAssumption DEF Offset
  <1>5. m - p + j + 1 <= m <=> j < p
    BY <1>4
  <1> HIDE DEF B, p
  <1>6. QED
    BY <1>3, <1>5 DEF B, p

(* A function on 1..n is a sequence of length n.                           *)
LEMMA Listed ==
  ASSUME NEW n \in Nat, NEW F, NEW f \in [1..n -> F]
  PROVE  f \in Seq(F) /\ Len(f) = n
  <1>1. [1..n -> F] \in {[1..k -> F] : k \in Nat}
    OBVIOUS
  <1>2. Seq(F) = UNION {[1..k -> F] : k \in Nat}
    BY SeqDef
  <1>3. f \in Seq(F)
    BY <1>1, <1>2
  <1>4. DOMAIN f = 1..n
    OBVIOUS
  <1>5. DOMAIN f = 1..Len(f) /\ Len(f) \in Nat
    BY <1>3, LenProperties, Zenon
  <1>6. QED
    BY <1>3, <1>4, <1>5

(* A sequence is its front and its last element.                           *)
LEMMA AppendLast ==
  ASSUME NEW n \in Nat, NEW f, f = [b \in 1..(n + 1) |-> f[b]]
  PROVE  Append([b \in 1..n |-> f[b]], f[n + 1]) = f
  <1> DEFINE F     == {f[b] : b \in 1..(n + 1)}
             front == [b \in 1..n |-> f[b]]
             whole == Append(front, f[n + 1])
  <1>1. \A b \in 1..(n + 1) : f[b] \in F
    OBVIOUS
  <1> HIDE DEF F
  <1>2. f \in Seq(F) /\ Len(f) = n + 1
    BY <1>1
  <1>3. front \in Seq(F) /\ Len(front) = n /\ \A b \in 1..n : front[b] = f[b]
    <2>1. \A b \in 1..n : front[b] = f[b] /\ f[b] \in F
      BY <1>1
    <2>2. \A b \in 1..n : front[b] \in F
      BY <2>1
    <2>3. front = [b \in 1..n |-> front[b]]
      OBVIOUS
    <2> HIDE DEF front
    <2>4. front \in [1..n -> F]
      BY <2>2, <2>3
    <2>5. QED
      BY <2>1, <2>4, Listed
  <1>4. f[n + 1] \in F
    BY <1>1
  <1> HIDE DEF front
  <1>5. /\ whole \in Seq(F) /\ Len(whole) = n + 1
        /\ \A b \in 1..(n + 1) : whole[b] = f[b]
    BY <1>3, <1>4
  <1> HIDE DEF whole
  <1>6. whole = f
    BY <1>2, <1>5, SeqEqual
  <1>7. QED
    BY <1>6 DEF whole, front

(* Where in its block the message ends, after bytes that leave room, and   *)
(* after bytes that fill the block.                                        *)
LEMMA RoomLeft ==
  ASSUME NEW m \in Nat, NEW n \in Nat, (m % R) + n < R
  PROVE  (m + n) \div R = m \div R /\ (m + n) % R = (m % R) + n
  <1> DEFINE p == m % R
  <1>1. p \in Nat /\ m = (m \div R) * R + p /\ m \div R \in Nat
    BY Divide DEF Offset
  <1>2. m + n \in Nat /\ p + n \in Nat /\ p + n < R
    BY <1>1
  <1>3. m + n = (m \div R) * R + (p + n)
    BY <1>1, RateAssumption
  <1> HIDE DEF p
  <1>4. (m + n) \div R = m \div R /\ (m + n) % R = p + n
    BY <1>1, <1>2, <1>3, Quotient
  <1>5. QED
    BY <1>4 DEF p

LEMMA BlockFilled ==
  ASSUME NEW m \in Nat
  PROVE  (m + (R - (m % R))) \div R = (m \div R) + 1 /\ (m + (R - (m % R))) % R = 0
  <1> DEFINE p == m % R
             n == R - p
  <1>1. p \in Nat /\ p < R /\ m = (m \div R) * R + p /\ m \div R \in Nat /\ n \in Nat
    BY Divide, RateAssumption DEF Offset
  <1>2. m + n \in Nat /\ 0 < R /\ 0 \in Nat /\ (m \div R) + 1 \in Nat
    BY <1>1, RateAssumption
  <1>3. m + n = ((m \div R) + 1) * R + 0
    BY <1>1, RateAssumption
  <1> HIDE DEF n
  <1>4. (m + n) \div R = (m \div R) + 1 /\ (m + n) % R = 0
    BY <1>2, <1>3, Quotient
  <1>5. QED
    BY <1>4 DEF n

(* Bytes that leave room in the block.                                     *)
LEMMA FeedSome ==
  ASSUME NEW m \in Nat, NEW n \in Nat, (m % R) + n < R
  PROVE  XorInto(FedState(m), Bytes(m + 1, m % R, n)) = FedState(m + n)
  <1> DEFINE B == BlocksOf(m)
             p == m % R
             new == FedBlock(m + n, B)
             bytes == Bytes(m + 1, p, n)
  <1>1. p \in Nat /\ m = (m \div R) * R + p /\ m \div R \in Nat
    BY Divide DEF Offset
  <1>2. (m + n) \div R = m \div R /\ (m + n) % R = p + n
    BY RoomLeft
  <1>3. BlocksOf(m + n) = B /\ B \in Nat \ {0}
    BY <1>1, <1>2 DEF BlocksOf
  <1>4. \A j \in Offset : new[j] = IF j \in DOMAIN bytes
                                   THEN Xor(FedBlock(m, B)[j], bytes[j])
                                   ELSE FedBlock(m, B)[j]
    <2> TAKE j \in Offset
    <2>1. new[j] = IF j < p + n THEN {m - p + j + 1} ELSE {}
      <3> DEFINE w == m + n
      <3>1. w \in Nat /\ w - (p + n) = m - p
        BY <1>1
      <3>2. w % R = p + n /\ BlocksOf(w) = B
        BY <1>2, <1>3
      <3>3. new[j] = FedBlock(w, B)[j]
        OBVIOUS
      <3> HIDE DEF w, B, new
      <3>4. FedBlock(w, BlocksOf(w))[j] = IF j < w % R THEN {w - (w % R) + j + 1} ELSE {}
        BY <3>1, LastFed
      <3>5. QED
        BY <3>1, <3>2, <3>3, <3>4
    <2>2. FedBlock(m, B)[j] = IF j < p THEN {m - p + j + 1} ELSE {}
      BY LastFed
    <2>3. j \in DOMAIN bytes <=> j >= p /\ j < p + n
      BY <1>1, RateAssumption DEF Bytes, Offset
    <2>4. j \in DOMAIN bytes => bytes[j] = {m + 1 + j - p}
      BY DEF Bytes
    <2>5. m + 1 + j - p = m - p + j + 1 /\ j \in Nat /\ p \in Nat
      BY <1>1, RateAssumption DEF Offset
    <2> HIDE DEF new, B, p, bytes
    <2>6. QED
      <3>1. CASE j < p
        BY <3>1, <2>1, <2>2, <2>3, <2>5
      <3>2. CASE j >= p
        <4>1. FedBlock(m, B)[j] = {}
          BY <3>2, <2>2, <2>5
        <4>2. Xor({}, bytes[j]) = bytes[j]
          BY DEF Xor
        <4>3. QED
          BY <3>2, <4>1, <4>2, <2>1, <2>3, <2>4, <2>5
      <3>3. QED
        BY <3>1, <3>2, <2>5
  <1>5. new = [j \in Offset |-> new[j]]
    BY DEF FedBlock
  <1> HIDE DEF new, B, bytes
  <1>6. XorInto(FedState(m), bytes) =
          [b \in 1..B |-> IF b = B THEN new ELSE FedBlock(m, b)]
    <2>1. new = [j \in Offset |-> IF j \in DOMAIN bytes
                                 THEN Xor(FedBlock(m, B)[j], bytes[j])
                                 ELSE FedBlock(m, B)[j]]
      BY <1>4, <1>5
    <2>2. B = BlocksOf(m)
      BY DEF B
    <2>3. QED
      BY <2>1, <2>2, XorFed
  <1>7. \A b \in 1..B : b # B => FedBlock(m, b) = FedBlock(m + n, b)
    <2> SUFFICES ASSUME NEW b \in 1..B, b # B PROVE FedBlock(m, b) = FedBlock(m + n, b)
      OBVIOUS
    <2>1. b < BlocksOf(m) /\ b < BlocksOf(m + n) /\ b \in 1..BlocksOf(m + n) /\ b \in 1..BlocksOf(m)
      BY <1>3 DEF B
    <2>2. \A j \in Offset : (b - 1) * R + j + 1 <= m
      BY <2>1, FedOffsets
    <2>3. \A j \in Offset : (b - 1) * R + j + 1 <= m + n
      BY <2>1, FedOffsets
    <2>4. \A j \in Offset : {i \in {(b - 1) * R + j + 1} : i <= m}
                           = {i \in {(b - 1) * R + j + 1} : i <= m + n}
      BY <2>2, <2>3, Zenon
    <2>5. QED
      BY <2>4, Zenon DEF FedBlock
  <1>8. QED
    BY <1>3, <1>6, <1>7 DEF FedState, new, B, bytes

(* Bytes that fill the block, and the permutation.                         *)
LEMMA FeedBlock ==
  ASSUME NEW m \in Nat
  PROVE  Permute(XorInto(FedState(m), Bytes(m + 1, m % R, R - (m % R)))) = FedState(m + (R - (m % R)))
  <1> DEFINE B == BlocksOf(m)
             p == m % R
             n == R - p
             new == FedBlock(m + n, B)
             bytes == Bytes(m + 1, p, n)
             st == [b \in 1..B |-> IF b = B THEN new ELSE FedBlock(m, b)]
  <1>1. p \in Nat /\ p < R /\ m = (m \div R) * R + p /\ m \div R \in Nat /\ n \in Nat
    BY Divide, RateAssumption DEF Offset
  <1>2. (m + n) \div R = (m \div R) + 1 /\ (m + n) % R = 0
    BY BlockFilled
  <1>3. BlocksOf(m + n) = B + 1 /\ B \in Nat \ {0}
    BY <1>1, <1>2 DEF BlocksOf
  <1>4. \A j \in Offset : new[j] = IF j \in DOMAIN bytes
                                   THEN Xor(FedBlock(m, B)[j], bytes[j])
                                   ELSE FedBlock(m, B)[j]
    <2> TAKE j \in Offset
    <2>0. B \in 1..BlocksOf(m) /\ B \in 1..BlocksOf(m + n) /\ B < BlocksOf(m + n)
      BY <1>3
    <2>1. new[j] = {m - p + j + 1}
      <3>1. (B - 1) * R = m - p
        BY <2>0, FedOffsets
      <3>2. (B - 1) * R + j + 1 <= m + n
        BY <2>0, <1>1, FedOffsets
      <3>3. new[j] = {i \in {(B - 1) * R + j + 1} : i <= m + n}
        BY DEF FedBlock
      <3>4. new[j] = {(B - 1) * R + j + 1}
        BY <3>2, <3>3, Zenon
      <3>5. QED
        BY <3>1, <3>4
    <2>2. FedBlock(m, B)[j] = IF j < p THEN {m - p + j + 1} ELSE {}
      BY LastFed
    <2>3. j \in DOMAIN bytes <=> j >= p
      BY <1>1, RateAssumption DEF Bytes, Offset
    <2>4. j \in DOMAIN bytes => bytes[j] = {m + 1 + j - p}
      BY DEF Bytes
    <2>5. m + 1 + j - p = m - p + j + 1 /\ j \in Nat /\ p \in Nat
      BY <1>1, RateAssumption DEF Offset
    <2> HIDE DEF new, B, p, n, bytes
    <2>6. QED
      <3>1. CASE j < p
        BY <3>1, <2>1, <2>2, <2>3, <2>5
      <3>2. CASE j >= p
        <4>1. FedBlock(m, B)[j] = {}
          BY <3>2, <2>2, <2>5
        <4>2. Xor({}, bytes[j]) = bytes[j]
          BY DEF Xor
        <4>3. QED
          BY <3>2, <4>1, <4>2, <2>1, <2>3, <2>4, <2>5
      <3>3. QED
        BY <3>1, <3>2, <2>5
  <1>5. new = [j \in Offset |-> new[j]]
    BY DEF FedBlock
  <1> HIDE DEF new, B, bytes
  <1>6. XorInto(FedState(m), bytes) = st
    <2>1. new = [j \in Offset |-> IF j \in DOMAIN bytes
                                 THEN Xor(FedBlock(m, B)[j], bytes[j])
                                 ELSE FedBlock(m, B)[j]]
      BY <1>4, <1>5
    <2>2. B = BlocksOf(m)
      BY DEF B
    <2>3. QED
      BY <2>1, <2>2, XorFed
  <1>7. \A b \in 1..B : st[b] = FedBlock(m + n, b)
    <2> SUFFICES ASSUME NEW b \in 1..B, b # B PROVE FedBlock(m, b) = FedBlock(m + n, b)
      BY DEF new
    <2>1. b < BlocksOf(m) /\ b < BlocksOf(m + n) /\ b \in 1..BlocksOf(m + n) /\ b \in 1..BlocksOf(m)
      BY <1>3 DEF B
    <2>2. \A j \in Offset : (b - 1) * R + j + 1 <= m
      BY <2>1, FedOffsets
    <2>3. \A j \in Offset : (b - 1) * R + j + 1 <= m + n
      BY <2>1, <1>1, FedOffsets
    <2>4. \A j \in Offset : {i \in {(b - 1) * R + j + 1} : i <= m}
                           = {i \in {(b - 1) * R + j + 1} : i <= m + n}
      BY <2>2, <2>3, Zenon
    <2>5. QED
      BY <2>4, Zenon DEF FedBlock
  <1>8. FedBlock(m + n, B + 1) = Zero
    <2>1. \A j \in Offset : FedBlock(m + n, B + 1)[j] = {}
      <3> TAKE j \in Offset
      <3>1. m + n \in Nat
        BY <1>1
      <3>2. ~(j < 0)
        BY RateAssumption DEF Offset
      <3>3. QED
        BY <1>2, <1>3, <3>1, <3>2, LastFed
    <2>2. FedBlock(m + n, B + 1) = [j \in Offset |-> FedBlock(m + n, B + 1)[j]]
      BY DEF FedBlock
    <2>3. QED
      BY <2>1, <2>2, Zenon DEF Zero
  <1>9. Append(st, Zero) = [b \in 1..(B + 1) |-> FedBlock(m + n, b)]
    <2> HIDE DEF B
    <2> DEFINE whole == [b \in 1..(B + 1) |-> FedBlock(m + n, b)]
    <2> HIDE DEF n
    <2>1. whole = [b \in 1..(B + 1) |-> whole[b]] /\ whole[B + 1] = Zero
      BY <1>3, <1>8
    <2>2. st = [b \in 1..B |-> whole[b]]
      BY <1>3, <1>7
    <2> HIDE DEF whole, st
    <2>3. Append([b \in 1..B |-> whole[b]], whole[B + 1]) = whole
      BY <1>3, <2>1, AppendLast
    <2>4. QED
      BY <2>1, <2>2, <2>3 DEF whole
  <1>10. QED
    BY <1>3, <1>6, <1>9 DEF FedState, Permute, B, bytes

(* The padded message, block by block: full blocks, then the last.         *)
LEMMA PaddedOther ==
  ASSUME NEW m \in Nat, NEW d, NEW b \in 1..BlocksOf(m), b # BlocksOf(m)
  PROVE  PaddedBlock(d, m, b) = FedBlock(m, b)
  <1>1. b < BlocksOf(m)
    BY StateShape
  <1>2. \A j \in Offset : (b - 1) * R + j + 1 <= m /\ (b - 1) * R + j + 1 \in Nat
    BY <1>1, FedOffsets
  <1>3. \A j \in Offset : (b - 1) * R + j \in Int
    BY StateShape, RateAssumption DEF Offset
  <1>4. \A j \in Offset : (b - 1) * R + j < m /\ (b - 1) * R + j # m
    BY <1>2, <1>3
  <1>5. \A j \in Offset :
          {n \in {(b - 1) * R + j + 1} : (b - 1) * R + j < m}
            \cup {n \in {d} : (b - 1) * R + j = m}
            \cup {n \in {LAST} : b = BlocksOf(m) /\ j = R - 1}
          = {n \in {(b - 1) * R + j + 1} : n <= m}
    BY <1>2, <1>4, Zenon
  <1>6. QED
    BY <1>5, Zenon DEF PaddedBlock, FedBlock

LEMMA PaddedLast ==
  ASSUME NEW m \in Nat, NEW d, NEW j \in Offset
  PROVE  PaddedBlock(d, m, BlocksOf(m))[j] =
           (IF j < m % R THEN {m - (m % R) + j + 1} ELSE {})
             \cup (IF j = m % R THEN {d} ELSE {})
             \cup (IF j = R - 1 THEN {LAST} ELSE {})
  <1> DEFINE B == BlocksOf(m)
             p == m % R
  <1>0. B \in 1..B
    BY StateShape
  <1>1. (B - 1) * R = m - p
    BY <1>0, FedOffsets
  <1>2. p \in Nat /\ j \in Nat
    BY Divide, RateAssumption DEF Offset
  <1>3. PaddedBlock(d, m, B)[j] =
          {n \in {m - p + j + 1} : m - p + j < m}
            \cup {n \in {d} : m - p + j = m}
            \cup {n \in {LAST} : j = R - 1}
    BY <1>1 DEF PaddedBlock
  <1>4. (m - p + j < m <=> j < p) /\ (m - p + j = m <=> j = p)
    BY <1>2
  <1> HIDE DEF B, p
  <1>5. QED
    BY <1>3, <1>4 DEF B, p

(* XORing the padding into the last block completes the padded message.    *)
LEMMA Completes ==
  ASSUME NEW m \in Nat, NEW k \in Nat, BlocksOf(k) = BlocksOf(m), k <= m, NEW d, NEW bytes,
         \A j \in Offset : PaddedBlock(d, m, BlocksOf(m))[j] =
            IF j \in DOMAIN bytes THEN Xor(FedBlock(k, BlocksOf(m))[j], bytes[j])
            ELSE FedBlock(k, BlocksOf(m))[j]
  PROVE  XorInto(FedState(k), bytes) = PaddedState(d, m, 0)
  <1> DEFINE B   == BlocksOf(m)
             new == PaddedBlock(d, m, B)
  <1>1. B \in Nat \ {0} /\ B + 0 = B
    BY StateShape
  <1>2. new = [j \in Offset |-> new[j]]
    BY DEF PaddedBlock
  <1>3. \A b \in 1..B : b # B => PaddedBlock(d, m, b) = FedBlock(k, b)
    <2> SUFFICES ASSUME NEW b \in 1..B, b # B PROVE PaddedBlock(d, m, b) = FedBlock(k, b)
      OBVIOUS
    <2>1. PaddedBlock(d, m, b) = FedBlock(m, b)
      BY PaddedOther
    <2>2. b < BlocksOf(k) /\ b < BlocksOf(m) /\ b \in 1..BlocksOf(k) /\ b \in 1..BlocksOf(m)
      BY <1>1
    <2>3. \A j \in Offset : (b - 1) * R + j + 1 <= k /\ (b - 1) * R + j + 1 <= m
      BY <2>2, FedOffsets
    <2>4. \A j \in Offset : {i \in {(b - 1) * R + j + 1} : i <= k}
                           = {i \in {(b - 1) * R + j + 1} : i <= m}
      BY <2>3, Zenon
    <2>5. QED
      BY <2>1, <2>4, Zenon DEF FedBlock
  <1>4. PaddedState(d, m, 0) = [b \in 1..B |-> PaddedBlock(d, m, b)]
    BY <1>1 DEF PaddedState
  <1>5. \A j \in Offset : new[j] =
            IF j \in DOMAIN bytes THEN Xor(FedBlock(k, B)[j], bytes[j])
            ELSE FedBlock(k, B)[j]
    OBVIOUS
  <1>6. B = BlocksOf(k)
    OBVIOUS
  <1> HIDE DEF new, B
  <1>7. new = [j \in Offset |-> IF j \in DOMAIN bytes
                               THEN Xor(FedBlock(k, B)[j], bytes[j])
                               ELSE FedBlock(k, B)[j]]
    BY <1>2, <1>5
  <1>8. XorInto(FedState(k), bytes) = [b \in 1..B |-> IF b = B THEN new ELSE FedBlock(k, b)]
    BY <1>6, <1>7, XorFed
  <1>9. QED
    BY <1>3, <1>4, <1>8 DEF new

LEMMA PadFed ==
  ASSUME NEW m \in Nat, NEW d
  PROVE  XorInto(FedState(m), [j \in {m % R, R - 1} |->
                   {i \in {d} : j = m % R} \cup {i \in {LAST} : j = R - 1}])
           = PaddedState(d, m, 0)
  <1> DEFINE p == m % R
             B == BlocksOf(m)
             bytes == [j \in {p, R - 1} |-> {i \in {d} : j = p} \cup {i \in {LAST} : j = R - 1}]
  <1>1. ASSUME NEW j \in Offset
        PROVE  PaddedBlock(d, m, B)[j] =
                 IF j \in DOMAIN bytes THEN Xor(FedBlock(m, B)[j], bytes[j]) ELSE FedBlock(m, B)[j]
    <2>1. FedBlock(m, B)[j] = IF j < p THEN {m - p + j + 1} ELSE {}
      BY LastFed
    <2>2. PaddedBlock(d, m, B)[j] = (IF j < p THEN {m - p + j + 1} ELSE {})
             \cup (IF j = p THEN {d} ELSE {}) \cup (IF j = R - 1 THEN {LAST} ELSE {})
      BY PaddedLast
    <2>3. (j \in DOMAIN bytes <=> j = p \/ j = R - 1)
          /\ (j \in DOMAIN bytes => bytes[j] = (IF j = p THEN {d} ELSE {})
                                               \cup (IF j = R - 1 THEN {LAST} ELSE {}))
      OBVIOUS
    <2>4. p <= R - 1 /\ j <= R - 1 /\ p \in Nat /\ j \in Nat
      BY Divide, RateAssumption DEF Offset
    <2> HIDE DEF p, B, bytes
    <2>5. CASE j < p
      <3>1. j # p /\ j # R - 1
        BY <2>4, <2>5, RateAssumption
      <3>2. QED
        BY <3>1, <2>1, <2>2, <2>3, <2>5
    <2>6. CASE j >= p
      <3>1. FedBlock(m, B)[j] = {} /\ Xor({}, bytes[j]) = bytes[j]
        BY <2>1, <2>4, <2>6 DEF Xor
      <3>2. PaddedBlock(d, m, B)[j] = (IF j = p THEN {d} ELSE {})
                                        \cup (IF j = R - 1 THEN {LAST} ELSE {})
        BY <2>2, <2>4, <2>6
      <3>3. QED
        BY <3>1, <3>2, <2>3
    <2>7. QED
      BY <2>4, <2>5, <2>6
  <1> HIDE DEF bytes
  <1>2. XorInto(FedState(m), bytes) = PaddedState(d, m, 0)
    BY <1>1, Completes
  <1>3. QED
    BY <1>2 DEF bytes

LEMMA PaddedType ==
  ASSUME NEW d \in Domain, NEW m \in Nat, NEW q \in Nat
  PROVE  PaddedState(d, m, q) \in Seq(Block)
  <1> DEFINE n == BlocksOf(m) + q
             st == PaddedState(d, m, q)
  <1>0. n \in Nat
    <2>1. BlocksOf(m) \in Nat
      BY StateShape
    <2>2. QED
      BY <2>1
  <1>1. \A b \in 1..n : PaddedBlock(d, m, b) \in Block
    <2> TAKE b \in 1..n
    <2>1. b \in Nat \ {0}
      BY <1>0
    <2>2. \A j \in Offset : (b - 1) * R + j \in Nat
      BY <2>1, RateAssumption DEF Offset
    <2>3. \A j \in Offset : {i \in {(b - 1) * R + j + 1} : (b - 1) * R + j < m} \subseteq Item
      BY <2>2 DEF Item
    <2>4. {i \in {d} : TRUE} \subseteq Item /\ {LAST} \subseteq Item
      BY DEF Item
    <2>5. QED
      BY <2>3, <2>4 DEF PaddedBlock, Block
  <1>2. \A b \in 1..n : st[b] \in Block
    BY <1>1, ZeroType DEF PaddedState
  <1>3. st = [b \in 1..n |-> st[b]] /\ n \in Nat
    BY StateShape DEF PaddedState
  <1> HIDE DEF st, n
  <1>4. st \in [1..n -> Block]
    BY <1>2, <1>3
  <1>5. st \in Seq(Block)
    BY <1>3, <1>4, Listed
  <1>6. QED
    BY <1>5 DEF st

LEMMA PermutePadded ==
  ASSUME NEW m \in Nat, NEW d, NEW q \in Nat
  PROVE  Permute(PaddedState(d, m, q)) = PaddedState(d, m, q + 1)
  <1> DEFINE B     == BlocksOf(m)
             whole == PaddedState(d, m, q + 1)
  <1>0. B \in Nat \ {0}
    BY StateShape
  <1>1. B \in Nat \ {0} /\ B + q \in Nat /\ B + (q + 1) = (B + q) + 1
    <2> HIDE DEF B
    <2>1. QED
      BY <1>0
  <1>2. whole = [b \in 1..((B + q) + 1) |-> whole[b]]
    BY <1>1 DEF PaddedState
  <1>3. whole[(B + q) + 1] = Zero
    BY <1>1 DEF PaddedState
  <1>4. PaddedState(d, m, q) = [b \in 1..(B + q) |-> whole[b]]
    BY <1>1 DEF PaddedState
  <1> HIDE DEF whole, B
  <1>5. Append([b \in 1..(B + q) |-> whole[b]], whole[(B + q) + 1]) = whole
    BY <1>1, <1>2, AppendLast
  <1>6. QED
    BY <1>3, <1>4, <1>5 DEF Permute, whole

LEMMA LastBlockFed ==
  ASSUME NEW k \in Nat, k % R = 0, NEW n \in Nat, n < R, NEW d
  PROVE  XorInto(FedState(k), LastBlock(d, k + 1, n)) = PaddedState(d, k + n, 0)
  <1> DEFINE m     == k + n
             B     == BlocksOf(m)
             bytes == LastBlock(d, k + 1, n)
  <1>1. m \in Nat /\ k <= m /\ m % R = n /\ BlocksOf(k) = B
    <2>1. k \div R \in Nat /\ k = (k \div R) * R + 0
      BY Divide
    <2>2. m \in Nat /\ k <= m /\ m = (k \div R) * R + n
      BY <2>1, RateAssumption
    <2> HIDE DEF m
    <2>3. m \div R = k \div R /\ m % R = n
      BY <2>1, <2>2, Quotient
    <2>4. QED
      BY <2>2, <2>3 DEF BlocksOf
  <1>2. ASSUME NEW j \in Offset
        PROVE  PaddedBlock(d, m, B)[j] =
                 IF j \in DOMAIN bytes THEN Xor(FedBlock(k, B)[j], bytes[j]) ELSE FedBlock(k, B)[j]
    <2>0. j \in Nat /\ ~(j < 0) /\ m - n + j + 1 = k + 1 + j
      BY RateAssumption DEF Offset
    <2>1. FedBlock(k, BlocksOf(k))[j] = {}
      BY <2>0, LastFed
    <2>2. PaddedBlock(d, m, B)[j] = (IF j < n THEN {k + 1 + j} ELSE {})
             \cup (IF j = n THEN {d} ELSE {}) \cup (IF j = R - 1 THEN {LAST} ELSE {})
      <3> HIDE DEF m
      <3>1. PaddedBlock(d, m, BlocksOf(m))[j] = (IF j < m % R THEN {m - (m % R) + j + 1} ELSE {})
               \cup (IF j = m % R THEN {d} ELSE {}) \cup (IF j = R - 1 THEN {LAST} ELSE {})
        BY <1>1, PaddedLast
      <3>2. QED
        BY <3>1, <1>1, <2>0
    <2>3. /\ j \in DOMAIN bytes
          /\ bytes[j] = (IF j < n THEN {k + 1 + j} ELSE {})
                         \cup (IF j = n THEN {d} ELSE {}) \cup (IF j = R - 1 THEN {LAST} ELSE {})
      BY DEF LastBlock
    <2>4. Xor({}, bytes[j]) = bytes[j]
      BY DEF Xor
    <2> HIDE DEF bytes, B, m
    <2>5. QED
      BY <1>1, <2>1, <2>2, <2>3, <2>4
  <1> HIDE DEF bytes, m
  <1>3. XorInto(FedState(k), bytes) = PaddedState(d, m, 0)
    BY <1>1, <1>2, Completes
  <1>4. QED
    BY <1>3 DEF bytes, m
-----------------------------------------------------------------------------
(* What is in the state at every moment: while absorbing, the blocks of    *)
(* the bytes taken in so far; from the padding on, the padded message and  *)
(* the permutations since, one for every R bytes of output.                *)
OrderInv == \A i \in 2..Len(todo) : todo[i].op = "blocks" => i = 2 /\ todo[1].op = "once"

AbsorbInv ==
  phase = "absorb" => /\ s = FedState(Absorbed)
                      /\ Absorbed % R = (IF Doing("once") THEN 0 ELSE pos)

Squeezed(q) == IF pos = R THEN q * R ELSE (q - 1) * R + pos

SqueezeInv ==
  phase = "squeeze" => \E q \in Nat : s = PaddedState(dom, fed, q) /\ Len(out) = Squeezed(q)

XofInv ==
  /\ OrderInv
  /\ AbsorbInv
  /\ SqueezeInv
  /\ phase # "squeeze" => out = <<>>
  /\ Doing("blocks") => pos = R

Maps == [Abstract!Next]_(Abstract!vars)

LEMMA AbsorbedType ==
  ASSUME IInv
  PROVE  /\ Absorbed \in Nat
         /\ ~Absorbing => Absorbed = fed
         /\ Absorbing => Absorbed = fed - Left /\ NextByte = Absorbed + 1 /\ Left \in Nat
         /\ phase = "absorb" => Idle \/ Absorbing
         /\ phase = "squeeze" => ~Absorbing
         /\ Absorbing => ~Idle /\ phase = "absorb"
  <1>1. ~Idle => Left \in Nat
    BY LeftType
  <1>2. Absorbing => Left <= fed /\ ~Idle /\ phase = "absorb"
    BY DEF IInv, QueueInv, Absorbing, Doing
  <1>3. fed \in Nat
    BY DEF IInv, TypeOK
  <1>4. Absorbed = IF Absorbing THEN fed - Left ELSE fed
    BY <1>3 DEF Absorbed, Absorbing
  <1>5. ~Idle => Absorbing \/ Doing("blocks") \/ Doing("squeeze")
    <2>1. ~Idle => Head(todo) \in [op : Ops, left : Nat]
      BY HeadType DEF IInv, TypeOK, Idle
    <2>2. QED
      BY <2>1 DEF Ops, Absorbing, Doing
  <1>6. phase = "absorb" => Idle \/ Absorbing
    BY <1>5 DEF IInv, QueueInv
  <1>7. QED
    BY <1>1, <1>2, <1>3, <1>4, <1>6 DEF NextByte

LEMMA InitXof == Init => XofInv /\ Abstract!Init
  BY DEF Init, XofInv, OrderInv, AbsorbInv, SqueezeInv, Abstract!Init, Absorbed, Doing, Idle

(* Zero is the state that was fed nothing.                                 *)
LEMMA ZeroFed == FedState(0) = ZeroState /\ 0 % R = 0 /\ BlocksOf(0) = 1
  <1>1. 0 \div R = 0 /\ 0 % R = 0
    <2>1. 0 = 0 * R + 0 /\ 0 < R
      BY RateAssumption
    <2>2. QED
      BY <2>1, Quotient
  <1>2. BlocksOf(0) = 1
    BY <1>1 DEF BlocksOf
  <1>3. \A j \in Offset : FedBlock(0, 1)[j] = {}
    <2> TAKE j \in Offset
    <2>1. FedBlock(0, BlocksOf(0))[j] = IF j < 0 % R THEN {0 - (0 % R) + j + 1} ELSE {}
      BY LastFed
    <2>2. ~(j < 0)
      BY RateAssumption DEF Offset
    <2>3. QED
      BY <1>1, <1>2, <2>1, <2>2
  <1>4. FedBlock(0, 1) = [j \in Offset |-> FedBlock(0, 1)[j]]
    BY DEF FedBlock
  <1>5. FedBlock(0, 1) = Zero
    BY <1>3, <1>4, Zenon DEF Zero
  <1>6. FedState(0) = [b \in 1..1 |-> Zero]
    BY <1>2, <1>5 DEF FedState
  <1>7. [b \in 1..1 |-> Zero] = <<Zero>>
    OBVIOUS
  <1>8. QED
    BY <1>1, <1>2, <1>6, <1>7 DEF ZeroState

(* The calls of the API: a fresh state restarts the abstract function, the *)
(* padding finalizes it, and a call that only begins changes nothing.      *)
LEMMA StartXof ==
  ASSUME IInv, IInv', XofInv, s' = ZeroState, fed' \in Nat, out' = <<>>, phase' = "absorb",
         Absorbed' = 0, OrderInv', ~Doing("blocks")', ~Doing("once")' => pos' = 0
  PROVE  XofInv' /\ Maps
  <1>1. AbsorbInv'
    BY ZeroFed DEF AbsorbInv
  <1>2. Abstract!Restart
    BY DEF Abstract!Restart
  <1>3. QED
    BY <1>1, <1>2 DEF XofInv, SqueezeInv, Maps, Abstract!Next

LEMMA CallXof ==
  ASSUME IInv, IInv', XofInv, NewCall
  PROVE  XofInv' /\ Maps
  <1>0. /\ Idle /\ Absorbed = fed /\ fed \in Nat /\ ~Absorbing
        /\ todo \in Seq([op : Ops, left : Nat])
    <2>1. Idle
      BY DEF NewCall, ShakeInit, ShakeFinalize, ShakeAbsorb, ShakeAbsorbOnce, ShakeOneShot,
             Sha3, AbsorbOnce, ShakeSqueeze, ShakeSqueezeBlocks
    <2>2. QED
      BY <2>1, AbsorbedType DEF IInv, TypeOK, Absorbing, Doing
  <1>1. CASE ShakeInit
    <2>1. todo' = <<>> /\ s' = ZeroState /\ out' = <<>> /\ phase' = "absorb" /\ pos' = 0 /\ fed' = 0
      BY <1>0, <1>1 DEF ShakeInit, Idle
    <2>2. Absorbed' = 0 /\ OrderInv' /\ ~Doing("blocks")'
      BY <2>1 DEF Absorbed, OrderInv, Doing, Idle
    <2>3. QED
      BY <2>1, <2>2, StartXof
  <1>2. CASE ShakeFinalize
    <2>1. /\ s = FedState(fed) /\ fed % R = pos /\ out = <<>> /\ phase = "absorb"
      BY <1>0, <1>2 DEF ShakeFinalize, XofInv, AbsorbInv, Absorbing, Doing
    <2>2. /\ s' = XorInto(s, Pad(SHAKE, pos)) /\ pos' = R /\ phase' = "squeeze"
          /\ dom' = SHAKE /\ UNCHANGED <<fed, out, todo>>
      BY <1>2 DEF ShakeFinalize
    <2>3. s' = PaddedState(dom', fed', 0)
      BY <1>0, <2>1, <2>2, PadFed DEF Pad
    <2>4. Len(out') = 0 * R
      BY <2>1, <2>2, RateAssumption
    <2>5. SqueezeInv'
      BY <2>2, <2>3, <2>4 DEF SqueezeInv, Squeezed
    <2>6. OrderInv' /\ ~Doing("blocks")' /\ Absorbed' = Absorbed
      BY <1>0, <2>2 DEF OrderInv, Doing, Idle, Absorbed
    <2>7. XofInv'
      BY <2>2, <2>5, <2>6 DEF XofInv, AbsorbInv
    <2>8. Abstract!Finalize
      BY <1>0, <2>1, <2>2, <2>6 DEF Abstract!Finalize
    <2>9. QED
      BY <2>7, <2>8 DEF Maps, Abstract!Next
  <1>3. ASSUME NEW n \in 0..MaxMsg, ShakeAbsorb(n) PROVE XofInv' /\ Maps
    <2>1. /\ s = FedState(fed) /\ fed % R = pos /\ out = <<>> /\ phase = "absorb" /\ n \in Nat
      BY <1>0, <1>3, BoundsAssumption DEF ShakeAbsorb, XofInv, AbsorbInv, Absorbing, Doing
    <2>2. /\ fed' = fed + n /\ todo' = <<Call("absorb", n)>> /\ UNCHANGED <<s, pos, phase, dom, out>>
      BY <1>3 DEF ShakeAbsorb
    <2>3. /\ Doing("absorb")' /\ ~Doing("once")' /\ ~Doing("blocks")' /\ Left' = n /\ OrderInv'
      BY <2>2 DEF Doing, Idle, Left, Call, OrderInv
    <2>4. Absorbed' = fed
      BY <1>0, <2>1, <2>2, <2>3 DEF Absorbed
    <2>5. XofInv'
      BY <2>1, <2>2, <2>3, <2>4 DEF XofInv, AbsorbInv, SqueezeInv
    <2>6. UNCHANGED Abstract!vars
      BY <1>0, <2>2, <2>4 DEF Abstract!vars
    <2>7. QED
      BY <2>5, <2>6 DEF Maps
  <1>4. ASSUME NEW n \in 0..MaxMsg, NEW d, NEW more \in Seq([op : Ops, left : Nat]),
               AbsorbOnce(n, d, more), \A i \in 2..Len(more) : more[i].op # "blocks"
        PROVE  XofInv' /\ Maps
    <2> DEFINE first == Call("once", n)
    <2>1. /\ todo' = <<first>> \o more /\ s' = ZeroState /\ out' = <<>> /\ phase' = "absorb"
          /\ fed' = n /\ n \in Nat
      BY <1>4, BoundsAssumption DEF AbsorbOnce
    <2>2. first \in [op : Ops, left : Nat] /\ first.op = "once" /\ first.left = n
      BY <2>1 DEF Call, Ops
    <2> HIDE DEF first
    <2>3. /\ Len(todo') = 1 + Len(more)
          /\ todo' \in Seq([op : Ops, left : Nat])
          /\ \A i \in 1..Len(todo') : todo'[i] = IF i = 1 THEN first ELSE more[i - 1]
      BY <2>1, <2>2
    <2>4. todo' # <<>> /\ Head(todo') = first /\ todo'[1] = first
      BY <2>3
    <2>5. OrderInv'
      <3> SUFFICES ASSUME NEW i \in 2..Len(todo'), todo'[i].op = "blocks" PROVE i = 2
        BY <2>2, <2>4 DEF OrderInv
      <3>1. i \in 1..Len(todo') /\ i # 1 /\ todo'[i] = more[i - 1]
        BY <2>3
      <3>2. i # 2 => i - 1 \in 2..Len(more)
        BY <2>3
      <3>3. QED
        BY <1>4, <3>1, <3>2
    <2>6. Doing("once")' /\ ~Doing("blocks")' /\ Left' = n
      BY <2>2, <2>4 DEF Doing, Idle, Left
    <2>7. Absorbed' = 0
      BY <2>1, <2>6 DEF Absorbed
    <2>8. QED
      BY <2>1, <2>5, <2>6, <2>7, StartXof
  <1>5. ASSUME NEW n \in 0..MaxMsg, ShakeAbsorbOnce(n) PROVE XofInv' /\ Maps
    <2>1. /\ <<>> \in Seq([op : Ops, left : Nat])
          /\ \A i \in 2..Len(<<>>) : <<>>[i].op # "blocks"
      OBVIOUS
    <2>2. AbsorbOnce(n, SHAKE, <<>>)
      BY <1>5 DEF ShakeAbsorbOnce
    <2>3. QED
      BY <1>4, <2>1, <2>2
  <1>6. ASSUME NEW n \in 0..MaxMsg, NEW m \in 0..MaxOut, ShakeOneShot(n, m) PROVE XofInv' /\ Maps
    <2> DEFINE b == Call("blocks", m \div R)
               q == Call("squeeze", m % R)
    <2>1. m \div R \in Nat /\ m % R \in Nat
      BY BoundsAssumption, RateAssumption
    <2>2. /\ b \in [op : Ops, left : Nat]
          /\ q \in [op : Ops, left : Nat] /\ q.op = "squeeze"
      BY <2>1 DEF Call, Ops
    <2>3. AbsorbOnce(n, SHAKE, <<b, q>>)
      BY <1>6 DEF ShakeOneShot
    <2> HIDE DEF b, q
    <2>4. /\ <<b, q>> \in Seq([op : Ops, left : Nat])
          /\ \A i \in 2..Len(<<b, q>>) : <<b, q>>[i].op # "blocks"
      BY <2>2
    <2>5. QED
      BY <1>4, <2>3, <2>4
  <1>7. ASSUME NEW n \in 0..MaxMsg, NEW k \in 1..2, Sha3(n, k) PROVE XofInv' /\ Maps
    <2> DEFINE b == Call("blocks", k)
    <2>1. b \in [op : Ops, left : Nat]
      BY DEF Call, Ops
    <2>2. AbsorbOnce(n, SHA3, <<b>>)
      BY <1>7 DEF Sha3
    <2> HIDE DEF b
    <2>3. /\ <<b>> \in Seq([op : Ops, left : Nat])
          /\ \A i \in 2..Len(<<b>>) : <<b>>[i].op # "blocks"
      BY <2>1
    <2>4. QED
      BY <1>4, <2>2, <2>3
  <1>8. ASSUME NEW n \in 1..MaxOut, ShakeSqueeze(n) \/ ShakeSqueezeBlocks(n) PROVE XofInv' /\ Maps
    <2>1. /\ phase = "squeeze" /\ UNCHANGED <<s, pos, phase, dom, fed, out>>
          /\ \/ todo' = <<Call("squeeze", n)>>
             \/ todo' = <<Call("blocks", n)>> /\ pos = R
      BY <1>8 DEF ShakeSqueeze, ShakeSqueezeBlocks
    <2>2. OrderInv' /\ ~Doing("absorb")' /\ ~Doing("once")' /\ (Doing("blocks")' => pos' = R)
      BY <2>1 DEF OrderInv, Doing, Idle, Call
    <2>3. Absorbed' = Absorbed
      BY <1>0, <2>1, <2>2 DEF Absorbed
    <2>4. XofInv'
      BY <2>1, <2>2 DEF XofInv, AbsorbInv, SqueezeInv, Squeezed
    <2>5. UNCHANGED Abstract!vars
      BY <2>1, <2>3 DEF Abstract!vars
    <2>6. QED
      BY <2>4, <2>5 DEF Maps
  <1>9. QED
    BY <1>1, <1>2, <1>3, <1>5, <1>6, <1>7, <1>8 DEF NewCall

(* What a step that goes on with, or returns from, the function at the     *)
(* head of todo leaves to be done.                                         *)
LEMMA KeepOrder ==
  ASSUME IInv, OrderInv, ~Idle, NEW n \in Nat, Keep(n)
  PROVE  /\ OrderInv' /\ Left' = n
         /\ Doing("absorb")' <=> Doing("absorb")
         /\ Doing("once")' <=> Doing("once")
         /\ Doing("blocks")' <=> Doing("blocks")
  <1>1. /\ todo' # <<>> /\ Len(todo') = Len(todo) /\ Head(todo').op = Head(todo).op
        /\ Head(todo').left = n /\ \A i \in 2..Len(todo) : todo'[i] = todo[i]
        /\ todo' \in Seq([op : Ops, left : Nat])
    BY KeepQueue DEF IInv
  <1>2. todo \in Seq([op : Ops, left : Nat]) /\ todo # <<>>
    BY DEF IInv, TypeOK, Idle
  <1>3. Head(todo') = todo'[1] /\ Head(todo) = todo[1]
    BY <1>1, <1>2
  <1>4. OrderInv'
    BY <1>1, <1>3 DEF OrderInv
  <1>5. QED
    BY <1>1, <1>2, <1>4 DEF Doing, Idle, Left

LEMMA ReturnOrder ==
  ASSUME IInv, OrderInv, ~Idle, Return
  PROVE  /\ OrderInv' /\ ~Doing("absorb")' /\ ~Doing("once")'
         /\ Doing("blocks")' => Doing("once")
  <1>1. todo \in Seq([op : Ops, left : Nat]) /\ todo # <<>> /\ Head(todo) = todo[1]
    BY DEF IInv, TypeOK, Idle
  <1>2. /\ todo' \in Seq([op : Ops, left : Nat])
        /\ Len(todo') = Len(todo) - 1
        /\ \A i \in 1..Len(todo') : todo'[i].op \in {"blocks", "squeeze"}
    BY ReturnQueue DEF IInv
  <1>3. \A i \in 1..Len(todo') : i + 1 \in 2..Len(todo) /\ todo'[i] = todo[i + 1]
    BY <1>1, <1>2 DEF Return
  <1>4. OrderInv'
    <2> SUFFICES ASSUME NEW i \in 2..Len(todo'), todo'[i].op = "blocks" PROVE FALSE
      BY DEF OrderInv
    <2>1. i \in 1..Len(todo') /\ i + 1 # 2
      BY <1>2
    <2>2. i + 1 \in 2..Len(todo) /\ todo[i + 1].op = "blocks"
      BY <1>3, <2>1
    <2>3. QED
      BY <2>1, <2>2 DEF OrderInv
  <1>5. ASSUME todo' # <<>>
        PROVE  /\ Head(todo').op \in {"blocks", "squeeze"}
               /\ Head(todo').op = "blocks" => Head(todo).op = "once"
    <2>1. 1 \in 1..Len(todo') /\ Head(todo') = todo'[1]
      BY <1>2, <1>5
    <2>2. todo'[1] = todo[2] /\ 2 \in 2..Len(todo)
      BY <1>3, <2>1
    <2>3. QED
      BY <1>1, <1>2, <2>1, <2>2 DEF OrderInv
  <1>6. QED
    BY <1>1, <1>4, <1>5 DEF Doing, Idle

(* An iteration of the absorbing loops takes bytes in; the last of them    *)
(* completes the padded message.                                           *)
LEMMA AbsorbXof ==
  ASSUME IInv, IInv', XofInv, AbsorbBlock \/ AbsorbTail \/ OnceBlock \/ OnceTail
  PROVE  XofInv' /\ Maps
  <1> DEFINE a == Absorbed
  <1>1. Absorbing
    BY DEF AbsorbBlock, AbsorbTail, OnceBlock, OnceTail, Absorbing
  <1>2. /\ a \in Nat /\ Left \in Nat /\ fed \in Nat /\ a = fed - Left /\ NextByte = a + 1
        /\ ~Idle /\ phase = "absorb" /\ out = <<>> /\ s = FedState(a) /\ OrderInv
        /\ a % R = (IF Doing("once") THEN 0 ELSE pos) /\ ~Doing("blocks")
    BY <1>1, AbsorbedType DEF IInv, TypeOK, XofInv, AbsorbInv, QueueInv
  <1>3. pos \in Nat /\ (Doing("absorb") => pos < R) /\ (Doing("once") <=> ~Doing("absorb"))
    BY <1>1, RateAssumption DEF IInv, TypeOK, QueueInv, Absorbing, Doing
  <1> HIDE DEF a
  <1>4. ASSUME NEW n \in Nat, n > 0, Left - n \in Nat, Keep(Left - n), s' = FedState(a + n),
               (a + n) % R = (IF Doing("once") THEN 0 ELSE pos'), UNCHANGED <<phase, dom, fed, out>>
        PROVE  XofInv' /\ Maps
    <2>1. /\ OrderInv' /\ Left' = Left - n /\ ~Doing("blocks")'
          /\ Doing("absorb")' <=> Doing("absorb")
          /\ Doing("once")' <=> Doing("once")
      BY <1>2, <1>4, KeepOrder
    <2>2. Absorbed' = a + n
      BY <1>1, <1>2, <1>4, <2>1 DEF Absorbed, Absorbing
    <2>3. XofInv'
      BY <1>2, <1>4, <2>1, <2>2 DEF XofInv, AbsorbInv, SqueezeInv
    <2>4. Abstract!Absorb
      BY <1>2, <1>4, <2>2 DEF Abstract!Absorb, a
    <2>5. QED
      BY <2>3, <2>4 DEF Maps, Abstract!Next
  <1>5. CASE AbsorbBlock
    <2> DEFINE n == R - pos
    <2>1. /\ Doing("absorb") /\ Keep(Left - n) /\ pos' = 0 /\ UNCHANGED <<phase, dom, fed, out>>
          /\ pos + Left >= R /\ s' = Permute(XorInto(FedState(a), Bytes(a + 1, pos, n)))
      BY <1>2, <1>5 DEF AbsorbBlock, BlockFull
    <2>2. n \in Nat /\ n > 0 /\ Left - n \in Nat /\ a % R = pos /\ ~Doing("once")
      BY <1>2, <1>3, <2>1, RateAssumption
    <2>3. s' = FedState(a + n)
      BY <1>2, <2>1, <2>2, FeedBlock
    <2>4. (a + n) % R = 0
      BY <1>2, <2>2, BlockFilled
    <2> HIDE DEF n
    <2>5. QED
      BY <1>4, <2>1, <2>2, <2>3, <2>4
  <1>6. CASE AbsorbTail
    <2>1. /\ Doing("absorb") /\ Return /\ pos' = pos + Left /\ UNCHANGED <<phase, dom, fed, out>>
          /\ ~(pos + Left >= R) /\ s' = XorInto(FedState(a), Bytes(a + 1, pos, Left))
      BY <1>2, <1>6 DEF AbsorbTail, BlockFull
    <2>2. pos + Left < R /\ a % R = pos /\ ~Doing("once") /\ a + Left = fed
      BY <1>2, <1>3, <2>1, RateAssumption
    <2>3. s' = FedState(a + Left)
      BY <1>2, <2>1, <2>2, FeedSome
    <2>4. (a + Left) % R = pos + Left
      BY <1>2, <1>3, <2>2, RoomLeft
    <2>5. OrderInv' /\ ~Doing("absorb")' /\ ~Doing("once")' /\ ~Doing("blocks")'
      BY <1>2, <2>1, <2>2, ReturnOrder
    <2>6. Absorbed' = fed
      BY <1>2, <2>1, <2>5 DEF Absorbed
    <2>7. XofInv'
      BY <1>2, <2>1, <2>2, <2>3, <2>4, <2>5, <2>6 DEF XofInv, AbsorbInv, SqueezeInv
    <2>8. CASE Left = 0
      <3>1. Absorbed' = Absorbed
        BY <1>2, <2>2, <2>6, <2>8 DEF a
      <3>2. UNCHANGED Abstract!vars
        BY <2>1, <3>1 DEF Abstract!vars
      <3>3. QED
        BY <2>7, <3>2 DEF Maps
    <2>9. CASE Left > 0
      <3>1. Absorbed' > Absorbed
        BY <1>2, <2>2, <2>6, <2>9 DEF a
      <3>2. Abstract!Absorb
        BY <1>2, <2>1, <3>1 DEF Abstract!Absorb
      <3>3. QED
        BY <2>7, <3>2 DEF Maps, Abstract!Next
    <2>10. QED
      BY <1>2, <2>8, <2>9
  <1>7. CASE OnceBlock
    <2>1. /\ Doing("once") /\ Keep(Left - R) /\ UNCHANGED <<phase, dom, fed, out>>
          /\ Left >= R /\ s' = Permute(XorInto(FedState(a), Bytes(a + 1, 0, R)))
      BY <1>2, <1>7 DEF OnceBlock
    <2>2. R \in Nat /\ R > 0 /\ Left - R \in Nat /\ a % R = 0 /\ R - 0 = R
      BY <1>2, <2>1, RateAssumption
    <2>3. s' = FedState(a + R)
      <3>1. Permute(XorInto(FedState(a), Bytes(a + 1, a % R, R - (a % R)))) = FedState(a + (R - (a % R)))
        BY <1>2, FeedBlock
      <3>2. QED
        BY <2>1, <2>2, <3>1
    <2>4. (a + R) % R = 0
      <3>1. (a + (R - (a % R))) % R = 0
        BY <1>2, BlockFilled
      <3>2. QED
        BY <2>2, <3>1
    <2>5. QED
      BY <1>4, <2>1, <2>2, <2>3, <2>4
  <1>8. CASE OnceTail
    <2>1. /\ Doing("once") /\ Return /\ pos' = R /\ phase' = "squeeze" /\ UNCHANGED <<dom, fed, out>>
          /\ Left < R /\ s' = XorInto(FedState(a), LastBlock(dom, a + 1, Left))
      BY <1>2, <1>8 DEF OnceTail
    <2>2. a % R = 0 /\ a + Left = fed
      BY <1>2, <2>1
    <2>3. s' = PaddedState(dom', fed', 0)
      BY <1>2, <2>1, <2>2, LastBlockFed
    <2>4. OrderInv' /\ ~Doing("absorb")' /\ ~Doing("once")'
      BY <1>2, <2>1, ReturnOrder
    <2>5. Absorbed' = fed
      BY <1>2, <2>1, <2>4 DEF Absorbed
    <2>6. Len(out') = 0 * R
      BY <1>2, <2>1, RateAssumption
    <2>7. XofInv'
      BY <2>1, <2>3, <2>4, <2>6 DEF XofInv, AbsorbInv, SqueezeInv, Squeezed
    <2>8. Absorbed' >= Absorbed
      BY <1>2, <2>2, <2>5 DEF a
    <2>9. Abstract!Finalize
      BY <1>2, <2>1, <2>8 DEF Abstract!Finalize
    <2>10. QED
      BY <2>7, <2>9 DEF Maps, Abstract!Next
  <1>9. QED
    BY <1>5, <1>6, <1>7, <1>8

(* Bytes from..to-1 of block q after the padding are the bytes from        *)
(* (q-1)*R + from on of the function's output.                             *)
LEMMA ReadIsXof ==
  ASSUME NEW d, NEW m, NEW q \in Nat \ {0}, NEW from \in Nat, NEW to \in Nat,
         from <= to, to <= R, NEW k, k = (q - 1) * R + from
  PROVE  Read(PaddedState(d, m, q), from, to) = [i \in 1..(to - from) |-> XofByte(d, m, k + i - 1)]
  <1>1. \A i \in 1..(to - from) : XofByte(d, m, k + i - 1) = OutByte(PaddedState(d, m, q), from + i - 1)
    <2> TAKE i \in 1..(to - from)
    <2> DEFINE w == k + i - 1
               r == from + i - 1
    <2>1. r \in Nat /\ r < R /\ q - 1 \in Nat /\ (q - 1) * R \in Nat
      BY RateAssumption
    <2>2. w \in Nat /\ w = (q - 1) * R + r
      BY <2>1, RateAssumption
    <2> HIDE DEF w, r
    <2>3. w \div R = q - 1 /\ w % R = r
      BY <2>1, <2>2, Quotient
    <2>4. (q - 1) + 1 = q
      OBVIOUS
    <2>5. XofByte(d, m, w) = OutByte(PaddedState(d, m, q), r)
      BY <2>3, <2>4 DEF XofByte
    <2>6. QED
      BY <2>5 DEF w, r
  <1>2. QED
    BY <1>1 DEF Read

LEMMA SqueezeXof ==
  ASSUME IInv, IInv', XofInv, SqueezeSome \/ SqueezeBlock \/ SqueezeReturn
  PROVE  XofInv' /\ Maps
  <1>1. /\ phase = "squeeze" /\ ~Absorbing /\ Absorbed = fed /\ ~Idle
        /\ ~Doing("once") /\ ~Doing("absorb") /\ OrderInv /\ pos \in 0..R /\ Left \in Nat
        /\ fed \in Nat /\ out \in Seq(Seq(Block) \X Offset)
    <2>1. Doing("blocks") \/ Doing("squeeze")
      BY DEF SqueezeSome, SqueezeBlock, SqueezeReturn
    <2>2. phase = "squeeze" /\ ~Idle
      BY <2>1 DEF IInv, QueueInv, Doing
    <2>3. QED
      BY <2>2, AbsorbedType, LeftType DEF IInv, TypeOK, XofInv, Absorbing
  <1>2. PICK q \in Nat : s = PaddedState(dom, fed, q) /\ Len(out) = Squeezed(q)
    BY <1>1 DEF XofInv, SqueezeInv
  <1>3. ASSUME NEW p \in Nat \ {0}, NEW from \in Nat, NEW to \in 0..R, from < to,
               Len(out) = (p - 1) * R + from, s' = PaddedState(dom, fed, p),
               out' = out \o Read(PaddedState(dom, fed, p), from, to), pos' = to,
               NEW left \in Nat, Keep(left), UNCHANGED <<phase, dom, fed>>,
               Doing("blocks") => to = R
        PROVE  XofInv' /\ Maps
    <2> DEFINE n    == to - from
               k    == Len(out)
               more == [i \in 1..n |-> XofByte(dom, fed, k + i - 1)]
    <2>1. n \in Nat /\ to \in Nat /\ to <= R /\ k \in Nat
      BY <1>1, <1>3, RateAssumption
    <2>2. Read(PaddedState(dom, fed, p), from, to) = more
      BY <1>3, <2>1, ReadIsXof
    <2>3. Len(more) = n /\ out' \in Seq(Seq(Block) \X Offset)
      BY <2>1 DEF IInv, TypeOK
    <2>4. out' = out \o more
      BY <1>3, <2>2
    <2>5. Len(out') = k + n
      <3>1. more \in Seq(Seq(Block) \X Offset)
        <4>1. s' \in Seq(Block) /\ from <= to
          BY <1>3, <2>1 DEF IInv, TypeOK
        <4> HIDE DEF more, n
        <4>2. QED
          BY <1>3, <2>2, <4>1, ReadType
      <3> HIDE DEF more, n
      <3>2. Len(out \o more) = Len(out) + Len(more)
        BY <1>1, <3>1, ConcatProperties, Zenon
      <3>3. QED
        BY <2>3, <2>4, <3>2
    <2>6. Len(out') = (p - 1) * R + to
      <3>1. (p - 1) * R \in Nat
        BY RateAssumption
      <3>2. QED
        BY <1>3, <2>1, <2>5, <3>1
    <2>7. Len(out') = Squeezed(p)'
      <3>1. to = R => (p - 1) * R + to = p * R
        BY RateAssumption
      <3>2. QED
        BY <1>3, <2>6, <3>1 DEF Squeezed
    <2>8. /\ OrderInv' /\ ~Doing("absorb")' /\ ~Doing("once")'
          /\ Doing("blocks")' => Doing("blocks")
      BY <1>1, <1>3, KeepOrder
    <2>9. Absorbed' = Absorbed
      BY <1>1, <1>3, <2>8 DEF Absorbed
    <2>10. SqueezeInv'
      BY <1>3, <2>7 DEF SqueezeInv
    <2>11. XofInv'
      BY <1>1, <1>3, <2>8, <2>10 DEF XofInv, AbsorbInv
    <2>12. Abstract!Squeeze
      <3>1. n \in 0..(Len(out') - Len(out))
        BY <2>1, <2>5
      <3>2. out' = out \o [i \in 1..n |-> XofByte(dom, Absorbed, Len(out) + i - 1)]
        BY <1>1, <2>4
      <3> HIDE DEF n
      <3>3. QED
        BY <1>1, <1>3, <2>9, <3>1, <3>2 DEF Abstract!Squeeze
    <2>13. QED
      BY <2>11, <2>12 DEF Maps, Abstract!Next
  <1>4. CASE SqueezeSome
    <2> DEFINE from == SqueezeStart
               to   == SqueezeEnd(from)
               st   == IF pos = R THEN Permute(s) ELSE s
    <2>1. /\ s' = st /\ out' = out \o Read(st, from, to) /\ pos' = to
          /\ Keep(Left - (to - from)) /\ UNCHANGED <<phase, dom, fed>> /\ Left > 0
          /\ ~Doing("blocks")
      BY <1>4 DEF SqueezeSome, Doing
    <2>2. from \in Nat /\ from < R /\ from = (IF pos = R THEN 0 ELSE pos)
      BY <1>1, RateAssumption DEF SqueezeStart
    <2>3. to \in 0..R /\ from < to /\ Left - (to - from) \in Nat
      BY <1>1, <2>1, <2>2, RateAssumption DEF SqueezeEnd
    <2>4. PICK p \in Nat \ {0} : st = PaddedState(dom, fed, p) /\ Len(out) = (p - 1) * R + from
      <3>1. CASE pos = R
        <4>1. st = PaddedState(dom, fed, q + 1)
          BY <1>1, <1>2, <3>1, PermutePadded
        <4>2. Len(out) = ((q + 1) - 1) * R + from
          <5>1. q * R \in Nat /\ (q + 1) - 1 = q
            BY RateAssumption
          <5>2. QED
            BY <1>2, <2>2, <3>1, <5>1 DEF Squeezed
        <4> HIDE DEF st, from
        <4>3. QED
          BY <4>1, <4>2
      <3>2. CASE pos # R
        <4>1. q # 0
          <5>1. ASSUME q = 0 PROVE FALSE
            <6>1. (q - 1) * R = -R
              BY <5>1, RateAssumption
            <6>2. Len(out) \in Nat /\ Len(out) = -R + pos
              BY <1>1, <1>2, <3>2, <6>1 DEF Squeezed
            <6>3. QED
              BY <6>2, <1>1, <3>2, RateAssumption
          <5>2. QED
            BY <5>1
        <4>2. st = PaddedState(dom, fed, q) /\ Len(out) = (q - 1) * R + from
          BY <1>2, <2>2, <3>2 DEF Squeezed
        <4> HIDE DEF st, from
        <4>3. QED
          BY <4>1, <4>2
      <3>3. QED
        BY <3>1, <3>2
    <2> HIDE DEF from, to, st
    <2>5. QED
      BY <1>3, <2>1, <2>2, <2>3, <2>4
  <1>5. CASE SqueezeBlock
    <2>1. /\ s' = Permute(s) /\ out' = out \o Read(Permute(s), 0, R) /\ Keep(Left - 1)
          /\ UNCHANGED <<pos, phase, dom, fed>> /\ Left > 0 /\ pos = R
      BY <1>5 DEF SqueezeBlock, XofInv
    <2>2. s' = PaddedState(dom, fed, q + 1) /\ Permute(s) = PaddedState(dom, fed, q + 1)
      BY <1>1, <1>2, <2>1, PermutePadded
    <2>3. Len(out) = ((q + 1) - 1) * R + 0
      <3>1. q * R \in Nat /\ (q + 1) - 1 = q
        BY RateAssumption
      <3>2. QED
        BY <1>2, <2>1, <3>1 DEF Squeezed
    <2>4. q + 1 \in Nat \ {0} /\ Left - 1 \in Nat /\ 0 < R /\ R \in 0..R /\ 0 \in Nat
      BY <1>1, <2>1, RateAssumption
    <2>5. out' = out \o Read(PaddedState(dom, fed, q + 1), 0, R) /\ pos' = R
      BY <2>1, <2>2
    <2>6. QED
      BY <1>3, <2>1, <2>2, <2>3, <2>4, <2>5
  <1>6. CASE SqueezeReturn
    <2>1. Return /\ UNCHANGED <<s, pos, phase, dom, fed, out>>
      BY <1>6 DEF SqueezeReturn
    <2>2. OrderInv' /\ ~Doing("absorb")' /\ ~Doing("once")' /\ ~Doing("blocks")'
      BY <1>1, <2>1, ReturnOrder
    <2>3. Absorbed' = Absorbed
      BY <1>1, <2>1, <2>2 DEF Absorbed
    <2>4. XofInv'
      BY <1>1, <2>1, <2>2 DEF XofInv, AbsorbInv, SqueezeInv, Squeezed
    <2>5. UNCHANGED Abstract!vars
      BY <2>1, <2>3 DEF Abstract!vars
    <2>6. QED
      BY <2>4, <2>5 DEF Maps
  <1>7. QED
    BY <1>4, <1>5, <1>6

(* For every rate, every length and every sequence of calls: the output is *)
(* that of the XOF of the whole message, however the calls cut it.         *)
THEOREM ComputesXOF == Spec => ImplementsXOF
  <1>1. IInv /\ IInv' /\ XofInv /\ [Next]_vars => XofInv' /\ Maps
    <2>1. ASSUME IInv, IInv', XofInv, Run PROVE XofInv' /\ Maps
      BY <2>1, AbsorbXof, SqueezeXof DEF Run
    <2>2. ASSUME IInv, IInv', XofInv, UNCHANGED vars PROVE XofInv' /\ Maps
      <3>1. XofInv'
        BY <2>2 DEF vars, XofInv, OrderInv, AbsorbInv, SqueezeInv, Squeezed, Absorbed, Doing, Idle, Left
      <3>2. UNCHANGED Abstract!vars
        BY <2>2 DEF vars, Abstract!vars, Absorbed, Doing, Idle, Left
      <3>3. QED
        BY <3>1, <3>2 DEF Maps
    <2>3. QED
      BY <2>1, <2>2, CallXof DEF Next
  <1>2. Spec => []XofInv
    BY InitXof, <1>1, Invariance, PTL DEF Spec
  <1>3. Spec => Abstract!Init /\ [][Maps]_(Abstract!vars)
    BY InitXof, <1>1, <1>2, Invariance, PTL DEF Spec
  <1>4. Maps => [Abstract!Next]_(Abstract!vars)
    BY DEF Maps
  <1>5. QED
    BY <1>3, <1>4, PTL DEF ImplementsXOF, Abstract!Spec
-----------------------------------------------------------------------------
(* The counter interface works on the same sponge.                         *)
LEMMA SameData ==
  /\ Inc!ZeroState = ZeroState /\ Inc!SHAKE = SHAKE /\ Inc!LAST = LAST
  /\ \A first, p, n : Inc!Bytes(first, p, n) = Bytes(first, p, n)
  /\ \A st, i : Inc!OutByte(st, i) = OutByte(st, i)
  BY DEF Inc!ZeroState, ZeroState, Inc!Zero, Zero, Inc!Offset, Offset, Inc!SHAKE, SHAKE,
         Inc!LAST, LAST, Inc!Bytes, Bytes, Inc!OutByte, OutByte

LEMMA SamePermute == ASSUME NEW st PROVE Inc!Permute(st) = Permute(st)
  BY DEF Inc!Permute, Permute, Inc!Zero, Zero, Inc!Offset, Offset

LEMMA SameXor == ASSUME NEW st, NEW bytes PROVE Inc!XorInto(st, bytes) = XorInto(st, bytes)
  BY DEF Inc!XorInto, XorInto, Inc!Xor, Xor, Inc!Offset, Offset

LEMMA SameReference ==
  ASSUME NEW d, NEW m, NEW k
  PROVE  Inc!XofByte(d, m, k) = XofByte(d, m, k)
  <1>1. \A b : Inc!PaddedBlock(d, m, b) = PaddedBlock(d, m, b)
    BY DEF Inc!PaddedBlock, PaddedBlock, Inc!BlocksOf, BlocksOf, Inc!Offset, Offset, Inc!LAST, LAST
  <1>2. \A q : Inc!PaddedState(d, m, q) = PaddedState(d, m, q)
    BY <1>1, Zenon DEF Inc!PaddedState, PaddedState, Inc!BlocksOf, BlocksOf,
                       Inc!Zero, Zero, Inc!Offset, Offset
  <1>3. QED
    BY <1>2 DEF Inc!XofByte, XofByte, Inc!OutByte, OutByte

(* The invariant: the counter is the number of bytes in the block, then of *)
(* bytes left to squeeze, and never a whole block of either.               *)
IncInv ==
  /\ fedInc \in Nat /\ count \in Nat /\ outInc \in Seq(Seq(Block) \X Offset)
  /\ call \in [op : {"none", "absorb", "squeeze"}, left : Nat]
  /\ phaseInc \in {"raw", "absorb", "squeeze"}
  /\ call.op = "absorb" => phaseInc = "absorb" /\ call.left <= fedInc
  /\ call.op = "squeeze" => phaseInc = "squeeze" /\ count = 0 /\ call.left > 0
  /\ phaseInc # "squeeze" => outInc = <<>>
  /\ phaseInc = "absorb" => sInc = FedState(Inc!Absorbed) /\ count = Inc!Absorbed % R
  /\ phaseInc = "squeeze" =>
       /\ count < R
       /\ \E q \in Nat : sInc = PaddedState(SHAKE, fedInc, q) /\ Len(outInc) = q * R - count

IncMaps == [Inc!Abstract!Next]_(Inc!Abstract!vars)

LEMMA CounterHolds ==
  ASSUME NEW n \in Nat, n <= R
  PROVE  Inc!Counter(n) = n
  <1>1. CounterMax \in Nat /\ n < CounterMax + 1
    BY CounterAssumption, RateAssumption
  <1>2. QED
    BY <1>1 DEF Inc!Counter

LEMMA IncInit == Inc!Init => IncInv /\ Inc!Abstract!Init
  <1> SUFFICES ASSUME Inc!Init PROVE IncInv /\ Inc!Abstract!Init
    OBVIOUS
  <1>1. IncInv
    BY CounterAssumption DEF Inc!Init, Inc!NoCall, IncInv
  <1>2. Inc!Abstract!Init
    BY DEF Inc!Init, Inc!NoCall, Inc!Abstract!Init, Inc!Absorbed
  <1>3. QED
    BY <1>1, <1>2

LEMMA IncAbsorbedType ==
  ASSUME IncInv
  PROVE  /\ Inc!Absorbed \in Nat /\ call.left \in Nat
         /\ call.op # "absorb" => Inc!Absorbed = fedInc
         /\ call.op = "absorb" => Inc!Absorbed = fedInc - call.left /\ Inc!NextByte = Inc!Absorbed + 1
  BY DEF IncInv, Inc!Absorbed, Inc!Left, Inc!NextByte

LEMMA IncAbsorbSteps ==
  ASSUME IncInv, Inc!IncAbsorbBlock \/ Inc!IncAbsorbTail
  PROVE  IncInv' /\ IncMaps
  <1> DEFINE a == Inc!Absorbed
             left == call.left
  <1>1. /\ call.op = "absorb" /\ phaseInc = "absorb" /\ left <= fedInc /\ outInc = <<>>
        /\ a \in Nat /\ left \in Nat /\ fedInc \in Nat /\ a = fedInc - left /\ Inc!NextByte = a + 1
        /\ sInc = FedState(a) /\ count = a % R /\ count \in Nat /\ count < R
    BY IncAbsorbedType, Divide DEF IncInv, Inc!IncAbsorbBlock, Inc!IncAbsorbTail
  <1> HIDE DEF a, left
  <1>2. CASE Inc!IncAbsorbBlock
    <2> DEFINE n == R - count
    <2>1. /\ sInc' = Permute(XorInto(FedState(a), Bytes(a + 1, count, n)))
          /\ call' = [op |-> "absorb", left |-> left - n] /\ count' = 0
          /\ UNCHANGED <<phaseInc, fedInc, outInc>> /\ left + count >= R
      BY <1>1, <1>2, SameData, SamePermute, SameXor, Zenon
      DEF Inc!IncAbsorbBlock, Inc!BlockFull, Inc!Left, Inc!Call, left
    <2>2. n \in Nat /\ n > 0 /\ left - n \in Nat /\ left - n <= fedInc
      BY <1>1, <2>1, RateAssumption
    <2>3. sInc' = FedState(a + n) /\ (a + n) % R = 0
      BY <1>1, <2>1, FeedBlock, BlockFilled
    <2> HIDE DEF n
    <2>4. Inc!Absorbed' = a + n
      BY <1>1, <2>1, <2>2 DEF Inc!Absorbed, Inc!Left
    <2>5. IncInv'
      BY <1>1, <2>1, <2>2, <2>3, <2>4 DEF IncInv
    <2>6. Inc!Abstract!Absorb
      BY <1>1, <2>1, <2>2, <2>4 DEF Inc!Abstract!Absorb, a
    <2>7. QED
      BY <2>5, <2>6 DEF IncMaps, Inc!Abstract!Next
  <1>3. CASE Inc!IncAbsorbTail
    <2>1. /\ sInc' = XorInto(FedState(a), Bytes(a + 1, count, left))
          /\ call' = [op |-> "none", left |-> 0] /\ count' = Inc!Counter(count + left)
          /\ UNCHANGED <<phaseInc, fedInc, outInc>> /\ ~(left + count >= R)
      BY <1>1, <1>3, SameData, SameXor, Zenon
      DEF Inc!IncAbsorbTail, Inc!BlockFull, Inc!Left, Inc!NoCall, left
    <2>2. count + left \in Nat /\ count + left < R /\ a + left = fedInc
      BY <1>1, <2>1, RateAssumption
    <2>3. sInc' = FedState(a + left) /\ (a + left) % R = count + left
      BY <1>1, <2>1, <2>2, FeedSome, RoomLeft
    <2>4. count' = count + left
      BY <2>1, <2>2, CounterHolds, RateAssumption
    <2>5. Inc!Absorbed' = fedInc
      BY <1>1, <2>1 DEF Inc!Absorbed
    <2>6. IncInv'
      BY <1>1, <2>1, <2>2, <2>3, <2>4, <2>5 DEF IncInv
    <2>7. CASE left = 0
      <3>1. Inc!Absorbed' = Inc!Absorbed
        BY <1>1, <2>5, <2>7 DEF a
      <3>2. UNCHANGED Inc!Abstract!vars
        BY <2>1, <3>1, SameData DEF Inc!Abstract!vars
      <3>3. QED
        BY <2>6, <3>2 DEF IncMaps
    <2>8. CASE left > 0
      <3>1. Inc!Absorbed' > Inc!Absorbed
        BY <1>1, <2>5, <2>8 DEF a
      <3>2. Inc!Abstract!Absorb
        BY <1>1, <2>1, <3>1 DEF Inc!Abstract!Absorb
      <3>3. QED
        BY <2>6, <3>2 DEF IncMaps, Inc!Abstract!Next
    <2>9. QED
      BY <1>1, <2>7, <2>8
  <1>4. QED
    BY <1>2, <1>3

(* The bytes a squeezing step reads, and the counter it leaves.            *)
LEMMA IncReads ==
  ASSUME IncInv, phaseInc = "squeeze", NEW p \in Nat, NEW from \in Nat, NEW n \in Nat,
         from + n <= R, p = 0 => n = 0, Len(outInc) = (p - 1) * R + from,
         sInc' = PaddedState(SHAKE, fedInc, p),
         outInc' = outInc \o Inc!Read(PaddedState(SHAKE, fedInc, p), from, n),
         count' = R - (from + n), from + n > 0, UNCHANGED <<phaseInc, fedInc>>,
         call' \in [op : {"none", "squeeze"}, left : Nat],
         call'.op = "squeeze" => count' = 0 /\ call'.left > 0
  PROVE  IncInv' /\ IncMaps
  <1> DEFINE k    == Len(outInc)
             st   == PaddedState(SHAKE, fedInc, p)
             more == [i \in 1..n |-> XofByte(SHAKE, fedInc, k + i - 1)]
  <1>1. from + n \in Nat /\ (from + n) - from = n /\ fedInc \in Nat
    BY DEF IncInv
  <1>2. Inc!Read(st, from, n) = Read(st, from, from + n)
    BY <1>1, SameData DEF Inc!Read, Read
  <1>3. Read(st, from, from + n) = more
    <2>1. CASE p = 0
      BY <1>1, <2>1 DEF Read
    <2>2. CASE p # 0
      <3>1. p \in Nat \ {0} /\ from <= from + n
        BY <2>2
      <3> HIDE DEF k
      <3>2. k = (p - 1) * R + from
        BY DEF k
      <3>3. Read(st, from, from + n) = [i \in 1..((from + n) - from) |-> XofByte(SHAKE, fedInc, k + i - 1)]
        BY <1>1, <3>1, <3>2, ReadIsXof
      <3>4. QED
        BY <1>1, <3>3
    <2>3. QED
      BY <2>1, <2>2
  <1>4. more \in Seq(Seq(Block) \X Offset)
    <2>1. st \in Seq(Block)
      BY <1>1, PaddedType DEF Domain
    <2>2. from + n \in 0..R /\ from <= from + n
      BY <1>1, RateAssumption
    <2> HIDE DEF more, st
    <2>3. QED
      BY <1>3, <2>1, <2>2, ReadType
  <1>5. Len(more) = n
    OBVIOUS
  <1>6. outInc' = outInc \o more
    BY <1>2, <1>3
  <1> HIDE DEF more, st
  <1>7. outInc' \in Seq(Seq(Block) \X Offset) /\ Len(outInc') = k + n
    <2>1. outInc \in Seq(Seq(Block) \X Offset)
      BY DEF IncInv
    <2> HIDE DEF k
    <2>2. outInc \o more \in Seq(Seq(Block) \X Offset)
          /\ Len(outInc \o more) = Len(outInc) + Len(more)
      BY <2>1, <1>4, ConcatProperties, Zenon
    <2>3. QED
      BY <1>5, <1>6, <2>2 DEF k
  <1>8. Len(outInc') = p * R - count'
    <2>1. (p - 1) * R = p * R - R /\ p * R \in Nat
      BY RateAssumption
    <2>2. QED
      BY <1>1, <1>7, <2>1, RateAssumption
  <1>9. count' \in Nat /\ count' < R
    BY <1>1, RateAssumption
  <1>10. call'.op \in {"none", "squeeze"} /\ call' \in [op : {"none", "absorb", "squeeze"}, left : Nat]
    OBVIOUS
  <1>11. IncInv'
    BY <1>1, <1>7, <1>8, <1>9, <1>10 DEF IncInv, st
  <1>12. Inc!Absorbed = fedInc /\ Inc!Absorbed' = fedInc
    <2>1. call.op # "absorb"
      BY DEF IncInv
    <2>2. QED
      BY <1>1, <1>10, <2>1 DEF Inc!Absorbed
  <1>13. Inc!Abstract!Squeeze
    <2>1. n \in 0..(Len(outInc') - Len(outInc))
      BY <1>7 DEF IncInv
    <2>2. outInc' = outInc \o [i \in 1..n |-> Inc!XofByte(Inc!SHAKE, Inc!Absorbed, Len(outInc) + i - 1)]
      BY <1>6, <1>12, SameReference, SameData DEF more
    <2>3. QED
      BY <1>12, <2>1, <2>2 DEF Inc!Abstract!Squeeze
  <1>14. QED
    BY <1>11, <1>13 DEF IncMaps, Inc!Abstract!Next

LEMMA IncSteps ==
  ASSUME IncInv, Inc!Next
  PROVE  IncInv' /\ IncMaps
  <1>1. CASE Inc!IncAbsorbBlock \/ Inc!IncAbsorbTail
    BY <1>1, IncAbsorbSteps
  <1>2. CASE Inc!IncInit
    <2>1. /\ sInc' = ZeroState /\ count' = 0 /\ phaseInc' = "absorb" /\ fedInc' = 0 /\ outInc' = <<>>
          /\ call' = call /\ call.op = "none"
      BY <1>2, SameData DEF Inc!IncInit, Inc!Idle
    <2>2. Inc!Absorbed' = 0
      BY <2>1 DEF Inc!Absorbed
    <2>3. sInc' = FedState(Inc!Absorbed') /\ count' = Inc!Absorbed' % R
      BY <2>1, <2>2, ZeroFed
    <2>4. IncInv'
      BY <2>1, <2>3 DEF IncInv
    <2>5. Inc!Abstract!Restart
      BY <2>1, <2>2 DEF Inc!Abstract!Restart
    <2>6. QED
      BY <2>4, <2>5 DEF IncMaps, Inc!Abstract!Next
  <1>3. CASE Inc!IncFinalize
    <2> DEFINE bytes == [j \in {count, R - 1} |->
                            {i \in {SHAKE} : j = count} \cup {i \in {LAST} : j = R - 1}]
    <2>1. /\ sInc' = XorInto(sInc, bytes) /\ count' = 0 /\ phaseInc = "absorb" /\ phaseInc' = "squeeze"
          /\ UNCHANGED <<fedInc, outInc, call>> /\ call.op = "none"
      BY <1>3, SameData, SameXor DEF Inc!IncFinalize, Inc!Idle
    <2>2. /\ Inc!Absorbed = fedInc /\ fedInc \in Nat /\ outInc = <<>> /\ sInc = FedState(fedInc)
          /\ count = fedInc % R
      BY <2>1, IncAbsorbedType DEF IncInv
    <2>3. sInc' = PaddedState(SHAKE, fedInc, 0)
      <3> HIDE DEF bytes
      <3>1. sInc' = XorInto(FedState(fedInc), bytes)
        BY <2>1, <2>2
      <3>2. QED
        BY <2>2, <3>1, PadFed DEF bytes
    <2>4. Len(outInc') = 0 * R - count'
      BY <2>1, <2>2, RateAssumption
    <2>5. Inc!Absorbed' = fedInc
      BY <2>1, <2>2 DEF Inc!Absorbed
    <2>6. IncInv'
      BY <2>1, <2>2, <2>3, <2>4, RateAssumption DEF IncInv
    <2>7. Inc!Abstract!Finalize
      BY <2>1, <2>2, <2>5 DEF Inc!Abstract!Finalize
    <2>8. QED
      BY <2>6, <2>7 DEF IncMaps, Inc!Abstract!Next
  <1>4. ASSUME NEW n \in 0..MaxMsg, Inc!IncAbsorb(n) PROVE IncInv' /\ IncMaps
    <2>1. /\ call.op = "none" /\ phaseInc = "absorb" /\ fedInc' = fedInc + n /\ n \in Nat
          /\ call' = [op |-> "absorb", left |-> n] /\ UNCHANGED <<sInc, count, phaseInc, outInc>>
      BY <1>4, BoundsAssumption DEF Inc!IncAbsorb, Inc!Idle, Inc!Call
    <2>2. fedInc \in Nat /\ Inc!Absorbed = fedInc
      BY <2>1, IncAbsorbedType DEF IncInv
    <2>3. Inc!Absorbed' = Inc!Absorbed
      BY <2>1, <2>2 DEF Inc!Absorbed, Inc!Left
    <2>4. IncInv'
      BY <2>1, <2>2, <2>3 DEF IncInv
    <2>5. UNCHANGED Inc!Abstract!vars
      BY <2>1, <2>3, SameData DEF Inc!Abstract!vars
    <2>6. QED
      BY <2>4, <2>5 DEF IncMaps
  <1>5. ASSUME NEW n \in 0..MaxOut, Inc!IncSqueeze(n) PROVE IncInv' /\ IncMaps
    <2> DEFINE k == IF n < count THEN n ELSE count
    <2>1. /\ phaseInc = "squeeze" /\ outInc' = outInc \o Inc!Read(sInc, R - count, k)
          /\ count' = Inc!Counter(count - k) /\ UNCHANGED <<sInc, phaseInc, fedInc>>
          /\ call' = IF n > k THEN [op |-> "squeeze", left |-> n - k] ELSE [op |-> "none", left |-> 0]
      BY <1>5 DEF Inc!IncSqueeze, Inc!Smaller, Inc!Call, Inc!NoCall
    <2>2. count \in Nat /\ count < R /\ n \in Nat /\ outInc \in Seq(Seq(Block) \X Offset)
      BY <2>1, BoundsAssumption DEF IncInv
    <2>3. /\ k \in Nat /\ k <= count /\ (n > k => k = count) /\ R - count \in Nat
          /\ (R - count) + k <= R /\ (R - count) + k > 0
      BY <2>2, RateAssumption
    <2>4. count' = count - k /\ count - k = R - ((R - count) + k)
      BY <2>1, <2>2, <2>3, CounterHolds, RateAssumption
    <2>5. PICK q \in Nat : sInc = PaddedState(SHAKE, fedInc, q) /\ Len(outInc) = q * R - count
      BY <2>1 DEF IncInv
    <2>6. Len(outInc) = (q - 1) * R + (R - count)
      <3>1. (q - 1) * R = q * R - R /\ q * R \in Nat
        BY RateAssumption
      <3>2. QED
        BY <2>2, <2>5, <3>1, RateAssumption
    <2>7. q = 0 => k = 0
      <3>1. q = 0 => q * R = 0
        BY RateAssumption
      <3>2. QED
        BY <2>2, <2>3, <2>5, <3>1
    <2> HIDE DEF k
    <2>8. /\ call' \in [op : {"none", "squeeze"}, left : Nat]
          /\ call'.op = "squeeze" => count' = 0 /\ call'.left > 0
      BY <2>1, <2>2, <2>3, <2>4
    <2>9. outInc' = outInc \o Inc!Read(PaddedState(SHAKE, fedInc, q), R - count, k)
      BY <2>1, <2>5
    <2>10. count' = R - ((R - count) + k) /\ sInc' = PaddedState(SHAKE, fedInc, q)
      BY <2>1, <2>4, <2>5
    <2>11. QED
      BY <2>1, <2>3, <2>6, <2>7, <2>8, <2>9, <2>10, IncReads
  <1>6. CASE Inc!IncSqueezeBlock
    <2> DEFINE left == call.left
               k    == IF left < R THEN left ELSE R
    <2>1. /\ call.op = "squeeze" /\ sInc' = Permute(sInc)
          /\ outInc' = outInc \o Inc!Read(Permute(sInc), 0, k)
          /\ count' = Inc!Counter(R - k) /\ UNCHANGED <<phaseInc, fedInc>>
          /\ call' = IF left > k THEN [op |-> "squeeze", left |-> left - k] ELSE [op |-> "none", left |-> 0]
      BY <1>6, SamePermute DEF Inc!IncSqueezeBlock, Inc!Smaller, Inc!Call, Inc!NoCall, Inc!Left
    <2>2. /\ phaseInc = "squeeze" /\ count = 0 /\ left \in Nat /\ left > 0 /\ fedInc \in Nat
      BY <2>1 DEF IncInv
    <2> HIDE DEF left
    <2>3. k \in Nat /\ k > 0 /\ k <= R /\ (left > k => k = R) /\ R - k \in Nat /\ R - k <= R
      BY <2>2, RateAssumption
    <2>4. count' = R - k
      BY <2>1, <2>3, CounterHolds
    <2>5. PICK q \in Nat : sInc = PaddedState(SHAKE, fedInc, q) /\ Len(outInc) = q * R - count
      BY <2>2 DEF IncInv
    <2>6. sInc' = PaddedState(SHAKE, fedInc, q + 1) /\ Permute(sInc) = PaddedState(SHAKE, fedInc, q + 1)
      BY <2>1, <2>2, <2>5, PermutePadded
    <2>7. Len(outInc) = ((q + 1) - 1) * R + 0
      <3>1. (q + 1) - 1 = q /\ q * R \in Nat
        BY RateAssumption
      <3>2. QED
        BY <2>2, <2>5, <3>1
    <2> HIDE DEF k
    <2>8. /\ call' \in [op : {"none", "squeeze"}, left : Nat]
          /\ call'.op = "squeeze" => count' = 0 /\ call'.left > 0
      BY <2>1, <2>2, <2>3, <2>4
    <2>9. outInc' = outInc \o Inc!Read(PaddedState(SHAKE, fedInc, q + 1), 0, k)
      BY <2>1, <2>6
    <2>10. /\ q + 1 \in Nat /\ 0 \in Nat /\ 0 + k <= R /\ (q + 1 = 0 => k = 0) /\ 0 + k > 0
           /\ count' = R - (0 + k)
      BY <2>3, <2>4
    <2>11. QED
      BY <2>1, <2>2, <2>3, <2>6, <2>7, <2>8, <2>9, <2>10, IncReads
  <1>7. QED
    BY <1>1, <1>2, <1>3, <1>4, <1>5, <1>6 DEF Inc!Next, Inc!Run, Inc!NewCall

(* For every rate, every type of counter that holds the rate and every     *)
(* sequence of calls: the counter interface, whose counter changes its     *)
(* meaning at finalize, is the XOF of the whole message as well.           *)
THEOREM CounterComputesXOF == Inc!Spec => IncImplementsXOF
  <1>1. IncInv /\ [Inc!Next]_(Inc!vars) => IncInv' /\ IncMaps
    <2>1. ASSUME IncInv, UNCHANGED Inc!vars PROVE IncInv' /\ IncMaps
      <3>1. UNCHANGED <<sInc, count, phaseInc, fedInc, outInc, call>>
        BY <2>1 DEF Inc!vars
      <3>2. Inc!Absorbed' = Inc!Absorbed
        BY <3>1 DEF Inc!Absorbed, Inc!Left
      <3>3. IncInv'
        BY <2>1, <3>1, <3>2 DEF IncInv
      <3>4. UNCHANGED Inc!Abstract!vars
        BY <3>1, <3>2, SameData DEF Inc!Abstract!vars
      <3>5. QED
        BY <3>3, <3>4 DEF IncMaps
    <2>2. QED
      BY <2>1, IncSteps
  <1>2. IncMaps => [Inc!Abstract!Next]_(Inc!Abstract!vars)
    BY DEF IncMaps
  <1>3. QED
    BY IncInit, <1>1, <1>2, PTL DEF Inc!Spec, IncImplementsXOF, Inc!ImplementsXOF, Inc!Abstract!Spec
-----------------------------------------------------------------------------
(* Sequences of whatever elements. *)
IsSeq(m) == Len(m) \in Nat /\ m = [i \in 1..Len(m) |-> m[i]]

LEMMA Typed ==
  ASSUME NEW m, IsSeq(m), NEW S, \A i \in 1..Len(m) : m[i] \in S
  PROVE  m \in Seq(S)
  <1>1. m \in [1..Len(m) -> S]
    BY DEF IsSeq
  <1>2. \E n \in Nat : m \in [1..n -> S]
    BY <1>1 DEF IsSeq
  <1>3. Seq(S) = UNION {[1..n -> S] : n \in Nat}
    BY SeqDef
  <1>4. QED
    BY <1>2, <1>3

LEMMA Untyped ==
  ASSUME NEW S, NEW m \in Seq(S)
  PROVE  IsSeq(m)
  <1>1. Len(m) \in Nat /\ m \in [1..Len(m) -> S]
    BY LenProperties
  <1>2. QED
    BY <1>1 DEF IsSeq

(* A function on 1..n is a sequence of length n. *)
LEMMA Counted ==
  ASSUME NEW n \in Nat, NEW f, f = [i \in 1..n |-> f[i]]
  PROVE  IsSeq(f) /\ Len(f) = n
  <1> DEFINE S == {f[i] : i \in 1..n}
  <1>1. f \in [1..n -> S]
    OBVIOUS
  <1>2. f \in Seq(S)
    <2>1. \E k \in Nat : f \in [1..k -> S]
      BY <1>1
    <2>2. Seq(S) = UNION {[1..k -> S] : k \in Nat}
      BY SeqDef
    <2> HIDE DEF S
    <2>3. QED
      BY <2>1, <2>2
  <1> HIDE DEF S
  <1>3. Len(f) \in Nat /\ DOMAIN f = 1..Len(f)
    BY <1>2, LenProperties
  <1>4. DOMAIN f = 1..n
    BY <1>1
  <1>5. Len(f) = n
    BY <1>3, <1>4
  <1>6. QED
    BY <1>5 DEF IsSeq

LEMMA Joined ==
  ASSUME NEW x, NEW y, IsSeq(x), IsSeq(y)
  PROVE  /\ IsSeq(x \o y) /\ Len(x \o y) = Len(x) + Len(y)
         /\ \A i \in 1..Len(x) : (x \o y)[i] = x[i]
         /\ \A i \in 1..Len(y) : (x \o y)[Len(x) + i] = y[i]
  <1> DEFINE S == {x[i] : i \in 1..Len(x)} \cup {y[i] : i \in 1..Len(y)}
  <1>1. /\ \A i \in 1..Len(x) : x[i] \in S
        /\ \A i \in 1..Len(y) : y[i] \in S
    OBVIOUS
  <1> HIDE DEF S
  <1>2. x \in Seq(S) /\ y \in Seq(S)
    BY <1>1, Typed
  <1>3. /\ x \o y \in Seq(S)
        /\ Len(x \o y) = Len(x) + Len(y)
        /\ \A i \in 1 .. Len(x) + Len(y) : (x \o y)[i] = IF i <= Len(x) THEN x[i] ELSE y[i - Len(x)]
    BY <1>2, ConcatProperties
  <1>4. IsSeq(x \o y)
    BY <1>3, Untyped
  <1>5. Len(x) \in Nat /\ Len(y) \in Nat
    BY DEF IsSeq
  <1>6. \A i \in 1..Len(x) : (x \o y)[i] = x[i]
    BY <1>3, <1>5
  <1>7. ASSUME NEW i \in 1..Len(y) PROVE (x \o y)[Len(x) + i] = y[i]
    <2>1. Len(x) + i \in 1 .. Len(x) + Len(y) /\ ~(Len(x) + i <= Len(x)) /\ (Len(x) + i) - Len(x) = i
      BY <1>5
    <2>2. QED
      BY <1>3, <2>1
  <1>8. QED
    BY <1>3, <1>4, <1>6, <1>7

LEMMA Same ==
  ASSUME NEW x, NEW y, IsSeq(x), IsSeq(y), Len(x) = Len(y), \A i \in 1..Len(x) : x[i] = y[i]
  PROVE  x = y
  BY DEF IsSeq

LEMMA Piece ==
  ASSUME NEW x, IsSeq(x), NEW from \in Nat \ {0}, NEW to \in Nat, from <= to + 1, to <= Len(x)
  PROVE  /\ IsSeq(SubSeq(x, from, to)) /\ Len(SubSeq(x, from, to)) = to - from + 1
         /\ \A i \in 1 .. to - from + 1 : SubSeq(x, from, to)[i] = x[from + i - 1]
  <1> DEFINE S == {x[i] : i \in 1..Len(x)}
             p == SubSeq(x, from, to)
  <1>1. \A i \in from .. to : x[i] \in S
    <2>1. Len(x) \in Nat
      BY DEF IsSeq
    <2>2. QED
      BY <2>1
  <1> HIDE DEF S
  <1>2. /\ p \in Seq(S)
        /\ Len(p) = IF from <= to THEN to - from + 1 ELSE 0
        /\ \A i \in 1 .. to - from + 1 : p[i] = x[from + i - 1]
    BY <1>1, SubSeqProperties
  <1> HIDE DEF p
  <1>3. IsSeq(p)
    BY <1>2, Untyped
  <1>4. Len(p) = to - from + 1
    BY <1>2
  <1>5. QED
    BY <1>2, <1>3, <1>4 DEF p

LEMMA OneElement ==
  ASSUME NEW e
  PROVE  IsSeq(<<e>>) /\ Len(<<e>>) = 1 /\ <<e>>[1] = e
  <1>1. <<e>> \in Seq({e}) /\ Len(<<e>>) = 1 /\ <<e>>[1] = e
    OBVIOUS
  <1>2. QED
    BY <1>1, Untyped

LEMMA NoElement == IsSeq(<< >>) /\ Len(<< >>) = 0
  BY DEF IsSeq

LEMMA Associates ==
  ASSUME NEW x, NEW y, NEW z, IsSeq(x), IsSeq(y), IsSeq(z)
  PROVE  (x \o y) \o z = x \o (y \o z)
  <1> DEFINE S == {x[i] : i \in 1..Len(x)} \cup {y[i] : i \in 1..Len(y)} \cup {z[i] : i \in 1..Len(z)}
  <1>1. /\ \A i \in 1..Len(x) : x[i] \in S
        /\ \A i \in 1..Len(y) : y[i] \in S
        /\ \A i \in 1..Len(z) : z[i] \in S
    OBVIOUS
  <1> HIDE DEF S
  <1>2. x \in Seq(S) /\ y \in Seq(S) /\ z \in Seq(S)
    BY <1>1, Typed
  <1>3. QED
    BY <1>2, ConcatAssociative

(* A sequence and one more element.                                        *)
LEMMA OneMore ==
  ASSUME NEW x, NEW y, NEW e, IsSeq(x), IsSeq(y), Len(y) = Len(x) + 1,
         \A b \in 1 .. Len(x) : y[b] = x[b], y[Len(x) + 1] = e
  PROVE  x \o <<e>> = y
  <1>1. PICK o : o = <<e>>
    OBVIOUS
  <1>2. IsSeq(o) /\ Len(o) = 1 /\ o[1] = e
    BY <1>1, OneElement
  <1>3. /\ IsSeq(x \o o) /\ Len(x \o o) = Len(x) + Len(o)
        /\ \A b \in 1 .. Len(x) : (x \o o)[b] = x[b]
        /\ \A b \in 1 .. Len(o) : (x \o o)[Len(x) + b] = o[b]
    BY <1>2, Joined
  <1>4. (x \o o)[Len(x) + 1] = e
    <2>1. 1 \in 1 .. Len(o)
      BY <1>2
    <2>2. (x \o o)[Len(x) + 1] = o[1]
      BY <1>3, <2>1
    <2>3. QED
      BY <1>2, <2>2
  <1>5. ASSUME NEW b \in 1 .. Len(x \o o) PROVE (x \o o)[b] = y[b]
    <2>1. b \in 1 .. Len(x) \/ b = Len(x) + 1
      BY <1>2, <1>3 DEF IsSeq
    <2>2. QED
      BY <1>3, <1>4, <2>1
  <1>6. Len(x \o o) = Len(y)
    BY <1>2, <1>3
  <1>7. x \o o = y
    BY <1>3, <1>5, <1>6, Same
  <1>8. QED
    BY <1>1, <1>7

LEMMA CutInTwo ==
  ASSUME NEW x, IsSeq(x), NEW n \in Nat, n <= Len(x)
  PROVE  /\ IsSeq(SubSeq(x, 1, n)) /\ Len(SubSeq(x, 1, n)) = n
         /\ IsSeq(SubSeq(x, n + 1, Len(x))) /\ Len(SubSeq(x, n + 1, Len(x))) = Len(x) - n
         /\ SubSeq(x, 1, n) \o SubSeq(x, n + 1, Len(x)) = x
         /\ \A i \in 1..n : SubSeq(x, 1, n)[i] = x[i]
         /\ \A i \in 1..Len(x) - n : SubSeq(x, n + 1, Len(x))[i] = x[n + i]
  <1> DEFINE a == SubSeq(x, 1, n)
             b == SubSeq(x, n + 1, Len(x))
             k == Len(x) - n
  <1>0. Len(x) \in Nat /\ n \in Nat /\ k \in Nat /\ n + k = Len(x)
    BY DEF IsSeq
  <1>1. IsSeq(a) /\ Len(a) = n /\ \A i \in 1..n : a[i] = x[i]
    <2>1. /\ IsSeq(a) /\ Len(a) = n - 1 + 1
          /\ \A i \in 1 .. n - 1 + 1 : a[i] = x[1 + i - 1]
      BY Piece
    <2> HIDE DEF a
    <2>2. n - 1 + 1 = n /\ \A i \in 1..n : 1 + i - 1 = i
      OBVIOUS
    <2>3. QED
      BY <2>1, <2>2
  <1>2. IsSeq(b) /\ Len(b) = k /\ \A i \in 1..k : b[i] = x[n + i]
    <2>1. PICK from \in Nat \ {0} : from = n + 1
      OBVIOUS
    <2>2. PICK to \in Nat : to = Len(x)
      BY <1>0
    <2>3. from <= to + 1 /\ to <= Len(x)
      BY <1>0, <2>1, <2>2
    <2>4. /\ IsSeq(SubSeq(x, from, to)) /\ Len(SubSeq(x, from, to)) = to - from + 1
          /\ \A i \in 1 .. to - from + 1 : SubSeq(x, from, to)[i] = x[from + i - 1]
      BY <2>3, Piece
    <2>5. b = SubSeq(x, from, to)
      BY <2>1, <2>2
    <2>6. to - from + 1 = k /\ \A i \in 1..k : from + i - 1 = n + i
      BY <1>0, <2>1, <2>2
    <2> HIDE DEF b, k
    <2>7. QED
      BY <2>4, <2>5, <2>6
  <1> HIDE DEF a, b
  <1>3. /\ IsSeq(a \o b) /\ Len(a \o b) = n + k
        /\ \A i \in 1..n : (a \o b)[i] = a[i]
        /\ \A i \in 1..k : (a \o b)[n + i] = b[i]
    BY <1>1, <1>2, Joined
  <1>4. ASSUME NEW i \in 1..Len(x) PROVE (a \o b)[i] = x[i]
    <2>1. CASE i \in 1..n
      BY <1>1, <1>3, <2>1
    <2>2. CASE i > n
      <3>1. i - n \in 1..k /\ n + (i - n) = i
        BY <1>0, <2>2
      <3>2. QED
        BY <1>2, <1>3, <3>1
    <2>3. i \in 1..n \/ i > n
      BY <1>0
    <2>4. QED
      BY <2>1, <2>2, <2>3
  <1>5. a \o b = x
    BY <1>0, <1>3, <1>4, Same
  <1>6. QED
    BY <1>0, <1>1, <1>2, <1>5 DEF a, b
-----------------------------------------------------------------------------
(* What the assumptions say of the sizes. *)
LEMMA BlockSizes ==
  /\ SM3!BlockSize \in Nat \ {0} /\ SM3!Word \in Nat \ {0}
  /\ SM3!Offset = 0 .. SM3!BlockSize - 1
  /\ 2^(WordBits - BlockBits) \in Nat \ {0} /\ 2^BlockBits \in Nat \ {0}
  /\ 2^BlockBits = 8 * SM3!BlockSize
  /\ SM3!Word = 2^(WordBits - BlockBits) * 2^BlockBits
  /\ DigestLen \in Nat \ {0} /\ MaxText \in Nat /\ MaxKey \in Nat /\ MaxOut \in Nat
  /\ SM3!BlockSize + MaxText < SM3!Word /\ SM3!BlockSize + DigestLen < SM3!Word
  /\ MaxKey < SM3!Word
  <1>1. SM3!PowerAssumption /\ SM3!SizesAssumption
    BY SM3Assumption
  <1>2. 2^(BlockBits - 3) \in Nat \ {0} /\ 2^BlockBits \in Nat \ {0}
        /\ 2^(WordBits - BlockBits) \in Nat \ {0} /\ 2^WordBits \in Nat \ {0}
    BY <1>1, Zenon DEF SM3!PowerAssumption
  <1>3. /\ 2^BlockBits = 8 * 2^(BlockBits - 3)
        /\ 2^WordBits = 2^(WordBits - BlockBits) * 2^BlockBits
    BY <1>1, Zenon DEF SM3!PowerAssumption
  <1>4. /\ DigestLen \in Nat \ {0} /\ MaxText \in Nat /\ MaxKey \in Nat /\ MaxOut \in Nat
        /\ 2^(BlockBits - 3) + MaxText < 2^WordBits /\ 2^(BlockBits - 3) + DigestLen < 2^WordBits
        /\ MaxKey < 2^WordBits
    BY <1>1, Zenon DEF SM3!SizesAssumption
  <1>5. SM3!BlockSize = 2^(BlockBits - 3) /\ SM3!Word = 2^WordBits /\ SM3!Offset = 0 .. SM3!BlockSize - 1
    BY DEF SM3!BlockSize, SM3!Word, SM3!Offset
  <1>6. QED
    BY <1>2, <1>3, <1>4, <1>5, Zenon

LEMMA CountSizes ==
  \E half \in Nat \ {0} : LenBytes = 2 * half /\ LenBytes \div 2 = half /\ LenBytes < SM3!BlockSize
  <1>1. SM3!SizesAssumption
    BY SM3Assumption
  <1>2. PICK half \in 1 .. LenBytes : LenBytes = 2 * half
    BY <1>1, Zenon DEF SM3!SizesAssumption
  <1>3. LenBytes < SM3!BlockSize
    BY <1>1, Zenon DEF SM3!SizesAssumption, SM3!BlockSize
  <1>4. half \in Nat \ {0} /\ LenBytes \div 2 = half
    BY <1>2
  <1>5. QED
    BY <1>2, <1>3, <1>4

LEMMA CutIs ==
  ASSUME NEW d, NEW n \in Nat
  PROVE  /\ IsSeq(SM3!Cut(d, n)) /\ Len(SM3!Cut(d, n)) = n
         /\ \A b \in 1..n : SM3!Cut(d, n)[b] = [j \in SM3!Offset |-> d[(b - 1) * SM3!BlockSize + j + 1]]
  <1> DEFINE f == SM3!Cut(d, n)
  <1>1. f = [b \in 1..n |-> [j \in SM3!Offset |-> d[(b - 1) * SM3!BlockSize + j + 1]]]
    BY DEF SM3!Cut
  <1> HIDE DEF f
  <1>2. f = [b \in 1..n |-> f[b]]
    BY <1>1
  <1>3. IsSeq(f) /\ Len(f) = n
    BY <1>2, Counted
  <1>4. \A b \in 1..n : f[b] = [j \in SM3!Offset |-> d[(b - 1) * SM3!BlockSize + j + 1]]
    BY <1>1
  <1>5. QED
    BY <1>3, <1>4 DEF f

(* Positions of bytes in blocks. *)
LEMMA InBlock ==
  ASSUME NEW b \in Nat \ {0}, NEW q \in Nat, b <= q, NEW j \in SM3!Offset
  PROVE  (b - 1) * SM3!BlockSize + j + 1 \in 1 .. q * SM3!BlockSize
  <1> DEFINE B == SM3!BlockSize
  <1>1. B \in Nat \ {0} /\ j \in 0 .. B - 1
    BY BlockSizes
  <1> HIDE DEF B
  <1>2. (q - b) * B >= 0 /\ (b - 1) * B >= 0
    BY <1>1
  <1>3. (q - b) * B = q * B - b * B /\ (b - 1) * B = b * B - B
    BY <1>1
  <1>4. b * B \in Int /\ q * B \in Int
    BY <1>1
  <1>5. (b - 1) * B + j + 1 \in 1 .. q * B
    BY <1>1, <1>2, <1>3, <1>4
  <1>6. QED
    BY <1>5 DEF B

(* Blocks of what is appended to whole blocks; more data changes none.     *)
LEMMA CutSame ==
  ASSUME NEW x, NEW y, NEW q \in Nat, \A i \in 1 .. q * SM3!BlockSize : x[i] = y[i]
  PROVE  SM3!Cut(x, q) = SM3!Cut(y, q)
  <1>1. ASSUME NEW b \in 1..q, NEW j \in SM3!Offset
        PROVE  x[(b - 1) * SM3!BlockSize + j + 1] = y[(b - 1) * SM3!BlockSize + j + 1]
    <2>1. b \in Nat \ {0} /\ b <= q
      OBVIOUS
    <2>2. (b - 1) * SM3!BlockSize + j + 1 \in 1 .. q * SM3!BlockSize
      BY <2>1, InBlock
    <2>3. QED
      BY <2>2
  <1>2. QED
    BY <1>1, Zenon DEF SM3!Cut

LEMMA CutJoined ==
  ASSUME NEW x, NEW y, IsSeq(x), IsSeq(y), NEW q \in Nat, NEW k \in Nat,
         Len(x) = q * SM3!BlockSize, k * SM3!BlockSize <= Len(y)
  PROVE  SM3!Cut(x, q) \o SM3!Cut(y, k) = SM3!Cut(x \o y, q + k)
  <1> DEFINE B == SM3!BlockSize
             f == SM3!Cut(x, q)
             g == SM3!Cut(y, k)
             h == SM3!Cut(x \o y, q + k)
  <1>0. B \in Nat \ {0} /\ Len(x) = q * B /\ k * B <= Len(y) /\ q * B \in Nat /\ k * B \in Nat /\ Len(y) \in Nat
        /\ SM3!Offset \subseteq Nat
    <2>1. B \in Nat \ {0} /\ SM3!Offset = 0 .. B - 1
      BY BlockSizes, Zenon
    <2>2. Len(x) = q * B /\ k * B <= Len(y)
      OBVIOUS
    <2> HIDE DEF B
    <2>3. q * B \in Nat /\ k * B \in Nat
      BY <2>1
    <2>4. QED
      BY <2>1, <2>2, <2>3 DEF IsSeq
  <1>1. /\ IsSeq(f) /\ Len(f) = q /\ IsSeq(g) /\ Len(g) = k /\ IsSeq(h) /\ Len(h) = q + k
    BY CutIs
  <1>2. /\ \A b \in 1..q : f[b] = [j \in SM3!Offset |-> x[(b - 1) * B + j + 1]]
        /\ \A b \in 1..k : g[b] = [j \in SM3!Offset |-> y[(b - 1) * B + j + 1]]
    BY CutIs
  <1>3. \A b \in 1 .. q + k : h[b] = [j \in SM3!Offset |-> (x \o y)[(b - 1) * B + j + 1]]
    <2>1. PICK n \in Nat : n = q + k
      OBVIOUS
    <2>2. PICK z : z = x \o y
      OBVIOUS
    <2>3. \A b \in 1..n : SM3!Cut(z, n)[b] = [j \in SM3!Offset |-> z[(b - 1) * B + j + 1]]
      BY CutIs
    <2>4. QED
      BY <2>1, <2>2, <2>3, Zenon
  <1> HIDE DEF f, g, h
  <1>4. /\ IsSeq(f \o g) /\ Len(f \o g) = q + k
        /\ \A b \in 1..q : (f \o g)[b] = f[b]
        /\ \A b \in 1..k : (f \o g)[q + b] = g[b]
    BY <1>1, Joined
  <1>5. /\ \A i \in 1 .. q * B : (x \o y)[i] = x[i]
        /\ \A i \in 1 .. Len(y) : (x \o y)[q * B + i] = y[i]
    BY <1>0, Joined
  <1>6. ASSUME NEW b \in 1..q PROVE (f \o g)[b] = h[b]
    <2>1. ASSUME NEW j \in SM3!Offset
          PROVE  (x \o y)[(b - 1) * B + j + 1] = x[(b - 1) * B + j + 1]
      <3>1. b \in Nat \ {0} /\ b <= q
        OBVIOUS
      <3>2. (b - 1) * B + j + 1 \in 1 .. q * B
        BY <3>1, InBlock
      <3> HIDE DEF B
      <3>3. QED
        BY <1>5, <3>2
    <2>2. b \in 1 .. q + k
      OBVIOUS
    <2> HIDE DEF B
    <2>3. h[b] = [j \in SM3!Offset |-> x[(b - 1) * B + j + 1]]
      BY <1>3, <2>1, <2>2
    <2>4. QED
      BY <1>2, <1>4, <2>3
  <1>7. ASSUME NEW b \in 1..k PROVE (f \o g)[q + b] = h[q + b]
    <2>1. PICK c \in 1 .. q + k : c = q + b
      OBVIOUS
    <2>2. ASSUME NEW j \in SM3!Offset
          PROVE  (x \o y)[(c - 1) * B + j + 1] = y[(b - 1) * B + j + 1]
      <3>1. b \in Nat \ {0} /\ b <= k /\ j \in Nat
        BY <1>0
      <3>2. PICK i \in 1 .. k * B : i = (b - 1) * B + j + 1
        BY <3>1, InBlock
      <3> HIDE DEF B
      <3>3. i \in 1 .. Len(y)
        BY <1>0, <3>2
      <3>4. (c - 1) * B = q * B + (b - 1) * B
        BY <1>0, <2>1, <3>1
      <3>5. (c - 1) * B + j + 1 = q * B + i
        <4>1. (b - 1) * B \in Int
          BY <1>0, <3>1
        <4>2. QED
          BY <1>0, <3>1, <3>2, <3>4, <4>1
      <3>6. (x \o y)[q * B + i] = y[i]
        BY <1>5, <3>3
      <3>7. QED
        BY <3>2, <3>5, <3>6, Zenon
    <2> HIDE DEF B
    <2>3. h[c] = [j \in SM3!Offset |-> (x \o y)[(c - 1) * B + j + 1]]
      BY <1>3, Zenon
    <2>4. h[c] = [j \in SM3!Offset |-> y[(b - 1) * B + j + 1]]
      BY <2>2, <2>3
    <2>5. QED
      BY <1>2, <1>4, <2>1, <2>4
  <1>8. ASSUME NEW b \in 1 .. q + k PROVE (f \o g)[b] = h[b]
    <2>1. b \in 1..q \/ (b - q \in 1..k /\ q + (b - q) = b)
      OBVIOUS
    <2>2. QED
      BY <1>6, <1>7, <2>1
  <1>9. f \o g = h
    BY <1>1, <1>4, <1>8, Same
  <1>10. QED
    BY <1>9 DEF f, g, h
-----------------------------------------------------------------------------
(* The context holds a message: its whole blocks are compressed, the rest  *)
(* is in the partial block.                                                *)
Holds(c, msg) ==
  \E q \in Nat : \E r \in SM3!Offset :
    /\ Len(msg) = q * SM3!BlockSize + r
    /\ c.digest = SM3!Cut(msg, q) /\ c.nblocks = q /\ c.num = r
    /\ \A j \in 0 .. r - 1 : c.block[j] = msg[q * SM3!BlockSize + j + 1]

LEMMA Small ==
  ASSUME NEW a, NEW M, a \in Nat, M \in Nat \ {0}, a < M
  PROVE  a % M = a /\ a \div M = 0
  <1>1. a = 0 * M + a /\ a \in 0 .. M - 1 /\ 0 \in Int
    OBVIOUS
  <1>2. QED
    BY <1>1, QuotientIs

LEMMA WholeIs ==
  ASSUME NEW c, NEW msg, NEW data, IsSeq(msg), IsSeq(data), NEW q \in Nat,
         Len(msg) = q * SM3!BlockSize, c.digest = SM3!Cut(msg, q), c.nblocks = q,
         Len(msg) + Len(data) < SM3!Word
  PROVE  Holds(SM3!UpdateWhole(c, data), msg \o data)
  <1> DEFINE B == SM3!BlockSize
             u == SM3!UpdateWhole(c, data)
             all == msg \o data
  <1>1. B \in Nat \ {0} /\ SM3!Word \in Nat \ {0} /\ SM3!Offset = 0 .. B - 1
    BY BlockSizes, Zenon
  <1>2. Len(data) \in Nat /\ Len(msg) = q * B
    BY DEF IsSeq
  <1>3. PICK k \in Nat : k = Len(data) \div B
    BY <1>1, <1>2, Division
  <1>4. PICK l \in 0 .. B - 1 : l = Len(data) % B
    BY <1>1, <1>2, Division
  <1>5. Len(data) = k * B + l
    BY <1>1, <1>2, <1>3, <1>4, Division
  <1>6. /\ IsSeq(all) /\ Len(all) = q * B + Len(data)
        /\ \A i \in 1 .. Len(data) : all[q * B + i] = data[i]
    BY <1>2, Joined
  <1>7. u = [digest |-> c.digest \o SM3!Cut(data, k), nblocks |-> (c.nblocks + k) % SM3!Word,
             block |-> SM3!CopyTo(c.block, 0, SubSeq(data, ((Len(data) - l) % SM3!Word) + 1,
                                                     ((Len(data) - l) % SM3!Word) + l)),
             num |-> l]
    BY <1>3, <1>4, Zenon DEF SM3!UpdateWhole, SM3!Compress
  <1> HIDE DEF u, all, B
  <1>8. q * B \in Nat /\ k * B \in Nat /\ (q + k) * B = q * B + k * B /\ q <= q * B /\ k <= k * B
    <2>1. q * (B - 1) >= 0 /\ k * (B - 1) >= 0
      BY <1>1
    <2>2. q * (B - 1) = q * B - q /\ k * (B - 1) = k * B - k
      BY <1>1
    <2>3. q * B \in Nat /\ k * B \in Nat /\ (q + k) * B = q * B + k * B
      BY <1>1
    <2>4. QED
      BY <2>1, <2>2, <2>3
  <1>9. (Len(data) - l) % SM3!Word = k * B
    <2>1. Len(data) - l = k * B /\ k * B < SM3!Word
      BY <1>1, <1>2, <1>5, <1>8
    <2>2. QED
      BY <1>1, <1>8, <2>1, Small
  <1>10. (c.nblocks + k) % SM3!Word = q + k
    <2>1. q + k \in Nat /\ q + k < SM3!Word
      BY <1>1, <1>2, <1>5, <1>8
    <2>2. QED
      BY <1>1, <2>1, Small
  <1>11. /\ u.digest = SM3!Cut(msg, q) \o SM3!Cut(data, k)
         /\ u.nblocks = q + k /\ u.num = l
         /\ u.block = SM3!CopyTo(c.block, 0, SubSeq(data, k * B + 1, k * B + l))
    BY <1>7, <1>9, <1>10
  <1>12. u.digest = SM3!Cut(all, q + k)
    <2>1. k * SM3!BlockSize <= Len(data)
      BY <1>5, <1>8 DEF B
    <2>2. SM3!Cut(msg, q) \o SM3!Cut(data, k) = SM3!Cut(msg \o data, q + k)
      BY <2>1, CutJoined
    <2>3. QED
      BY <1>11, <2>2 DEF all
  <1>13. ASSUME NEW j \in 0 .. l - 1 PROVE u.block[j] = all[(q + k) * B + j + 1]
    <2> DEFINE rest == SubSeq(data, k * B + 1, k * B + l)
    <2>1. l \in Nat /\ k * B + l <= Len(data)
      BY <1>5, <1>8
    <2>2. IsSeq(rest) /\ Len(rest) = l /\ \A i \in 1..l : rest[i] = data[k * B + i]
      <3>0. PICK p \in Nat : p = k * B
        BY <1>8
      <3>1. PICK from \in Nat \ {0} : from = p + 1
        OBVIOUS
      <3>2. PICK to \in Nat : to = p + l
        BY <2>1
      <3>3. from <= to + 1 /\ to <= Len(data)
        BY <2>1, <3>0, <3>1, <3>2
      <3>4. /\ IsSeq(SubSeq(data, from, to)) /\ Len(SubSeq(data, from, to)) = to - from + 1
            /\ \A i \in 1 .. to - from + 1 : SubSeq(data, from, to)[i] = data[from + i - 1]
        BY <3>3, Piece
      <3>5. rest = SubSeq(data, from, to)
        BY <3>0, <3>1, <3>2
      <3>6. to - from + 1 = l /\ \A i \in 1..l : from + i - 1 = p + i
        BY <2>1, <3>1, <3>2
      <3> HIDE DEF rest
      <3>7. QED
        BY <3>0, <3>4, <3>5, <3>6, Zenon
    <2> HIDE DEF rest
    <2>3. j \in SM3!Offset /\ j \in 0 .. 0 + Len(rest) - 1
      BY <1>1, <1>4, <2>2
    <2>4. PICK o \in 1..l : o = j - 0 + 1
      BY <1>4
    <2>5. u.block = SM3!CopyTo(c.block, 0, rest)
      BY <1>11 DEF rest
    <2>6. u.block[j] = rest[o]
      BY <2>3, <2>4, <2>5 DEF SM3!CopyTo
    <2>7. PICK i \in 1 .. Len(data) : i = k * B + o
      BY <1>5, <1>8, <2>4
    <2>8. (q + k) * B + j + 1 = q * B + i
      BY <1>8, <2>4, <2>7
    <2>9. all[q * B + i] = data[i]
      BY <1>6
    <2>10. rest[o] = data[i]
      BY <2>2, <2>7
    <2>11. QED
      BY <2>6, <2>8, <2>9, <2>10
  <1>14. q + k \in Nat /\ l \in SM3!Offset /\ Len(all) = (q + k) * B + l
    BY <1>1, <1>2, <1>5, <1>6, <1>8
  <1>15. QED
    BY <1>11, <1>12, <1>13, <1>14 DEF Holds, B, u, all

(* One call of sm3_update appends its data to what the context holds.      *)
LEMMA UpdateIs ==
  ASSUME NEW c, NEW msg, NEW data, IsSeq(msg), IsSeq(data), Holds(c, msg),
         Len(msg) + Len(data) < SM3!Word
  PROVE  Holds(SM3!Update(c, data), msg \o data)
  <1> DEFINE B == SM3!BlockSize
             all == msg \o data
  <1>1. B \in Nat \ {0} /\ SM3!Word \in Nat \ {0} /\ SM3!Offset = 0 .. B - 1
    BY BlockSizes, Zenon
  <1>2. PICK q \in Nat : \E r \in SM3!Offset :
          /\ Len(msg) = q * B + r
          /\ c.digest = SM3!Cut(msg, q) /\ c.nblocks = q /\ c.num = r
          /\ \A j \in 0 .. r - 1 : c.block[j] = msg[q * B + j + 1]
    BY Zenon DEF Holds
  <1>3. PICK r \in SM3!Offset :
          /\ Len(msg) = q * B + r
          /\ c.digest = SM3!Cut(msg, q) /\ c.nblocks = q /\ c.num = r
          /\ \A j \in 0 .. r - 1 : c.block[j] = msg[q * B + j + 1]
    BY <1>2
  <1> HIDE DEF B, all
  <1>4. q * B \in Nat /\ q <= q * B /\ (q + 1) * B = q * B + B /\ r \in 0 .. B - 1
    <2>1. q * (B - 1) >= 0 /\ q * (B - 1) = q * B - q
      BY <1>1
    <2>2. QED
      BY <1>1, <2>1
  <1>5. /\ Len(data) \in Nat /\ Len(msg) \in Nat
        /\ IsSeq(all) /\ Len(all) = Len(msg) + Len(data)
        /\ \A i \in 1 .. Len(msg) : all[i] = msg[i]
        /\ \A i \in 1 .. Len(data) : all[Len(msg) + i] = data[i]
    BY Joined DEF IsSeq, all
  <1>6. CASE r = 0
    <2>1. SM3!Update(c, data) = SM3!UpdateWhole(c, data)
      BY <1>3, <1>6 DEF SM3!Update
    <2>2. Len(msg) = q * SM3!BlockSize
      BY <1>3, <1>4, <1>6 DEF B
    <2>3. QED
      BY <1>3, <2>1, <2>2, WholeIs
  <1>7. CASE r # 0 /\ Len(data) < B - r
    <2> DEFINE u == SM3!Update(c, data)
    <2>1. u = [digest |-> c.digest, nblocks |-> c.nblocks,
               block |-> SM3!CopyTo(c.block, c.num, data), num |-> c.num + Len(data)]
      BY <1>3, <1>7 DEF SM3!Update, B
    <2> HIDE DEF u
    <2>2. /\ u.digest = SM3!Cut(msg, q) /\ u.nblocks = q /\ u.num = r + Len(data)
          /\ u.block = SM3!CopyTo(c.block, r, data)
      BY <1>3, <2>1
    <2>3. SM3!Cut(msg, q) = SM3!Cut(all, q)
      <3>1. \A i \in 1 .. q * B : msg[i] = all[i]
        BY <1>3, <1>4, <1>5
      <3>2. QED
        BY <3>1, CutSame DEF B
    <2>4. r + Len(data) \in SM3!Offset /\ Len(all) = q * B + (r + Len(data))
      BY <1>1, <1>3, <1>4, <1>5, <1>7
    <2>5. ASSUME NEW j \in 0 .. r + Len(data) - 1 PROVE u.block[j] = all[q * B + j + 1]
      <3>0. j \in SM3!Offset /\ r \in Nat
        BY <1>1, <1>4, <2>4
      <3>1. CASE j < r
        <4>1. u.block[j] = c.block[j]
          <5>1. j \notin r .. r + Len(data) - 1
            BY <1>5, <3>0, <3>1
          <5>2. QED
            BY <2>2, <3>0, <5>1 DEF SM3!CopyTo
        <4>2. q * B + j + 1 \in 1 .. Len(msg) /\ j \in 0 .. r - 1
          BY <1>3, <1>4, <3>1
        <4>3. QED
          BY <1>3, <1>5, <4>1, <4>2
      <3>2. CASE j >= r
        <4>1. PICK i \in 1 .. Len(data) : i = j - r + 1
          BY <1>4, <1>5, <3>2
        <4>2. u.block[j] = data[i]
          <5>1. j \in r .. r + Len(data) - 1
            BY <1>5, <3>0, <3>2
          <5>2. QED
            BY <2>2, <3>0, <4>1, <5>1 DEF SM3!CopyTo
        <4>3. q * B + j + 1 = Len(msg) + i
          BY <1>3, <1>4, <4>1
        <4>4. QED
          BY <1>5, <4>1, <4>2, <4>3
      <3>3. QED
        BY <3>0, <3>1, <3>2, <1>4
    <2>6. Holds(u, all)
      <3>1. PICK p \in SM3!Offset : p = r + Len(data)
        BY <2>4
      <3>2. /\ Len(all) = q * B + p
            /\ u.digest = SM3!Cut(all, q) /\ u.nblocks = q /\ u.num = p
            /\ \A j \in 0 .. p - 1 : u.block[j] = all[q * B + j + 1]
        <4>1. Len(all) = q * B + p
          BY <2>4, <3>1
        <4>2. u.digest = SM3!Cut(all, q) /\ u.nblocks = q /\ u.num = p
          BY <2>2, <2>3, <3>1
        <4>3. \A j \in 0 .. p - 1 : u.block[j] = all[q * B + j + 1]
          BY <2>5, <3>1
        <4>4. QED
          BY <4>1, <4>2, <4>3
      <3>3. QED
        BY <3>2, Zenon DEF Holds, B
    <2>7. QED
      BY <2>6 DEF u, all
  <1>8. CASE r # 0 /\ ~(Len(data) < B - r)
    <2> DEFINE left == B - r
               head == SubSeq(data, 1, left)
               tail == SubSeq(data, left + 1, Len(data))
               filled == SM3!CopyTo(c.block, r, head)
               v == [digest |-> c.digest \o <<filled>>, nblocks |-> (c.nblocks + 1) % SM3!Word,
                     block |-> filled, num |-> 0]
               whole == msg \o head
    <2>1. SM3!Update(c, data) = SM3!UpdateWhole(v, tail)
      BY <1>3, <1>8 DEF SM3!Update, SM3!Compress, B
    <2>2. left \in Nat \ {0} /\ left <= Len(data) /\ r + left = B
      BY <1>1, <1>4, <1>5, <1>8
    <2> HIDE DEF left
    <2>3. /\ IsSeq(head) /\ Len(head) = left /\ \A i \in 1..left : head[i] = data[i]
          /\ IsSeq(tail) /\ Len(tail) = Len(data) - left /\ head \o tail = data
      BY <2>2, CutInTwo
    <2> HIDE DEF head, tail
    <2>4. /\ IsSeq(whole) /\ Len(whole) = Len(msg) + left
          /\ \A i \in 1 .. Len(msg) : whole[i] = msg[i]
          /\ \A i \in 1 .. left : whole[Len(msg) + i] = head[i]
      <3>1. PICK h : h = head
        OBVIOUS
      <3>2. IsSeq(h) /\ Len(h) = left
        BY <2>3, <3>1
      <3>3. /\ IsSeq(msg \o h) /\ Len(msg \o h) = Len(msg) + Len(h)
            /\ \A i \in 1 .. Len(msg) : (msg \o h)[i] = msg[i]
            /\ \A i \in 1 .. Len(h) : (msg \o h)[Len(msg) + i] = h[i]
        BY <3>2, Joined
      <3>4. QED
        BY <3>1, <3>2, <3>3, Zenon
    <2> HIDE DEF whole
    <2>5. Len(whole) = (q + 1) * B
      BY <1>1, <1>3, <1>4, <2>2, <2>4
    <2>6. filled = [j \in SM3!Offset |-> whole[q * B + j + 1]]
      <3>1. ASSUME NEW j \in SM3!Offset PROVE filled[j] = whole[q * B + j + 1]
        <4>0. j \in 0 .. B - 1 /\ r \in Nat
          BY <1>1, <1>4
        <4>1. CASE j < r
          <5>1. filled[j] = c.block[j]
            <6>1. j \notin r .. r + Len(head) - 1
              BY <2>2, <2>3, <4>0, <4>1
            <6>2. QED
              BY <6>1 DEF SM3!CopyTo
          <5>2. q * B + j + 1 \in 1 .. Len(msg) /\ j \in 0 .. r - 1
            BY <1>3, <1>4, <4>0, <4>1
          <5>3. QED
            BY <1>3, <2>4, <5>1, <5>2
        <4>2. CASE j >= r
          <5>1. j < r + Len(head) /\ Len(head) \in Nat
            BY <2>2, <2>3, <4>0
          <5>2. PICK i \in 1 .. left : i = j - r + 1
            BY <2>2, <4>0, <4>2
          <5>3. filled[j] = head[i]
            <6>1. j \in r .. r + Len(head) - 1
              BY <4>0, <4>2, <5>1
            <6>2. QED
              BY <5>2, <6>1 DEF SM3!CopyTo
          <5>4. q * B + j + 1 = Len(msg) + i
            BY <1>3, <1>4, <4>0, <5>2
          <5>5. QED
            BY <2>4, <5>2, <5>3, <5>4
        <4>3. QED
          BY <4>0, <4>1, <4>2
      <3>2. filled = [j \in SM3!Offset |-> filled[j]]
        BY DEF SM3!CopyTo
      <3> HIDE DEF filled
      <3>3. QED
        BY <3>1, <3>2
    <2> HIDE DEF filled
    <2>7. c.digest \o <<filled>> = SM3!Cut(whole, q + 1)
      <3>1. /\ IsSeq(SM3!Cut(whole, q + 1)) /\ Len(SM3!Cut(whole, q + 1)) = q + 1
            /\ \A b \in 1 .. q + 1 :
                 SM3!Cut(whole, q + 1)[b] = [j \in SM3!Offset |-> whole[(b - 1) * B + j + 1]]
        <4>1. PICK n \in Nat : n = q + 1
          OBVIOUS
        <4>2. /\ IsSeq(SM3!Cut(whole, n)) /\ Len(SM3!Cut(whole, n)) = n
              /\ \A b \in 1..n :
                   SM3!Cut(whole, n)[b] = [j \in SM3!Offset |-> whole[(b - 1) * B + j + 1]]
          BY CutIs DEF B
        <4>3. QED
          BY <4>1, <4>2
      <3>2. /\ IsSeq(SM3!Cut(whole, q)) /\ Len(SM3!Cut(whole, q)) = q
            /\ \A b \in 1 .. q :
                 SM3!Cut(whole, q)[b] = [j \in SM3!Offset |-> whole[(b - 1) * B + j + 1]]
        BY CutIs DEF B
      <3>3. c.digest = SM3!Cut(whole, q)
        <4>1. \A i \in 1 .. q * B : msg[i] = whole[i]
          BY <1>3, <1>4, <2>4
        <4>2. QED
          BY <1>3, <4>1, CutSame DEF B
      <3> DEFINE e == SM3!Cut(whole, q + 1)
      <3>4. e[q + 1] = filled
        <4>1. PICK n \in 1 .. q + 1 : n = q + 1 /\ n - 1 = q
          OBVIOUS
        <4>2. e[n] = [j \in SM3!Offset |-> whole[(n - 1) * B + j + 1]]
          BY <3>1
        <4>3. QED
          BY <2>6, <4>1, <4>2, Zenon
      <3>5. ASSUME NEW b \in 1..q PROVE e[b] = c.digest[b]
        <4>1. b \in 1 .. q + 1
          OBVIOUS
        <4>2. QED
          BY <3>1, <3>2, <3>3, <4>1
      <3> HIDE DEF e
      <3>6. Len(c.digest) = q /\ IsSeq(c.digest) /\ IsSeq(e) /\ Len(e) = Len(c.digest) + 1
        BY <3>1, <3>2, <3>3 DEF e
      <3>7. (\A b \in 1 .. Len(c.digest) : e[b] = c.digest[b]) /\ e[Len(c.digest) + 1] = filled
        BY <3>4, <3>5, <3>6
      <3>8. QED
        BY <3>6, <3>7, OneMore DEF e
    <2>8. v.digest = SM3!Cut(whole, q + 1) /\ v.nblocks = q + 1
      <3>1. q + 1 \in Nat /\ q + 1 < SM3!Word
        <4>1. Len(msg) = q * B + r /\ Len(msg) + Len(data) < SM3!Word
          BY <1>3
        <4>2. q + 1 <= q * B + B
          BY <1>1, <1>4
        <4>3. q * B + B <= Len(msg) + Len(data)
          BY <1>1, <1>4, <1>5, <2>2, <4>1
        <4>4. QED
          BY <1>1, <1>4, <1>5, <4>1, <4>2, <4>3
      <3>2. (c.nblocks + 1) % SM3!Word = q + 1
        BY <1>1, <1>3, <3>1, Small
      <3>3. QED
        BY <2>7, <3>2
    <2> HIDE DEF v
    <2>9. Holds(SM3!UpdateWhole(v, tail), whole \o tail)
      <3>1. PICK n \in Nat : n = q + 1
        OBVIOUS
      <3>2. /\ Len(whole) = n * SM3!BlockSize /\ v.digest = SM3!Cut(whole, n) /\ v.nblocks = n
        BY <2>5, <2>8, <3>1 DEF B
      <3>3. Len(whole) + Len(tail) < SM3!Word
        BY <1>1, <1>5, <2>2, <2>3, <2>4
      <3>4. QED
        BY <2>3, <2>4, <3>2, <3>3, WholeIs
    <2>10. whole \o tail = msg \o data
      <3>1. IsSeq(head) /\ IsSeq(tail)
        BY <2>3
      <3>2. (msg \o head) \o tail = msg \o (head \o tail)
        BY <3>1, Associates
      <3>3. QED
        BY <2>3, <3>2 DEF whole
    <2>11. QED
      BY <2>1, <2>9, <2>10
  <1>9. QED
    BY <1>6, <1>7, <1>8
-----------------------------------------------------------------------------
(* The bit count, put together from blocks and bytes.                      *)
LEMMA CountIs ==
  ASSUME NEW q \in Nat, NEW r \in SM3!Offset
  PROVE  /\ q * 2^BlockBits + r * 8 = 8 * (q * SM3!BlockSize + r)
         /\ q \div 2^(WordBits - BlockBits) = (8 * (q * SM3!BlockSize + r)) \div SM3!Word
  <1> DEFINE B == SM3!BlockSize
             P == 2^BlockBits
             Q == 2^(WordBits - BlockBits)
             W == SM3!Word
             bits == 8 * (q * B + r)
  <1>1. /\ B \in Nat \ {0} /\ P \in Nat \ {0} /\ Q \in Nat \ {0} /\ W \in Nat \ {0}
        /\ P = 8 * B /\ W = Q * P /\ r \in 0 .. B - 1
    BY BlockSizes, Zenon
  <1> HIDE DEF B, P, Q, W
  <1>2. q * B \in Nat /\ q * P = 8 * (q * B) /\ P * Q = Q * P
    BY <1>1
  <1>3. bits = q * P + r * 8 /\ bits \in Nat /\ r * 8 \in 0 .. P - 1
    BY <1>1, <1>2
  <1> HIDE DEF bits
  <1>4. PICK o \in 0 .. P - 1 : o = r * 8
    BY <1>3
  <1>5. bits \div P = q
    BY <1>1, <1>3, <1>4, QuotientIs
  <1>6. (bits \div P) \div Q = bits \div W
    BY <1>1, <1>2, <1>3, DivProduct
  <1>7. QED
    BY <1>3, <1>5, <1>6 DEF bits, B, P, Q, W

(* What sm3_final compresses is the padded message.                        *)
LEMMA FinalIs ==
  ASSUME NEW c, NEW msg, IsSeq(msg), Holds(c, msg)
  PROVE  SM3!Final(c).digest = SM3!Blocks(msg)
  <1> DEFINE B == SM3!BlockSize
             end == B - LenBytes
             high == SM3!High((8 * Len(msg)) \div SM3!Word)
             low == SM3!Low((8 * Len(msg)) % SM3!Word)
  <1>1. B \in Nat \ {0} /\ SM3!Offset = 0 .. B - 1
    BY BlockSizes, Zenon
  <1>2. PICK half \in Nat \ {0} : LenBytes = 2 * half /\ LenBytes \div 2 = half /\ LenBytes < B
    BY CountSizes
  <1>3. PICK q \in Nat : \E r \in SM3!Offset :
          /\ Len(msg) = q * B + r
          /\ c.digest = SM3!Cut(msg, q) /\ c.nblocks = q /\ c.num = r
          /\ \A j \in 0 .. r - 1 : c.block[j] = msg[q * B + j + 1]
    BY Zenon DEF Holds
  <1>4. PICK r \in SM3!Offset :
          /\ Len(msg) = q * B + r
          /\ c.digest = SM3!Cut(msg, q) /\ c.nblocks = q /\ c.num = r
          /\ \A j \in 0 .. r - 1 : c.block[j] = msg[q * B + j + 1]
    BY <1>3
  <1>5. /\ SM3!High(c.nblocks \div 2^(WordBits - BlockBits)) = high
        /\ SM3!Low((c.nblocks * 2^BlockBits + c.num * 8) % SM3!Word) = low
    BY <1>4, CountIs
  <1> HIDE DEF high, low
  <1> DEFINE marked == SM3!CopyTo(c.block, r, <<SM3!Mark>>)
             full == SM3!Fill(marked, r + 1, B - 1)
             padded == IF SM3!Fits(r) THEN SM3!Fill(marked, r + 1, end - 1) ELSE SM3!Fill(full, 0, end - 1)
             last == [j \in SM3!Offset |-> IF j < end THEN padded[j]
                                            ELSE IF j < end + half THEN high ELSE low]
  <1>6. SM3!Final(c).digest =
          IF SM3!Fits(r) THEN c.digest \o <<last>> ELSE (c.digest \o <<full>>) \o <<last>>
    BY <1>2, <1>4, <1>5, Zenon DEF SM3!Final, SM3!Compress
  <1>7. /\ r \in Nat /\ end \in Nat \ {0} /\ end = B - 2 * half /\ q * B \in Nat
        /\ r \in 0 .. B - 1 /\ (SM3!Fits(r) <=> r < end)
    <2>1. q * B \in Nat
      <3> HIDE DEF B
      <3>1. QED
        BY <1>1
    <2> HIDE DEF B
    <2>2. QED
      BY <1>1, <1>2, <2>1 DEF SM3!Fits, B
  <1> HIDE DEF end
  <1>8. ASSUME NEW j \in SM3!Offset
        PROVE  marked[j] = IF j < r THEN msg[q * B + j + 1] ELSE IF j = r THEN SM3!Mark ELSE c.block[j]
    <2> DEFINE o == <<SM3!Mark>>
    <2>1. Len(o) = 1 /\ o[1] = SM3!Mark
      OBVIOUS
    <2> HIDE DEF o
    <2>2. marked[j] = IF j \in r .. r + 1 - 1 THEN o[j - r + 1] ELSE c.block[j]
      BY <2>1 DEF SM3!CopyTo, o
    <2>3. j \in Nat /\ r \in Nat
      BY <1>1, <1>7
    <2>4. CASE j = r
      <3>1. j \in r .. r + 1 - 1 /\ j - r + 1 = 1
        BY <2>3, <2>4
      <3>2. QED
        BY <2>1, <2>2, <2>3, <2>4, <3>1
    <2>5. CASE j # r
      <3>1. j \notin r .. r + 1 - 1 /\ (j < r => j \in 0 .. r - 1)
        BY <2>3, <2>5
      <3>2. QED
        BY <1>4, <2>2, <2>5, <3>1
    <2>6. QED
      BY <2>4, <2>5
  <1> HIDE DEF marked
  <1>9. ASSUME NEW j \in SM3!Offset
        PROVE  full[j] = IF j < r THEN msg[q * B + j + 1] ELSE IF j = r THEN SM3!Mark ELSE SM3!Zero
    <2>1. full[j] = IF j \in r + 1 .. B - 1 THEN SM3!Zero ELSE marked[j]
      BY DEF SM3!Fill
    <2>2. j \in r + 1 .. B - 1 <=> ~(j < r) /\ j # r
      BY <1>1, <1>7
    <2>3. QED
      BY <1>8, <2>1, <2>2
  <1>10. ASSUME SM3!Fits(r), NEW j \in SM3!Offset, j < end
         PROVE  padded[j] = IF j < r THEN msg[q * B + j + 1] ELSE IF j = r THEN SM3!Mark ELSE SM3!Zero
    <2>1. padded[j] = IF j \in r + 1 .. end - 1 THEN SM3!Zero ELSE marked[j]
      BY <1>10 DEF SM3!Fill
    <2>2. j \in r + 1 .. end - 1 <=> ~(j < r) /\ j # r
      BY <1>1, <1>7, <1>10
    <2>3. QED
      BY <1>8, <2>1, <2>2
  <1>11. ASSUME ~SM3!Fits(r), NEW j \in SM3!Offset, j < end
         PROVE  padded[j] = SM3!Zero
    <2>1. padded[j] = IF j \in 0 .. end - 1 THEN SM3!Zero ELSE full[j]
      BY <1>11 DEF SM3!Fill
    <2>2. j \in 0 .. end - 1
      BY <1>1, <1>7, <1>11
    <2>3. QED
      BY <2>1, <2>2
  <1>12. full = [j \in SM3!Offset |-> full[j]]
    BY DEF SM3!Fill
  <1> HIDE DEF full, padded
  (* The reference, with its bytes counted from the last whole block.      *)
  <1> DEFINE byte(n, i) == SM3!PaddedByte(msg, n * B, i)
  <1>13. ASSUME NEW n \in Nat, NEW i \in Nat
         PROVE  byte(n, i) = IF i < Len(msg) THEN msg[i + 1] ELSE IF i = Len(msg) THEN SM3!Mark
                             ELSE IF i < n * B - LenBytes THEN SM3!Zero
                             ELSE IF i < n * B - half THEN high ELSE low
    BY <1>2 DEF SM3!PaddedByte, high, low
  <1> DEFINE n == (Len(msg) + LenBytes) \div B + 1
             blocks == SM3!Blocks(msg)
  <1>14. blocks = [b \in 1 .. n |-> [j \in SM3!Offset |-> byte(n, (b - 1) * B + j)]]
    BY Zenon DEF SM3!Blocks
  <1>15. /\ SM3!Fits(r) => n = q + 1
         /\ ~SM3!Fits(r) => n = q + 2
    <2> HIDE DEF B
    <2>1. CASE SM3!Fits(r)
      <3>1. PICK o \in 0 .. B - 1 : o = r + LenBytes
        BY <1>1, <1>2, <1>7, <2>1 DEF end
      <3>2. PICK a \in Nat : a = Len(msg) + LenBytes
        BY <1>2, <1>4, <1>7
      <3>3. a = q * B + o
        BY <1>2, <1>4, <1>7, <3>1, <3>2
      <3>4. a \div B = q
        BY <1>1, <3>3, QuotientIs
      <3>5. QED
        BY <2>1, <3>2, <3>4
    <2>2. CASE ~SM3!Fits(r)
      <3>1. PICK o \in 0 .. B - 1 : o = r + LenBytes - B
        BY <1>1, <1>2, <1>7, <2>2 DEF end
      <3>2. PICK a \in Nat : a = Len(msg) + LenBytes
        BY <1>2, <1>4, <1>7
      <3>3. PICK p \in Nat : p = q + 1
        OBVIOUS
      <3>4. p * B = q * B + B
        BY <1>1, <3>3
      <3>5. a = p * B + o
        BY <1>1, <1>2, <1>4, <1>7, <3>1, <3>2, <3>4
      <3>6. a \div B = p
        BY <1>1, <3>5, QuotientIs
      <3>7. QED
        BY <2>2, <3>2, <3>3, <3>6
    <2>3. QED
      BY <2>1, <2>2
  <1> HIDE DEF n, blocks, byte
  <1>16. n \in Nat /\ q < n
    BY <1>15
  <1>17. IsSeq(blocks) /\ Len(blocks) = n
    <2>1. blocks = [b \in 1 .. n |-> blocks[b]]
      BY <1>14
    <2>2. QED
      BY <1>16, <2>1, Counted
  <1>18. /\ IsSeq(c.digest) /\ Len(c.digest) = q
         /\ \A b \in 1 .. q : c.digest[b] = [j \in SM3!Offset |-> msg[(b - 1) * B + j + 1]]
    BY <1>4, CutIs
  <1>19. ASSUME NEW b \in 1 .. q PROVE blocks[b] = c.digest[b]
    <2>1. ASSUME NEW j \in SM3!Offset PROVE byte(n, (b - 1) * B + j) = msg[(b - 1) * B + j + 1]
      <3>1. b \in Nat \ {0} /\ b <= q /\ j \in Nat
        BY <1>1
      <3>2. (b - 1) * B + j + 1 \in 1 .. q * B
        BY <3>1, InBlock
      <3>3. PICK i \in Nat : i = (b - 1) * B + j
        <4> HIDE DEF B
        <4>1. (b - 1) * B \in Int
          BY <1>1, <3>1
        <4>2. QED
          BY <3>1, <3>2, <4>1
      <3> HIDE DEF B
      <3>4. i < Len(msg)
        BY <1>4, <1>7, <3>2, <3>3
      <3>5. byte(n, i) = msg[i + 1]
        BY <1>13, <1>16, <3>4
      <3>6. QED
        BY <3>3, <3>5
    <2>2. b \in 1 .. n
      BY <1>16
    <2> HIDE DEF B
    <2>3. blocks[b] = [j \in SM3!Offset |-> byte(n, (b - 1) * B + j)]
      BY <1>14, <2>2
    <2>4. QED
      BY <1>18, <2>1, <2>3
  <1>20. CASE SM3!Fits(r)
    <2>1. n = q + 1 /\ n * B = q * B + B
      <3> HIDE DEF B
      <3>1. QED
        BY <1>1, <1>15, <1>20
    <2>2. ASSUME NEW j \in SM3!Offset PROVE last[j] = byte(n, (n - 1) * B + j)
      <3>1. PICK i \in Nat : i = q * B + j
        BY <1>1, <1>7
      <3>2. (n - 1) * B + j = i
        BY <2>1, <3>1
      <3> HIDE DEF B
      <3>3. /\ i < Len(msg) <=> j < r
            /\ i = Len(msg) <=> j = r
            /\ i < n * B - LenBytes <=> j < end
            /\ i < n * B - half <=> j < end + half
        BY <1>1, <1>2, <1>4, <1>7, <2>1, <3>1
      <3>4. r < end /\ j \in Nat
        BY <1>1, <1>7, <1>20
      <3>5. byte(n, i) = IF j < r THEN msg[i + 1] ELSE IF j = r THEN SM3!Mark
                         ELSE IF j < end THEN SM3!Zero ELSE IF j < end + half THEN high ELSE low
        BY <1>13, <1>16, <3>3
      <3>6. CASE j < end
        <4>1. last[j] = padded[j]
          BY <3>6
        <4>2. QED
          BY <1>10, <1>20, <3>1, <3>2, <3>5, <3>6, <4>1
      <3>7. CASE ~(j < end)
        <4>1. last[j] = IF j < end + half THEN high ELSE low
          BY <3>7
        <4>2. ~(j < r) /\ j # r
          BY <1>7, <3>4, <3>7
        <4>3. QED
          BY <3>2, <3>5, <3>7, <4>1, <4>2
      <3>8. QED
        BY <3>6, <3>7
    <2>3. last = blocks[n]
      <3>1. n \in 1 .. n
        BY <1>16
      <3>2. blocks[n] = [j \in SM3!Offset |-> byte(n, (n - 1) * B + j)]
        BY <1>14, <3>1
      <3>3. QED
        BY <2>2, <3>2
    <2> HIDE DEF last
    <2>4. Len(blocks) = Len(c.digest) + 1 /\ \A b \in 1 .. Len(c.digest) : blocks[b] = c.digest[b]
      BY <1>17, <1>18, <1>19, <2>1
    <2>5. blocks[Len(c.digest) + 1] = last
      BY <1>18, <2>1, <2>3
    <2>6. c.digest \o <<last>> = blocks
      BY <1>17, <1>18, <2>4, <2>5, OneMore
    <2>7. QED
      BY <1>6, <1>20, <2>6 DEF blocks
  <1>21. CASE ~SM3!Fits(r)
    <2>1. n = q + 2 /\ n * B = q * B + 2 * B /\ (n - 1) * B = q * B + B
      <3> HIDE DEF B
      <3>1. QED
        BY <1>1, <1>15, <1>21
    <2>2. ASSUME NEW j \in SM3!Offset PROVE full[j] = byte(n, (n - 2) * B + j)
      <3>1. PICK i \in Nat : i = q * B + j
        BY <1>1, <1>7
      <3>2. (n - 2) * B + j = i
        BY <2>1, <3>1
      <3> HIDE DEF B
      <3>3. /\ i < Len(msg) <=> j < r
            /\ i = Len(msg) <=> j = r
            /\ i < n * B - LenBytes
        BY <1>1, <1>2, <1>4, <1>7, <2>1, <3>1
      <3>4. byte(n, i) = IF j < r THEN msg[i + 1] ELSE IF j = r THEN SM3!Mark ELSE SM3!Zero
        BY <1>13, <1>16, <3>3
      <3>5. QED
        BY <1>9, <3>1, <3>2, <3>4
    <2>3. ASSUME NEW j \in SM3!Offset PROVE last[j] = byte(n, (n - 1) * B + j)
      <3>1. PICK i \in Nat : i = q * B + B + j
        BY <1>1, <1>7
      <3>2. (n - 1) * B + j = i
        BY <2>1, <3>1
      <3> HIDE DEF B
      <3>3. /\ ~(i < Len(msg)) /\ i # Len(msg)
            /\ i < n * B - LenBytes <=> j < end
            /\ i < n * B - half <=> j < end + half
        BY <1>1, <1>2, <1>4, <1>7, <2>1, <3>1
      <3>4. byte(n, i) = IF j < end THEN SM3!Zero ELSE IF j < end + half THEN high ELSE low
        BY <1>13, <1>16, <3>3
      <3>5. last[j] = IF j < end THEN padded[j] ELSE IF j < end + half THEN high ELSE low
        OBVIOUS
      <3>6. QED
        BY <1>11, <1>21, <3>2, <3>4, <3>5
    <2>4. full = blocks[n - 1] /\ last = blocks[n]
      <3>1. n \in 1 .. n /\ n - 1 \in 1 .. n /\ (n - 1) - 1 = n - 2
        BY <1>16, <2>1
      <3>2. blocks[n] = [j \in SM3!Offset |-> byte(n, (n - 1) * B + j)]
        BY <1>14, <3>1
      <3>3. blocks[n - 1] = [j \in SM3!Offset |-> byte(n, (n - 2) * B + j)]
        BY <1>14, <3>1
      <3>4. last = [j \in SM3!Offset |-> last[j]]
        OBVIOUS
      <3> HIDE DEF last
      <3>5. QED
        BY <1>12, <2>2, <2>3, <3>2, <3>3, <3>4
    <2> HIDE DEF last
    <2> DEFINE front == SubSeq(blocks, 1, n - 1)
               rest == SubSeq(blocks, (n - 1) + 1, Len(blocks))
    <2>5. IsSeq(front) /\ Len(front) = n - 1 /\ \A b \in 1 .. n - 1 : front[b] = blocks[b]
      <3>1. PICK m \in Nat : m = n - 1
        BY <1>16, <2>1
      <3>2. m <= Len(blocks)
        BY <1>17, <3>1
      <3>3. /\ IsSeq(SubSeq(blocks, 1, m)) /\ Len(SubSeq(blocks, 1, m)) = m
            /\ \A b \in 1..m : SubSeq(blocks, 1, m)[b] = blocks[b]
        BY <1>17, <3>2, CutInTwo
      <3>4. QED
        BY <3>1, <3>3
    <2> HIDE DEF front
    <2>6. c.digest \o <<full>> = front
      <3>1. Len(front) = Len(c.digest) + 1
        BY <1>18, <2>1, <2>5
      <3>2. \A b \in 1 .. Len(c.digest) : front[b] = c.digest[b]
        BY <1>18, <1>19, <2>1, <2>5
      <3>3. front[Len(c.digest) + 1] = full
        BY <1>18, <2>1, <2>4, <2>5
      <3>4. QED
        BY <1>18, <2>5, <3>1, <3>2, <3>3, OneMore
    <2>7. front \o <<last>> = blocks
      <3>1. Len(blocks) = Len(front) + 1 /\ \A b \in 1 .. Len(front) : blocks[b] = front[b]
        BY <1>16, <1>17, <2>1, <2>5
      <3>2. blocks[Len(front) + 1] = last
        BY <1>16, <2>1, <2>4, <2>5
      <3>3. QED
        BY <1>17, <2>5, <3>1, <3>2, OneMore
    <2>8. QED
      BY <1>6, <1>21, <2>6, <2>7 DEF blocks
  <1>22. QED
    BY <1>20, <1>21
-----------------------------------------------------------------------------
(* Digests and their sizes.                                                *)
LEMMA DigestIs ==
  ASSUME NEW blocks
  PROVE  IsSeq(SM3!Digest(blocks)) /\ Len(SM3!Digest(blocks)) = DigestLen
  <1> DEFINE d == SM3!Digest(blocks)
  <1>1. d = [j \in 1 .. DigestLen |-> d[j]]
    BY DEF SM3!Digest
  <1> HIDE DEF d
  <1>2. DigestLen \in Nat
    BY BlockSizes
  <1>3. IsSeq(d) /\ Len(d) = DigestLen
    BY <1>1, <1>2, Counted
  <1>4. QED
    BY <1>3 DEF d

LEMMA HashIs ==
  ASSUME NEW msg
  PROVE  IsSeq(SM3!Hash(msg)) /\ Len(SM3!Hash(msg)) = DigestLen
  BY DigestIs DEF SM3!Hash

(* A new context holds nothing, whatever is in its block.                  *)
LEMMA NewHolds ==
  ASSUME NEW block
  PROVE  Holds(SM3!NewCtx(block), << >>)
  <1>1. /\ IsSeq(SM3!Cut(<< >>, 0)) /\ Len(SM3!Cut(<< >>, 0)) = 0
    BY CutIs
  <1>2. SM3!Cut(<< >>, 0) = << >>
    BY <1>1 DEF IsSeq
  <1>3. SM3!BlockSize \in Nat \ {0} /\ SM3!Offset = 0 .. SM3!BlockSize - 1
    BY BlockSizes, Zenon
  <1>4. PICK q \in Nat : q = 0
    OBVIOUS
  <1>5. PICK r \in SM3!Offset : r = 0
    BY <1>3
  <1>6. Len(<< >>) = q * SM3!BlockSize + r
    <2> DEFINE B == SM3!BlockSize
    <2>1. B \in Nat
      BY <1>3
    <2> HIDE DEF B
    <2>2. Len(<< >>) = q * B + r
      BY <1>4, <1>5, <2>1
    <2>3. QED
      BY <2>2 DEF B
  <1> DEFINE c == SM3!NewCtx(block)
  <1>7. c.digest = SM3!Cut(<< >>, q) /\ c.nblocks = q /\ c.num = r
    BY <1>2, <1>4, <1>5 DEF SM3!NewCtx
  <1>8. \A j \in 0 .. r - 1 : c.block[j] = << >>[q * SM3!BlockSize + j + 1]
    BY <1>5
  <1> HIDE DEF c
  <1>9. Holds(c, << >>)
    BY <1>6, <1>7, <1>8 DEF Holds
  <1>10. QED
    BY <1>9 DEF c

LEMMA NothingMore ==
  ASSUME NEW x, IsSeq(x)
  PROVE  << >> \o x = x /\ x \o << >> = x
  <1> DEFINE S == {x[i] : i \in 1..Len(x)}
  <1>1. \A i \in 1..Len(x) : x[i] \in S
    OBVIOUS
  <1> HIDE DEF S
  <1>2. x \in Seq(S)
    BY <1>1, Typed
  <1>3. QED
    BY <1>2, ConcatEmptySeq

LEMMA FedAtOnce ==
  ASSUME NEW block, NEW data, IsSeq(data), Len(data) < SM3!Word
  PROVE  Holds(SM3!Update(SM3!NewCtx(block), data), data)
  <1> DEFINE c == SM3!NewCtx(block)
             e == << >>
  <1>1. Holds(c, e) /\ IsSeq(e) /\ Len(e) = 0
    BY NewHolds, NoElement
  <1>2. Len(e) + Len(data) < SM3!Word
    BY <1>1 DEF IsSeq
  <1>3. e \o data = data
    BY NothingMore
  <1> HIDE DEF c, e
  <1>4. Holds(SM3!Update(c, data), e \o data)
    BY <1>1, <1>2, UpdateIs
  <1>5. QED
    BY <1>3, <1>4 DEF c

LEMMA OneShotIs ==
  ASSUME NEW data, IsSeq(data), Len(data) < SM3!Word
  PROVE  SM3!OneShot(data) = SM3!Hash(data)
  <1> DEFINE c == SM3!Update(SM3!NewCtx(SM3!StaleBlock), data)
  <1>1. Holds(c, data)
    BY FedAtOnce
  <1> HIDE DEF c
  <1>2. SM3!Final(c).digest = SM3!Blocks(data)
    BY <1>1, FinalIs
  <1>3. QED
    BY <1>2 DEF c, SM3!OneShot, SM3!Hash

-----------------------------------------------------------------------------
(* The key of the HMAC as a block, XORed in place.                         *)
Short(bytes) == IF Len(bytes) <= SM3!BlockSize THEN bytes ELSE SM3!Hash(bytes)

KeyOf(bytes, pads) ==
  [j \in SM3!Offset |->
     [byte |-> IF j < Len(Short(bytes)) THEN Short(bytes)[j + 1] ELSE SM3!Zero, pads |-> pads]]

LEMMA KeyBlockIs ==
  ASSUME NEW bytes, IsSeq(bytes), Len(bytes) < SM3!Word
  PROVE  SM3!KeyBlock(bytes) = KeyOf(bytes, {})
  <1>1. SM3!OneShot(bytes) = SM3!Hash(bytes)
    BY OneShotIs
  <1>2. QED
    BY <1>1, Zenon DEF SM3!KeyBlock, KeyOf, Short

LEMMA XorKey ==
  ASSUME NEW bytes, NEW have, NEW pads
  PROVE  SM3!XorEach(KeyOf(bytes, have), pads) = KeyOf(bytes, (have \ pads) \cup (pads \ have))
  <1> DEFINE new == (have \ pads) \cup (pads \ have)
             old == KeyOf(bytes, have)
  <1>1. ASSUME NEW j \in SM3!Offset
        PROVE  [old[j] EXCEPT !.pads = (@ \ pads) \cup (pads \ @)] = KeyOf(bytes, new)[j]
    <2>1. PICK b : b = IF j < Len(Short(bytes)) THEN Short(bytes)[j + 1] ELSE SM3!Zero
      OBVIOUS
    <2>2. old[j] = [byte |-> b, pads |-> have] /\ KeyOf(bytes, new)[j] = [byte |-> b, pads |-> new]
      BY <2>1, Zenon DEF KeyOf
    <2>3. QED
      BY <2>2
  <1>2. KeyOf(bytes, new) = [j \in SM3!Offset |-> KeyOf(bytes, new)[j]]
    BY DEF KeyOf
  <1>3. QED
    BY <1>1, <1>2, Zenon DEF SM3!XorEach

LEMMA KeyBytesIs ==
  ASSUME NEW bytes, IsSeq(Short(bytes)), NEW pad
  PROVE  /\ SM3!AsBytes(KeyOf(bytes, {pad})) = SM3!KeyXor(bytes, pad)
         /\ IsSeq(SM3!KeyXor(bytes, pad)) /\ Len(SM3!KeyXor(bytes, pad)) = SM3!BlockSize
  <1> DEFINE B == SM3!BlockSize
             f == SM3!KeyXor(bytes, pad)
             old == KeyOf(bytes, {pad})
             short == Short(bytes)
  <1>1. B \in Nat \ {0} /\ SM3!Offset = 0 .. B - 1
    BY BlockSizes, Zenon
  <1>2. f = [i \in 1 .. B |-> <<"xor", IF i <= Len(short) THEN short[i] ELSE SM3!Zero, {pad}>>]
    BY Zenon DEF SM3!KeyXor, Short
  <1>3. SM3!AsBytes(old) = [i \in 1 .. B |-> <<"xor", old[i - 1].byte, old[i - 1].pads>>]
    BY Zenon DEF SM3!AsBytes
  <1>4. \A j \in SM3!Offset : old[j] = [byte |-> IF j < Len(short) THEN short[j + 1] ELSE SM3!Zero, pads |-> {pad}]
    BY Zenon DEF KeyOf
  <1>5. Len(short) \in Nat
    BY DEF IsSeq
  <1> HIDE DEF f, old, short, B
  <1>6. ASSUME NEW i \in 1 .. B
        PROVE  old[i - 1].byte = (IF i <= Len(short) THEN short[i] ELSE SM3!Zero) /\ old[i - 1].pads = {pad}
    <2>1. PICK j \in SM3!Offset : j = i - 1
      BY <1>1
    <2>2. j + 1 = i /\ (j < Len(short) <=> i <= Len(short))
      BY <1>1, <1>5, <2>1
    <2>3. old[j].byte = (IF j < Len(short) THEN short[j + 1] ELSE SM3!Zero) /\ old[j].pads = {pad}
      <3>1. PICK b : b = IF j < Len(short) THEN short[j + 1] ELSE SM3!Zero
        OBVIOUS
      <3>2. old[j] = [byte |-> b, pads |-> {pad}]
        BY <1>4, <3>1, Zenon
      <3>3. old[j].byte = b /\ old[j].pads = {pad}
        BY <3>2
      <3>4. QED
        BY <3>1, <3>3
    <2>4. QED
      BY <2>1, <2>2, <2>3
  <1>7. SM3!AsBytes(old) = f
    BY <1>2, <1>3, <1>6
  <1>8. f = [i \in 1 .. B |-> f[i]]
    BY <1>2
  <1>9. IsSeq(f) /\ Len(f) = B
    BY <1>1, <1>8, Counted
  <1>10. QED
    BY <1>7, <1>9 DEF f, old, B

LEMMA ShortIs ==
  ASSUME NEW bytes, IsSeq(bytes)
  PROVE  IsSeq(Short(bytes))
  BY HashIs DEF Short

LEMMA PadsDiffer ==
  /\ ({} \ {SM3!IPAD}) \cup ({SM3!IPAD} \ {}) = {SM3!IPAD}
  /\ ({SM3!IPAD} \ SM3!OuterPad) \cup (SM3!OuterPad \ {SM3!IPAD}) = {SM3!OPAD}
  BY DEF SM3!IPAD, SM3!OPAD, SM3!OuterPad
-----------------------------------------------------------------------------
(* Byte k of longer output, and output that grows by a digest or a part.   *)
LongerByte(op, k) ==
  SM3!Hash(SM3!Numbered(op, (k - 1) \div DigestLen))[((k - 1) % DigestLen) + 1]

LongerOut(op, n) == [k \in 1..n |-> LongerByte(op, k)]

LEMMA NumberedIs ==
  ASSUME NEW op, NEW i
  PROVE  SM3!OneShot(SM3!Numbered(op, i)) = SM3!Hash(SM3!Numbered(op, i))
  <1> DEFINE m == SM3!Numbered(op, i)
             a == <<SM3!Text(1)>>
             b == <<SM3!Counter(i)>>
  <1>1. IsSeq(a) /\ Len(a) = 1 /\ IsSeq(b) /\ Len(b) = 1
    BY OneElement
  <1>2. m = a \o b \/ m = b \o a
    BY DEF SM3!Numbered, SM3!Seed
  <1> HIDE DEF a, b, m
  <1>3. /\ IsSeq(a \o b) /\ Len(a \o b) = Len(a) + Len(b)
        /\ IsSeq(b \o a) /\ Len(b \o a) = Len(b) + Len(a)
    BY <1>1, Joined
  <1>4. IsSeq(m) /\ Len(m) = 2
    <2>1. IsSeq(a \o b) /\ Len(a \o b) = 2 /\ IsSeq(b \o a) /\ Len(b \o a) = 2
      BY <1>1, <1>3
    <2>2. QED
      BY <1>2, <2>1, Zenon
  <1>5. 2 < SM3!Word
    <2>1. PICK half \in Nat \ {0} : LenBytes = 2 * half /\ LenBytes < SM3!BlockSize
      BY CountSizes
    <2>2. SM3!BlockSize \in Nat /\ SM3!Word \in Nat /\ MaxText \in Nat /\ SM3!BlockSize + MaxText < SM3!Word
      BY BlockSizes, Zenon
    <2>3. QED
      BY <2>1, <2>2
  <1>6. SM3!OneShot(m) = SM3!Hash(m)
    BY <1>4, <1>5, OneShotIs
  <1>7. QED
    BY <1>6 DEF m

LEMMA OutMore ==
  ASSUME NEW op, NEW i \in Nat, NEW n \in 0 .. DigestLen, NEW more, IsSeq(more), Len(more) = n,
         \A m \in 1..n : more[m] = SM3!Hash(SM3!Numbered(op, i))[m]
  PROVE  LongerOut(op, i * DigestLen) \o more = LongerOut(op, i * DigestLen + n)
  <1> DEFINE D == DigestLen
             have == LongerOut(op, i * D)
             all == LongerOut(op, i * D + n)
  <1>1. D \in Nat \ {0}
    BY BlockSizes
  <1> HIDE DEF D
  <1>2. i * D \in Nat /\ i * D + n \in Nat /\ n \in Nat
    BY <1>1 DEF D
  <1>3. IsSeq(have) /\ Len(have) = i * D /\ \A k \in 1 .. i * D : have[k] = LongerByte(op, k)
    <2>1. have = [k \in 1 .. i * D |-> have[k]] /\ \A k \in 1 .. i * D : have[k] = LongerByte(op, k)
      BY DEF LongerOut
    <2> HIDE DEF have
    <2>2. QED
      BY <1>2, <2>1, Counted
  <1>4. IsSeq(all) /\ Len(all) = i * D + n /\ \A k \in 1 .. i * D + n : all[k] = LongerByte(op, k)
    <2>1. all = [k \in 1 .. i * D + n |-> all[k]] /\ \A k \in 1 .. i * D + n : all[k] = LongerByte(op, k)
      BY DEF LongerOut
    <2> HIDE DEF all
    <2>2. QED
      BY <1>2, <2>1, Counted
  <1> HIDE DEF have, all
  <1>5. /\ IsSeq(have \o more) /\ Len(have \o more) = Len(have) + Len(more)
        /\ \A k \in 1 .. Len(have) : (have \o more)[k] = have[k]
        /\ \A k \in 1 .. Len(more) : (have \o more)[Len(have) + k] = more[k]
    BY <1>3, Joined
  <1>6. ASSUME NEW m \in 1..n PROVE (have \o more)[i * D + m] = all[i * D + m]
    <2>1. (have \o more)[i * D + m] = SM3!Hash(SM3!Numbered(op, i))[m]
      BY <1>3, <1>5
    <2>2. PICK k \in 1 .. i * D + n : k = i * D + m
      BY <1>2
    <2>3. PICK a \in Nat : a = k - 1
      OBVIOUS
    <2>4. PICK r \in 0 .. D - 1 : r = m - 1
      BY <1>1 DEF D
    <2>5. a = i * D + r
      BY <1>2, <2>2, <2>3, <2>4
    <2>6. a \div D = i /\ a % D = r
      BY <1>1, <2>5, QuotientIs
    <2>7. LongerByte(op, k) = SM3!Hash(SM3!Numbered(op, i))[r + 1]
      BY <2>3, <2>6 DEF LongerByte, D
    <2>8. r + 1 = m
      BY <2>4
    <2>9. QED
      BY <1>4, <2>1, <2>2, <2>7, <2>8
  <1>7. ASSUME NEW k \in 1 .. Len(have \o more) PROVE (have \o more)[k] = all[k]
    <2>1. k \in 1 .. i * D + n
      BY <1>3, <1>5
    <2>2. CASE k \in 1 .. i * D
      BY <1>3, <1>4, <1>5, <2>1, <2>2
    <2>3. CASE k \notin 1 .. i * D
      <3>1. PICK m \in 1..n : k = i * D + m
        <4>1. k - i * D \in 1..n /\ k = i * D + (k - i * D)
          BY <1>2, <2>1, <2>3
        <4>2. QED
          BY <4>1
      <3>2. QED
        BY <1>6, <3>1
    <2>4. QED
      BY <2>2, <2>3
  <1>8. Len(have \o more) = Len(all)
    BY <1>3, <1>4, <1>5
  <1>9. have \o more = all
    BY <1>4, <1>5, <1>7, <1>8, Same
  <1>10. QED
    BY <1>9 DEF have, all, D

-----------------------------------------------------------------------------
(* What the context, the key and the longer output hold between the calls. *)
KeyGiven(n) == [i \in 1..n |-> SM3!KeyByte(i)]

FedText == IsSeq(message) /\ Len(message) \in Nat /\ Len(message) <= MaxText

HashInv == longer = SM3!NoCall /\ keyGiven = SM3!NoKey /\ FedText /\ Holds(ctx, message)

HmacInv ==
  /\ longer = SM3!NoCall /\ FedText
  /\ \E n \in 0 .. MaxKey :
       /\ keyGiven = {KeyGiven(n)}
       /\ key = KeyOf(KeyGiven(n), {SM3!IPAD})
       /\ Holds(ctx, SM3!KeyXor(KeyGiven(n), SM3!IPAD) \o message)

LongerInv ==
  \E op \in SM3!Calls : \E outlen, i \in Nat :
    /\ longer = [op |-> op, outlen |-> outlen, i |-> i, out |-> LongerOut(op, i * DigestLen)]
    /\ op = "mgf1_sm3" => i * DigestLen <= outlen

SM3Inv ==
  /\ state = "hash" => HashInv
  /\ state = "hmac" => HmacInv
  /\ state = "longer" => LongerInv
  /\ DigestsAreSM3

(* Before the end of a call nothing is claimed of its result.              *)
LEMMA NotDone ==
  /\ state # "done" => DigestsAreSM3
  /\ state' # "done" => DigestsAreSM3'
  BY DEF DigestsAreSM3, SM3!DigestIsHash, SM3!MacIsHmac, SM3!LongerIsCounterMode

LEMMA MoreIs ==
  ASSUME NEW n \in Nat
  PROVE  IsSeq(SM3!More(n)) /\ Len(SM3!More(n)) = n
  <1> DEFINE f == SM3!More(n)
  <1>1. f = [i \in 1..n |-> f[i]]
    BY DEF SM3!More
  <1> HIDE DEF f
  <1>2. IsSeq(f) /\ Len(f) = n
    BY <1>1, Counted
  <1>3. QED
    BY <1>2 DEF f

LEMMA KeyGivenIs ==
  ASSUME NEW n \in 0 .. MaxKey
  PROVE  /\ IsSeq(KeyGiven(n)) /\ Len(KeyGiven(n)) = n /\ n < SM3!Word
         /\ IsSeq(Short(KeyGiven(n)))
  <1> DEFINE f == KeyGiven(n)
  <1>1. f = [i \in 1..n |-> f[i]]
    BY DEF KeyGiven
  <1> HIDE DEF f
  <1>2. MaxKey \in Nat /\ SM3!Word \in Nat /\ MaxKey < SM3!Word
    BY BlockSizes, Zenon
  <1>3. n \in Nat /\ n < SM3!Word
    BY <1>2
  <1>4. IsSeq(f) /\ Len(f) = n
    BY <1>1, <1>3, Counted
  <1>5. QED
    BY <1>3, <1>4, ShortIs DEF f
-----------------------------------------------------------------------------
(* The calls.                                                              *)
LEMMA SM3InitInv == SM3!Init => SM3Inv
  <1>1. ASSUME SM3!Init PROVE state = "raw"
    BY <1>1 DEF SM3!Init
  <1>2. QED
    BY <1>1, NotDone DEF SM3Inv

LEMMA StartHash == SM3Inv /\ SM3!SM3Init => SM3Inv'
  <1> SUFFICES ASSUME SM3!SM3Init PROVE SM3Inv'
    OBVIOUS
  <1>1. /\ ctx' = SM3!NewCtx(SM3!StaleBlock) /\ state' = "hash" /\ message' = << >>
        /\ keyGiven' = SM3!NoKey /\ longer' = SM3!NoCall
    BY DEF SM3!SM3Init
  <1>2. Holds(ctx', message')
    BY <1>1, NewHolds, Zenon
  <1>3. FedText'
    BY <1>1, NoElement, BlockSizes DEF FedText
  <1>4. HashInv'
    BY <1>1, <1>2, <1>3 DEF HashInv
  <1>5. DigestsAreSM3'
    BY <1>1, NotDone
  <1>6. QED
    BY <1>1, <1>4, <1>5 DEF SM3Inv

LEMMA FeedText == ASSUME SM3Inv, NEW n \in 0 .. MaxText, SM3!SM3Update(n) PROVE SM3Inv'
  <1> DEFINE more == SM3!More(n)
  <1>1. /\ state \in {"hash", "hmac"} /\ Len(message) + n <= MaxText
        /\ ctx' = SM3!Update(ctx, more) /\ message' = message \o more
        /\ UNCHANGED <<key, state, keyGiven, result, longer>>
    BY DEF SM3!SM3Update
  <1>2. IsSeq(more) /\ Len(more) = n /\ n \in Nat
    BY MoreIs
  <1> HIDE DEF more
  <1>3. /\ FedText /\ SM3!BlockSize \in Nat /\ SM3!Word \in Nat /\ MaxText \in Nat
        /\ SM3!BlockSize + MaxText < SM3!Word
    BY <1>1, BlockSizes, Zenon DEF SM3Inv, HashInv, HmacInv
  <1>4. IsSeq(message \o more) /\ Len(message \o more) = Len(message) + n
    BY <1>2, <1>3, Joined DEF FedText
  <1>5. FedText'
    BY <1>1, <1>2, <1>3, <1>4 DEF FedText
  <1>6. DigestsAreSM3'
    BY <1>1, NotDone
  <1>7. CASE state = "hash"
    <2>1. HashInv
      BY <1>7 DEF SM3Inv
    <2>2. Len(message) + Len(more) < SM3!Word
      BY <1>1, <1>2, <1>3 DEF FedText
    <2>3. Holds(SM3!Update(ctx, more), message \o more)
      BY <1>2, <1>3, <2>1, <2>2, UpdateIs DEF HashInv, FedText
    <2>4. HashInv'
      BY <1>1, <1>5, <2>1, <2>3 DEF HashInv
    <2>5. QED
      BY <1>1, <1>6, <1>7, <2>4 DEF SM3Inv
  <1>8. CASE state = "hmac"
    <2>1. HmacInv
      BY <1>8 DEF SM3Inv
    <2>2. PICK k \in 0 .. MaxKey :
            /\ keyGiven = {KeyGiven(k)} /\ key = KeyOf(KeyGiven(k), {SM3!IPAD})
            /\ Holds(ctx, SM3!KeyXor(KeyGiven(k), SM3!IPAD) \o message)
      BY <2>1 DEF HmacInv
    <2> DEFINE pad == SM3!KeyXor(KeyGiven(k), SM3!IPAD)
    <2>3. IsSeq(pad) /\ Len(pad) = SM3!BlockSize
      BY KeyGivenIs, KeyBytesIs
    <2>4. Holds(ctx, pad \o message)
      BY <2>2
    <2> HIDE DEF pad
    <2>5. IsSeq(pad \o message) /\ Len(pad \o message) = SM3!BlockSize + Len(message)
      BY <1>3, <2>3, Joined DEF FedText
    <2>6. Len(pad \o message) + Len(more) < SM3!Word
      BY <1>1, <1>2, <1>3, <2>5 DEF FedText
    <2>7. Holds(SM3!Update(ctx, more), (pad \o message) \o more)
      BY <1>2, <2>4, <2>5, <2>6, UpdateIs
    <2>8. (pad \o message) \o more = pad \o (message \o more)
      BY <1>2, <1>3, <2>3, Associates DEF FedText
    <2>9. Holds(ctx', pad \o message')
      BY <1>1, <2>7, <2>8
    <2>10. HmacInv'
      <3>1. longer' = SM3!NoCall
        BY <1>1, <2>1 DEF HmacInv
      <3>2. /\ keyGiven' = {KeyGiven(k)} /\ key' = KeyOf(KeyGiven(k), {SM3!IPAD})
            /\ Holds(ctx', SM3!KeyXor(KeyGiven(k), SM3!IPAD) \o message')
        BY <1>1, <2>2, <2>9 DEF pad
      <3>3. QED
        BY <1>5, <3>1, <3>2 DEF HmacInv
    <2>11. QED
      BY <1>1, <1>6, <1>8, <2>10 DEF SM3Inv
  <1>9. QED
    BY <1>1, <1>7, <1>8

LEMMA EndHash == SM3Inv /\ SM3!SM3Final => SM3Inv'
  <1> SUFFICES ASSUME SM3Inv, SM3!SM3Final PROVE SM3Inv'
    OBVIOUS
  <1>1. /\ state = "hash" /\ ctx' = SM3!Final(ctx) /\ result' = SM3!Digest(ctx'.digest)
        /\ state' = "done" /\ UNCHANGED <<key, message, keyGiven, longer>>
    BY DEF SM3!SM3Final
  <1>2. HashInv
    BY <1>1 DEF SM3Inv
  <1>3. SM3!Final(ctx).digest = SM3!Blocks(message)
    BY <1>2, FinalIs DEF HashInv, FedText
  <1>4. result' = SM3!Hash(message')
    BY <1>1, <1>3 DEF SM3!Hash
  <1>5. keyGiven' = SM3!NoKey /\ longer' = SM3!NoCall
    BY <1>1, <1>2 DEF HashInv
  <1>6. DigestsAreSM3'
    BY <1>4, <1>5 DEF DigestsAreSM3, SM3!DigestIsHash, SM3!MacIsHmac, SM3!LongerIsCounterMode, SM3!NoKey
  <1>7. QED
    BY <1>1, <1>6 DEF SM3Inv

LEMMA StartHmac == ASSUME SM3Inv, NEW n \in 0 .. MaxKey, SM3!HmacInit(n) PROVE SM3Inv'
  <1> DEFINE bytes == KeyGiven(n)
  <1>1. /\ key' = SM3!XorEach(SM3!KeyBlock(bytes), {SM3!IPAD})
        /\ ctx' = SM3!Update(SM3!NewCtx(SM3!StaleBlock), SM3!AsBytes(key'))
        /\ state' = "hmac" /\ message' = << >> /\ keyGiven' = {bytes}
        /\ longer' = SM3!NoCall
    BY DEF SM3!HmacInit, KeyGiven
  <1>2. IsSeq(bytes) /\ Len(bytes) < SM3!Word /\ IsSeq(Short(bytes))
    BY KeyGivenIs
  <1> DEFINE pad == SM3!KeyXor(bytes, SM3!IPAD)
  <1>3. key' = KeyOf(bytes, {SM3!IPAD})
    <2> HIDE DEF bytes
    <2>1. SM3!KeyBlock(bytes) = KeyOf(bytes, {})
      BY <1>2, KeyBlockIs
    <2>2. SM3!XorEach(KeyOf(bytes, {}), {SM3!IPAD}) = KeyOf(bytes, ({} \ {SM3!IPAD}) \cup ({SM3!IPAD} \ {}))
      BY XorKey
    <2>3. QED
      BY <1>1, <2>1, <2>2, PadsDiffer, Zenon
  <1>4. SM3!AsBytes(key') = pad /\ IsSeq(pad) /\ Len(pad) = SM3!BlockSize
    <2>1. SM3!AsBytes(KeyOf(bytes, {SM3!IPAD})) = pad /\ IsSeq(pad) /\ Len(pad) = SM3!BlockSize
      BY <1>2, KeyBytesIs
    <2> HIDE DEF pad
    <2>2. QED
      BY <1>3, <2>1, Zenon
  <1> HIDE DEF pad, bytes
  <1>5. Len(pad) < SM3!Word
    <2>1. /\ SM3!BlockSize \in Nat /\ SM3!Word \in Nat /\ MaxText \in Nat
          /\ SM3!BlockSize + MaxText < SM3!Word
      BY BlockSizes, Zenon
    <2>2. QED
      BY <1>4, <2>1
  <1>6. Holds(SM3!Update(SM3!NewCtx(SM3!StaleBlock), pad), pad)
    BY <1>4, <1>5, FedAtOnce
  <1>7. pad \o message' = pad
    BY <1>1, <1>4, NothingMore
  <1>8. Holds(ctx', pad \o message')
    BY <1>1, <1>4, <1>6, <1>7, Zenon
  <1>9. FedText'
    BY <1>1, NoElement, BlockSizes DEF FedText
  <1>10. HmacInv'
    BY <1>1, <1>3, <1>8, <1>9 DEF HmacInv, pad, bytes
  <1>11. DigestsAreSM3'
    BY <1>1, NotDone
  <1>12. QED
    BY <1>1, <1>10, <1>11 DEF SM3Inv

LEMMA EndHmac == SM3Inv /\ SM3!HmacFinal => SM3Inv'
  <1> SUFFICES ASSUME SM3Inv, SM3!HmacFinal PROVE SM3Inv'
    OBVIOUS
  <1> DEFINE inner == SM3!Final(ctx)
             first == SM3!Update(SM3!NewCtx(inner.block), SM3!AsBytes(key'))
             outer == SM3!Update(first, SM3!Digest(inner.digest))
  <1>1. /\ state = "hmac" /\ key' = SM3!XorEach(key, SM3!OuterPad)
        /\ ctx' = SM3!Final(outer) /\ result' = SM3!Digest(ctx'.digest)
        /\ state' = "done" /\ UNCHANGED <<message, keyGiven, longer>>
    BY DEF SM3!HmacFinal
  <1>2. HmacInv
    BY <1>1 DEF SM3Inv
  <1>3. PICK n \in 0 .. MaxKey :
          /\ keyGiven = {KeyGiven(n)} /\ key = KeyOf(KeyGiven(n), {SM3!IPAD})
          /\ Holds(ctx, SM3!KeyXor(KeyGiven(n), SM3!IPAD) \o message)
    BY <1>2 DEF HmacInv
  <1> DEFINE bytes == KeyGiven(n)
             ipad == SM3!KeyXor(bytes, SM3!IPAD)
             opad == SM3!KeyXor(bytes, SM3!OPAD)
             hash == SM3!Hash(ipad \o message)
  <1>4. IsSeq(Short(bytes))
    BY KeyGivenIs
  <1>5. IsSeq(ipad) /\ IsSeq(opad) /\ Len(opad) = SM3!BlockSize
    BY <1>4, KeyBytesIs
  <1>6. SM3!AsBytes(key') = opad
    <2>1. key' = KeyOf(bytes, {SM3!OPAD})
      <3>1. SM3!XorEach(KeyOf(bytes, {SM3!IPAD}), SM3!OuterPad)
              = KeyOf(bytes, ({SM3!IPAD} \ SM3!OuterPad) \cup (SM3!OuterPad \ {SM3!IPAD}))
        BY XorKey
      <3> HIDE DEF bytes
      <3>2. key = KeyOf(bytes, {SM3!IPAD})
        BY <1>3 DEF bytes
      <3>3. QED
        BY <1>1, <3>1, <3>2, PadsDiffer, Zenon
    <2>2. SM3!AsBytes(KeyOf(bytes, {SM3!OPAD})) = opad
      BY <1>4, KeyBytesIs
    <2> HIDE DEF bytes, opad
    <2>3. QED
      BY <2>1, <2>2, Zenon
  <1>7. SM3!Digest(inner.digest) = hash
    <2> DEFINE m == ipad \o message
    <2>1. IsSeq(m)
      BY <1>2, <1>5, Joined DEF HmacInv, FedText
    <2>2. Holds(ctx, m)
      BY <1>3
    <2> HIDE DEF m
    <2>3. inner.digest = SM3!Blocks(m)
      BY <2>1, <2>2, FinalIs
    <2> HIDE DEF inner
    <2>4. SM3!Digest(inner.digest) = SM3!Hash(m)
      BY <2>3 DEF SM3!Hash
    <2>5. QED
      BY <2>4 DEF m
  <1>8. IsSeq(hash) /\ Len(hash) = DigestLen
    BY HashIs
  <1>9. /\ SM3!BlockSize \in Nat /\ SM3!Word \in Nat /\ MaxText \in Nat /\ DigestLen \in Nat
        /\ SM3!BlockSize + MaxText < SM3!Word /\ SM3!BlockSize + DigestLen < SM3!Word
    BY BlockSizes, Zenon
  <1> HIDE DEF bytes, ipad, opad, hash, inner
  <1>10. Len(opad) < SM3!Word /\ Len(opad) + Len(hash) < SM3!Word
    BY <1>5, <1>8, <1>9
  <1>11. Holds(first, opad)
    <2>1. Holds(SM3!Update(SM3!NewCtx(inner.block), opad), opad)
      BY <1>5, <1>10, FedAtOnce
    <2>2. QED
      BY <1>6, <2>1, Zenon
  <1> HIDE DEF first
  <1>12. Holds(outer, opad \o hash)
    <2>1. Holds(SM3!Update(first, hash), opad \o hash)
      BY <1>5, <1>8, <1>10, <1>11, UpdateIs
    <2>2. QED
      BY <1>7, <2>1, Zenon
  <1> HIDE DEF outer
  <1>13. SM3!Final(outer).digest = SM3!Blocks(opad \o hash)
    <2>1. IsSeq(opad \o hash)
      BY <1>5, <1>8, Joined
    <2>2. QED
      BY <1>12, <2>1, FinalIs
  <1>14. result' = SM3!Hash(opad \o hash)
    BY <1>1, <1>13 DEF SM3!Hash
  <1>15. SM3!MacIsHmac'
    <2>1. \A b \in keyGiven' : b = bytes
      BY <1>1, <1>3 DEF bytes
    <2>2. message' = message
      BY <1>1
    <2>3. result' = SM3!Hash(SM3!KeyXor(bytes, SM3!OPAD) \o SM3!Hash(SM3!KeyXor(bytes, SM3!IPAD) \o message'))
      BY <1>14, <2>2 DEF opad, hash, ipad
    <2>4. QED
      BY <2>1, <2>3 DEF SM3!MacIsHmac
  <1>16. keyGiven' # SM3!NoKey /\ longer' = SM3!NoCall
    BY <1>1, <1>2, <1>3 DEF HmacInv, SM3!NoKey
  <1>17. DigestsAreSM3'
    BY <1>15, <1>16 DEF DigestsAreSM3, SM3!DigestIsHash, SM3!LongerIsCounterMode
  <1>18. QED
    BY <1>1, <1>17 DEF SM3Inv

LEMMA StartLonger == ASSUME SM3Inv, NEW op \in SM3!Calls, NEW n \in 0 .. MaxOut, SM3!Longer(op, n) PROVE SM3Inv'
  <1>1. longer' = [op |-> op, outlen |-> n, i |-> 0, out |-> << >>] /\ state' = "longer"
    BY DEF SM3!Longer
  <1>2. LongerOut(op, 0) = << >>
    <2> DEFINE f == LongerOut(op, 0)
    <2>1. f = [k \in 1..0 |-> f[k]]
      BY DEF LongerOut
    <2> HIDE DEF f
    <2>2. IsSeq(f) /\ Len(f) = 0
      BY <2>1, Counted
    <2>3. f = << >>
      BY <2>2, NoElement, Same
    <2>4. QED
      BY <2>3 DEF f
  <1>3. DigestLen \in Nat /\ n \in Nat /\ 0 \in Nat
    BY BlockSizes
  <1>4. PICK i \in Nat : i = 0 /\ i * DigestLen = 0
    BY <1>3
  <1>5. longer' = [op |-> op, outlen |-> n, i |-> i, out |-> LongerOut(op, i * DigestLen)]
    BY <1>1, <1>2, <1>4
  <1>6. i * DigestLen <= n
    BY <1>3, <1>4
  <1>7. LongerInv'
    BY <1>3, <1>5, <1>6, Zenon DEF LongerInv
  <1>8. DigestsAreSM3'
    BY <1>1, NotDone
  <1>9. QED
    BY <1>1, <1>7, <1>8 DEF SM3Inv

LEMMA MoreLonger == SM3Inv /\ SM3!LongerMore => SM3Inv'
  <1> SUFFICES ASSUME SM3Inv, SM3!LongerMore PROVE SM3Inv'
    OBVIOUS
  <1>1. /\ state = "longer" /\ SM3!Another
        /\ longer' = [op |-> longer.op, outlen |-> longer.outlen, i |-> longer.i + 1,
                      out |-> longer.out \o SM3!OneShot(SM3!Numbered(longer.op, longer.i))]
        /\ state' = state
    BY DEF SM3!LongerMore
  <1>2. LongerInv
    BY <1>1 DEF SM3Inv
  <1>3. PICK op \in SM3!Calls, outlen \in Nat, i \in Nat :
          /\ longer = [op |-> op, outlen |-> outlen, i |-> i, out |-> LongerOut(op, i * DigestLen)]
          /\ op = "mgf1_sm3" => i * DigestLen <= outlen
    BY <1>2 DEF LongerInv
  <1>4. DigestLen \in Nat \ {0} /\ (i + 1) * DigestLen = i * DigestLen + DigestLen
    BY BlockSizes
  <1>5. LongerOut(op, i * DigestLen) \o SM3!Hash(SM3!Numbered(op, i)) = LongerOut(op, (i + 1) * DigestLen)
    <2> DEFINE more == SM3!Hash(SM3!Numbered(op, i))
    <2>1. IsSeq(more) /\ Len(more) = DigestLen
      BY HashIs
    <2>2. PICK n \in 0 .. DigestLen : n = DigestLen
      BY <1>4
    <2>3. \A m \in 1..n : more[m] = SM3!Hash(SM3!Numbered(op, i))[m]
      OBVIOUS
    <2> HIDE DEF more
    <2>4. LongerOut(op, i * DigestLen) \o more = LongerOut(op, i * DigestLen + n)
      BY <2>1, <2>2, <2>3, OutMore
    <2>5. QED
      BY <1>4, <2>2, <2>4 DEF more
  <1>6. longer' = [op |-> op, outlen |-> outlen, i |-> i + 1, out |-> LongerOut(op, (i + 1) * DigestLen)]
    BY <1>1, <1>3, <1>5, NumberedIs
  <1>7. op = "mgf1_sm3" => (i + 1) * DigestLen <= outlen
    BY <1>1, <1>3 DEF SM3!Another, SM3!WholeDigestFits
  <1>8. PICK j \in Nat : j = i + 1
    OBVIOUS
  <1>9. LongerInv'
    BY <1>6, <1>7, <1>8, Zenon DEF LongerInv
  <1>10. DigestsAreSM3'
    BY <1>1, NotDone
  <1>11. QED
    BY <1>1, <1>9, <1>10 DEF SM3Inv

LEMMA EndLonger == SM3Inv /\ SM3!LongerEnd => SM3Inv'
  <1> SUFFICES ASSUME SM3Inv, SM3!LongerEnd PROVE SM3Inv'
    OBVIOUS
  <1> DEFINE rest == longer.outlen - longer.i * DigestLen
             last == SM3!OneShot(SM3!Numbered(longer.op, longer.i))
  <1>1. /\ state = "longer" /\ ~SM3!Another
        /\ result' = IF longer.op = "sm3_extended" THEN SubSeq(longer.out, 1, longer.outlen)
                     ELSE IF rest > 0 THEN longer.out \o SubSeq(last, 1, rest) ELSE longer.out
        /\ state' = "done" /\ longer' = longer
    BY DEF SM3!LongerEnd
  <1>2. LongerInv
    BY <1>1 DEF SM3Inv
  <1>3. PICK op \in SM3!Calls, outlen \in Nat, i \in Nat :
          /\ longer = [op |-> op, outlen |-> outlen, i |-> i, out |-> LongerOut(op, i * DigestLen)]
          /\ op = "mgf1_sm3" => i * DigestLen <= outlen
    BY <1>2 DEF LongerInv
  <1>4. DigestLen \in Nat \ {0}
    BY BlockSizes
  <1>5. PICK have \in Nat : have = i * DigestLen /\ (i + 1) * DigestLen = have + DigestLen
    BY <1>4
  <1>6. /\ longer.op = op /\ longer.outlen = outlen /\ longer.i = i
        /\ longer.out = LongerOut(op, have) /\ rest = outlen - have
    BY <1>3, <1>5
  <1> HIDE DEF rest
  <1>7. last = SM3!Hash(SM3!Numbered(op, i))
    BY <1>6, NumberedIs
  <1> HIDE DEF last
  <1>8. op \in {"sm3_extended", "mgf1_sm3"}
    BY DEF SM3!Calls
  <1>9. result' = LongerOut(op, outlen)
    <2>1. CASE op = "sm3_extended"
      <3>1. outlen <= have
        BY <1>1, <1>5, <1>6, <2>1 DEF SM3!Another
      <3> DEFINE f == LongerOut(op, have)
                 g == LongerOut(op, outlen)
      <3>2. /\ f = [k \in 1 .. have |-> f[k]] /\ g = [k \in 1 .. outlen |-> g[k]]
            /\ \A k \in 1 .. have : f[k] = LongerByte(op, k)
            /\ \A k \in 1 .. outlen : g[k] = LongerByte(op, k)
        BY DEF LongerOut
      <3> HIDE DEF f, g
      <3>3. IsSeq(f) /\ Len(f) = have /\ IsSeq(g) /\ Len(g) = outlen
        BY <3>2, Counted
      <3>4. /\ IsSeq(SubSeq(f, 1, outlen)) /\ Len(SubSeq(f, 1, outlen)) = outlen
            /\ \A k \in 1 .. outlen : SubSeq(f, 1, outlen)[k] = f[k]
        BY <3>1, <3>3, CutInTwo
      <3>5. \A k \in 1 .. outlen : SubSeq(f, 1, outlen)[k] = g[k]
        BY <3>1, <3>2, <3>4
      <3>6. SubSeq(f, 1, outlen) = g
        BY <3>3, <3>4, <3>5, Same
      <3>7. QED
        BY <1>1, <1>6, <2>1, <3>6 DEF f, g
    <2>2. CASE op = "mgf1_sm3"
      <3>1. have <= outlen /\ outlen < have + DigestLen
        <4>1. ~((i + 1) * DigestLen <= outlen)
          BY <1>1, <1>6, <2>2 DEF SM3!Another, SM3!WholeDigestFits
        <4>2. QED
          BY <1>3, <1>4, <1>5, <2>2, <4>1
      <3>2. CASE have < outlen
        <4>1. PICK n \in 0 .. DigestLen : n = outlen - have /\ n > 0 /\ have + n = outlen
          BY <1>4, <3>1, <3>2
        <4>2. IsSeq(last) /\ Len(last) = DigestLen
          BY <1>7, HashIs
        <4>3. n \in Nat /\ n <= Len(last)
          BY <1>4, <4>2
        <4> DEFINE more == SubSeq(last, 1, n)
        <4>4. IsSeq(more) /\ Len(more) = n /\ \A m \in 1..n : more[m] = last[m]
          BY <4>2, <4>3, CutInTwo
        <4>5. \A m \in 1..n : more[m] = SM3!Hash(SM3!Numbered(op, i))[m]
          BY <1>7, <4>4
        <4> HIDE DEF more
        <4>6. LongerOut(op, i * DigestLen) \o more = LongerOut(op, i * DigestLen + n)
          BY <4>4, <4>5, OutMore
        <4>7. LongerOut(op, have) \o more = LongerOut(op, outlen)
          BY <1>5, <4>1, <4>6
        <4>8. rest = n /\ rest > 0
          BY <1>6, <4>1
        <4>9. result' = longer.out \o SubSeq(last, 1, rest)
          BY <1>1, <1>6, <2>2, <4>8
        <4>10. QED
          BY <1>6, <4>7, <4>8, <4>9 DEF more
      <3>3. CASE have = outlen
        <4>1. ~(rest > 0)
          BY <1>6, <3>3
        <4>2. QED
          BY <1>1, <1>6, <2>2, <3>3, <4>1
      <3>4. QED
        BY <3>1, <3>2, <3>3
    <2>3. QED
      BY <1>8, <2>1, <2>2
  <1>10. longer'.op = op /\ longer'.outlen = outlen /\ longer' # SM3!NoCall
    <2>1. longer' = longer /\ op # "none"
      BY <1>1, <1>8
    <2>2. SM3!NoCall.op = "none"
      BY DEF SM3!NoCall
    <2>3. QED
      BY <1>6, <2>1, <2>2
  <1>11. SM3!LongerIsCounterMode'
    BY <1>9, <1>10 DEF SM3!LongerIsCounterMode, LongerOut, LongerByte
  <1>12. DigestsAreSM3'
    BY <1>10, <1>11 DEF DigestsAreSM3, SM3!DigestIsHash, SM3!MacIsHmac
  <1>13. QED
    BY <1>1, <1>12 DEF SM3Inv

LEMMA SM3Steps == SM3Inv /\ SM3!Next => SM3Inv'
  BY StartHash, FeedText, EndHash, StartHmac, EndHmac, StartLonger, MoreLonger, EndLonger DEF SM3!Next

LEMMA SM3Kept == SM3Inv /\ UNCHANGED sm3Vars => SM3Inv'
  <1> SUFFICES ASSUME SM3Inv, UNCHANGED <<ctx, key, state, message, keyGiven, result, longer>>
               PROVE  SM3Inv'
    BY DEF sm3Vars
  <1>1. DigestsAreSM3'
    BY DEF SM3Inv, DigestsAreSM3, SM3!DigestIsHash, SM3!MacIsHmac, SM3!LongerIsCounterMode
  <1>2. (HashInv' <=> HashInv) /\ (HmacInv' <=> HmacInv) /\ (LongerInv' <=> LongerInv)
    BY DEF HashInv, HmacInv, LongerInv, FedText
  <1>3. QED
    BY <1>1, <1>2 DEF SM3Inv

(* Whatever the sizes of blocks, words and digests, the message, the key   *)
(* and the output, and however sm3_update cuts the message: the digest is  *)
(* that of the padded message, the MAC the HMAC and longer output the      *)
(* numbered digests cut to their length.                                   *)
THEOREM ComputesSM3 == MCSpec => []DigestsAreSM3
  <1>1. MCInit => SM3Inv
    BY SM3InitInv DEF MCInit
  <1>2. SM3Inv /\ [MCNext]_<<interface, vars, incVars, sm3Vars>> => SM3Inv'
    BY SM3Steps, SM3Kept DEF MCNext
  <1>3. SM3Inv => DigestsAreSM3
    BY DEF SM3Inv
  <1>4. QED
    BY <1>1, <1>2, <1>3, PTL DEF MCSpec
=============================================================================
