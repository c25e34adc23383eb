------------------------------ MODULE MCShared ------------------------------
(***************************************************************************)
(* Memory that calls share: the buffer that is the input and the output of *)
(* crypto_sign, the table that encode of SPHINCS-Alpha fills once for all, *)
(* the descriptor that randombytes opens once for all.  A behaviour is one *)
(* of the three, among those that Machines names.                          *)
(*                                                                         *)
(* Five digits below four make 155 words with sum 7 for 81 messages; with  *)
(* three values to a limb, four limbs hold a message and do not hold 155.  *)
(***************************************************************************)
EXTENDS SignedMessage

CONSTANTS zero, one, short, other, long,
          Machines,
          Encoders, Callers, CodeLength, Winternitz, LimbBase, MessageLimbs,
          MaxBytes, MaxChunk, MaxInterrupts, EINTR, EIO, EBADF

MCBytes == {zero, one}
MCContexts == {short, other, long}
MCLongContexts == {long}

VARIABLES machine,
          done, dp, label, row, col, k, x, s, word, number,         \* of ConstantSum
          variant, rereads, fd, at, errno, own, out, outlen, request,
          written, interrupts, stopped, overwritten                             \* of RandomBytes

Code == INSTANCE ConstantSum WITH
            Threads <- Encoders, L <- CodeLength, W <- Winternitz, Base <- LimbBase,
            MessageLimbs <- MessageLimbs,
            pc <- label, i <- row, j <- col, out <- word, message <- number

Rand == INSTANCE RandomBytes WITH Threads <- Callers, pc <- at

ASSUME CodeAssumption == Code!CodeAssumption
ASSUME EveryMessageHasAWord == Code!EveryMessageHasAWord
ASSUME RowsFit == Code!RowsFit
ASSUME SizesAssumption == Rand!SizesAssumption

codeVars == <<done, dp, label, row, col, k, x, s, word, number>>
randVars == <<variant, rereads, fd, at, errno, own, out, outlen, request, written, interrupts, stopped, overwritten>>

(* The others rest. *)
NoCall == /\ mem = [a \in Addresses |-> Garbage]
          /\ pc = "idle" /\ m = 0 /\ sm = 0 /\ i = 0 /\ mlen = 0 /\ smlen = 0
          /\ ctx = short /\ ret = 0 /\ message = << >>

MCInit ==
    /\ machine \in Machines
    /\ Code!Init /\ Rand!Init
    /\ machine # "random" => variant = "getrandom" /\ rereads
    /\ IF machine = "sign" THEN Init ELSE NoCall

MCNext ==
    /\ \/ machine = "sign" /\ Next /\ UNCHANGED <<codeVars, randVars>>
       \/ machine = "encode" /\ Code!Next /\ UNCHANGED <<vars, randVars>>
       \/ machine = "random" /\ Rand!Next /\ UNCHANGED <<vars, codeVars>>
    /\ UNCHANGED machine

(* The fairness of RandomBytes. *)
MCSpec ==
    /\ MCInit /\ [][MCNext]_<<machine, vars, codeVars, randVars>>
    /\ machine = "random" => Rand!Fairness

(* encode of SPHINCS-Alpha: the digits are the message-th word of the code *)
(* (wots.c, uintx.c).                                                      *)
EncodesByRank == machine = "encode" => Code!EncodesByRank

(* encode of SPHINCS-Alpha: every position finds its digit (wots.c).       *)
DigitFound == Code!DigitFound

(* randombytes: every byte once, and no abort without a cause.             *)
FilledOrStopped == Rand!FilledOrStopped

(* randombytes: interruptions and short reads do not keep it for ever.     *)
EventuallyFilled == Rand!EventuallyFilled
=============================================================================
