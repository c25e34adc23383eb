-------------------------- MODULE SignatureScheme --------------------------
(***************************************************************************)
(* What a caller may rely on, whatever the algorithm: a signature is for   *)
(* one message under one context string, it verifies for that pair and for *)
(* no other, and a context string that is too long is refused by both      *)
(* calls.                                                                  *)
(***************************************************************************)
EXTENDS Integers

CONSTANTS Messages,
          Contexts,
          TooLong(_),   \* the context strings that are refused
          None

VARIABLES signed,       \* the pair the signature is for, or None
          verdict       \* arguments and result of the last call that returned,
                        \* or None while one runs

Returned(m, ctx, value) == [args |-> <<m, ctx>>, value |-> value]

Init == signed = None /\ verdict = None

(* Signing may go on trying before it returns, without any outside effect. *)
Enter == signed = None /\ verdict' = None /\ UNCHANGED signed

Sign(m, ctx) ==
    /\ signed = None
    /\ ~TooLong(ctx)
    /\ signed' = <<m, ctx>>
    /\ verdict' = Returned(m, ctx, 0)

RefuseSign(m, ctx) ==
    /\ signed = None
    /\ TooLong(ctx)
    /\ verdict' = Returned(m, ctx, -1)
    /\ UNCHANGED signed

Verify(m, ctx) ==
    /\ signed # None
    /\ LET valid == ~TooLong(ctx) /\ signed = <<m, ctx>>
       IN  verdict' = Returned(m, ctx, IF valid THEN 0 ELSE -1)
    /\ UNCHANGED signed

Next == \/ Enter
        \/ \E m \in Messages, ctx \in Contexts :
               Sign(m, ctx) \/ RefuseSign(m, ctx) \/ Verify(m, ctx)

Spec == Init /\ [][Next]_<<signed, verdict>>

=============================================================================
