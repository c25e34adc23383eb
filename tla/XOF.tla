-------------------------------- MODULE XOF ---------------------------------
(***************************************************************************)
(* What an extendable-output function promises its callers: bytes are      *)
(* absorbed in pieces of any size, then output is read in pieces of any    *)
(* size, and output byte k depends only on the domain and on the message,  *)
(* never on how either was cut into calls.                                 *)
(***************************************************************************)
EXTENDS Integers, Sequences

CONSTANT Byte(_, _, _)   \* Byte(domain, message length, k): output byte k

VARIABLES dom,           \* the domain, once the message is complete
          absorbed,      \* how many bytes of the message are in
          squeezing,     \* the message is complete
          out            \* the bytes read since

vars == <<dom, absorbed, squeezing, out>>

Init == /\ absorbed = 0
        /\ squeezing = FALSE
        /\ out = <<>>

Restart == /\ absorbed' = 0
           /\ squeezing' = FALSE
           /\ out' = <<>>

Absorb == /\ ~squeezing
          /\ absorbed' > absorbed
          /\ UNCHANGED <<squeezing, out>>

\* the last bytes and the padding may come in one step
Finalize == /\ ~squeezing
            /\ squeezing'
            /\ absorbed' >= absorbed
            /\ UNCHANGED out

Squeeze == /\ squeezing
           /\ \E n \in 0..(Len(out') - Len(out)) :
                out' = out \o [i \in 1..n |-> Byte(dom, absorbed, Len(out) + i - 1)]
           /\ UNCHANGED <<dom, absorbed, squeezing>>

Next == Restart \/ Absorb \/ Finalize \/ Squeeze

Spec == Init /\ [][Next]_vars
=============================================================================
