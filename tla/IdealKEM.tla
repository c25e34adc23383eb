------------------------------ MODULE IdealKEM ------------------------------
(***************************************************************************)
(* What the callers of a key encapsulation mechanism with implicit         *)
(* rejection may rely on: for each recipient a ciphertext stands for one   *)
(* key, for the sender and the recipient alike and for good; no two        *)
(* ciphertexts, and no two recipients, share a key.  A ciphertext nobody   *)
(* made gets a key as well, which nobody else has.                         *)
(***************************************************************************)
VARIABLES known,        \* the keys handed out so far
          answer        \* of the last call: user, ciphertext and key

NoAnswer == << >>

Init == known = {} /\ answer = NoAnswer

SameQuestion(a, b) == a.user = b.user /\ a.ct = b.ct

(* Either call; the sender does not choose the ciphertext.                 *)
Answer ==
    /\ known' = known \cup {answer'}
    /\ \A a \in known : SameQuestion(a, answer') <=> a.key = answer'.key

Spec == Init /\ [][Answer]_<<known, answer>>

=============================================================================
